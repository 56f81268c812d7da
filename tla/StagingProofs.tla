---------------------------- MODULE StagingProofs -----------------------------
(***************************************************************************)
(* What is staged, whatever is on screen and however often it is undone,   *)
(* reviewed and applied.  Undo is the inverse of the change it undoes.  For *)
(* new rows that were taken out, one after the other from the last, that is *)
(* shown by induction on how many are out, and then on how many are back.   *)
(***************************************************************************)
EXTENDS Staging, WellFoundedInduction, FiniteSetTheorems, SequenceTheorems, TLAPS

\* A sequence, whatever it is of.
Listed(s) == Len(s) \in Nat /\ s = [i \in 1..Len(s) |-> s[i]]

\* Changes as the popup keeps them: no row without a changed cell.
Kept(s) ==
  /\ s = [updates |-> s.updates, deletes |-> s.deletes, inserts |-> s.inserts]
  /\ s.updates = [r \in DOMAIN s.updates |-> s.updates[r]]
  /\ \A r \in DOMAIN s.updates : s.updates[r] # Empty
  /\ Listed(s.inserts)
OnGrid(s, g) == (DOMAIN s.updates) \cup s.deletes \subseteq DOMAIN g

\* Each change of the history can be undone to what was staged before it, back to nothing.
Undoable(h, p, s, g) ==
  /\ Listed(h) /\ Listed(p) /\ Len(p) = Len(h)
  /\ Kept(s) /\ OnGrid(s, g)
  /\ \A i \in 1..Len(h) : Kept(p[i]) /\ OnGrid(p[i], g)
  /\ \A i \in 1..Len(h) : Undone(IF i = Len(h) THEN s ELSE p[i + 1], h[i]) = p[i]
  /\ Len(h) = 0 => s = Nothing
  /\ Len(h) # 0 => p[1] = Nothing

\* What is reviewed is what is staged, on the result that is shown.
Reviewed(v, s, n, g) == v # NoReview => v.changes = s /\ v.result = n /\ v.grid = g

UndoInv == Undoable(history, past, staged, grid) /\ Reviewed(review, staged, shown, grid)

-----------------------------------------------------------------------------
(* Sequences *)

LEMMA InSeq == ASSUME NEW s, Listed(s) PROVE s \in Seq({s[i] : i \in 1..Len(s)})
BY DEF Listed

LEMMA ListedOf == ASSUME NEW S, NEW s \in Seq(S) PROVE Listed(s)
BY DEF Listed

LEMMA Added == ASSUME NEW s, NEW x, Listed(s)
  PROVE /\ Listed(Append(s, x)) /\ Len(Append(s, x)) = Len(s) + 1
        /\ \A i \in 1..Len(s) : Append(s, x)[i] = s[i]
        /\ Append(s, x)[Len(s) + 1] = x
        /\ RemoveAt(Append(s, x), Len(s) + 1) = s
        /\ Front(Append(s, x)) = s /\ Last(Append(s, x)) = x
<1> DEFINE S == {s[i] : i \in 1..Len(s)} \cup {x}
<1>1. s \in Seq(S)
  BY DEF Listed
<1> HIDE DEF S
<1>0. x \in S
  BY DEF S
<1>2. Append(s, x) \in Seq(S) /\ Len(Append(s, x)) = Len(s) + 1
  BY <1>0, <1>1
<1>3. Listed(Append(s, x))
  BY <1>2, ListedOf
<1>4. SubSeq(Append(s, x), 1, Len(s)) = s
  BY <1>0, <1>1
<1>5. RemoveAt(Append(s, x), Len(s) + 1) = s
  <2>1. SubSeq(Append(s, x), Len(s) + 2, Len(s) + 1) = <<>>
    BY <1>2, <1>1
  <2>2. s \o <<>> = s
    BY <1>1
  <2>3. (Len(s) + 1) - 1 = Len(s) /\ (Len(s) + 1) + 1 = Len(s) + 2
    BY <1>1
  <2> QED
    BY <2>1, <2>2, <1>4, <1>2, <2>3 DEF RemoveAt
<1> QED
  BY <1>0, <1>1, <1>2, <1>3, <1>4, <1>5 DEF Front, Last

LEMMA TookLast == ASSUME NEW s, Listed(s), s # <<>>
  PROVE /\ Len(s) \in Nat \ {0} /\ Listed(Front(s)) /\ Len(Front(s)) = Len(s) - 1
        /\ \A i \in 1..(Len(s) - 1) : Front(s)[i] = s[i]
<1> DEFINE S == {s[i] : i \in 1..Len(s)}
<1>1. s \in Seq(S)
  BY DEF Listed
<1> HIDE DEF S
<1>2. Len(s) \in Nat \ {0}
  BY <1>1
<1>3. Front(s) \in Seq(S) /\ Len(Front(s)) = Len(s) - 1 /\ \A i \in 1..(Len(s) - 1) : Front(s)[i] = s[i]
  <2>1. Len(s) - 1 \in Nat /\ Len(s) - 1 <= Len(s)
    BY <1>2
  <2>2. \A i \in 1..(Len(s) - 1) : SubSeq(s, 1, Len(s) - 1)[i] = s[i]
    BY <1>1, <1>2, <2>1
  <2>3. \A i \in 1..(Len(s) - 1) : s[i] \in S
    BY <1>1, <1>2
  <2>4. SubSeq(s, 1, Len(s) - 1) \in Seq(S)
    BY <2>3, <1>2, <2>1, SubSeqProperties
  <2>5. Len(SubSeq(s, 1, Len(s) - 1)) = Len(s) - 1
    BY <1>1, <1>2, <2>1
  <2> QED
    BY <2>2, <2>4, <2>5 DEF Front
<1>4. Listed(Front(s))
  BY <1>3, ListedOf
<1> QED
  BY <1>2, <1>3, <1>4

LEMMA Removed == ASSUME NEW s, NEW i, Listed(s), i \in 1..Len(s)
  PROVE /\ Listed(RemoveAt(s, i)) /\ Len(RemoveAt(s, i)) = Len(s) - 1
        /\ \A j \in 1..(i - 1) : RemoveAt(s, i)[j] = s[j]
        /\ InsertAt(RemoveAt(s, i), i, s[i]) = s
<1> DEFINE S == {s[j] : j \in 1..Len(s)}
<1>1. s \in Seq(S) /\ s[i] \in S
  BY DEF Listed
<1> HIDE DEF S
<1>2. i \in Nat /\ Len(s) \in Nat /\ 1 <= i /\ i <= Len(s)
  BY <1>1
<1> DEFINE a == SubSeq(s, 1, i - 1)
           b == SubSeq(s, i + 1, Len(s))
<1>3. /\ a \in Seq(S) /\ Len(a) = i - 1 /\ \A j \in 1..(i - 1) : a[j] = s[j]
      /\ b \in Seq(S) /\ Len(b) = Len(s) - i /\ \A j \in 1..(Len(s) - i) : b[j] = s[i + j]
  BY <1>1, <1>2
<1>4. RemoveAt(s, i) = a \o b
  BY DEF RemoveAt
<1> HIDE DEF a, b
<1>5. /\ a \o b \in Seq(S) /\ Len(a \o b) = Len(s) - 1
      /\ \A j \in 1..(i - 1) : (a \o b)[j] = a[j]
      /\ \A j \in 1..(Len(s) - i) : (a \o b)[(i - 1) + j] = b[j]
  <2>0. a \o b \in Seq(S) /\ Len(a \o b) = Len(a) + Len(b)
    BY <1>3, ConcatProperties
  <2>1. a \o b \in Seq(S) /\ Len(a \o b) = Len(s) - 1
    BY <2>0, <1>2, <1>3
  <2>2. ASSUME NEW j \in 1..(i - 1) PROVE (a \o b)[j] = a[j]
    <3>1. j \in 1..(Len(a) + Len(b)) /\ j <= Len(a)
      BY <1>2, <1>3
    <3> QED
      BY <1>3, <3>1, ConcatProperties
  <2>3. ASSUME NEW j \in 1..(Len(s) - i) PROVE (a \o b)[(i - 1) + j] = b[j]
    <3>1. (i - 1) + j \in 1..(Len(a) + Len(b)) /\ ~((i - 1) + j <= Len(a)) /\ ((i - 1) + j) - Len(a) = j
      BY <1>2, <1>3
    <3> QED
      BY <1>3, <3>1
  <2> QED
    BY <2>1, <2>2, <2>3
<1> DEFINE t == a \o b
<1>6. /\ t \in Seq(S) /\ Len(t) = Len(s) - 1
      /\ \A j \in 1..(i - 1) : t[j] = s[j]
      /\ \A j \in 1..(Len(s) - i) : t[(i - 1) + j] = s[i + j]
  BY <1>2, <1>3, <1>5
<1> HIDE DEF t
<1> DEFINE p == SubSeq(t, 1, i - 1)
           q == SubSeq(t, i, Len(t))
<1>7. /\ p \in Seq(S) /\ Len(p) = i - 1 /\ \A j \in 1..(i - 1) : p[j] = s[j]
  BY <1>1, <1>2, <1>6
<1>8. /\ q \in Seq(S) /\ Len(q) = Len(s) - i
  BY <1>1, <1>2, <1>6
<1>9. ASSUME NEW j \in 1..(Len(s) - i) PROVE q[j] = s[i + j]
  <2>1. q[j] = t[i + j - 1]
    BY <1>2, <1>6
  <2>2. i + j - 1 = (i - 1) + j
    BY <1>2
  <2> QED
    BY <2>1, <2>2, <1>6
<1>10. InsertAt(t, i, s[i]) = (p \o <<s[i]>>) \o q
  BY DEF InsertAt
<1> HIDE DEF p, q
<1>11. /\ p \o <<s[i]>> \in Seq(S) /\ Len(p \o <<s[i]>>) = i
       /\ \A j \in 1..i : (p \o <<s[i]>>)[j] = s[j]
  BY <1>1, <1>2, <1>7
<1> DEFINE u == p \o <<s[i]>>
<1>12. u \in Seq(S) /\ Len(u) = i /\ \A j \in 1..i : u[j] = s[j]
  BY <1>11
<1> HIDE DEF u
<1>13. u \o q \in Seq(S) /\ Len(u \o q) = Len(s)
  BY <1>2, <1>8, <1>12
<1>14. ASSUME NEW k \in 1..Len(s) PROVE (u \o q)[k] = s[k]
  <2>1. CASE k <= i
    <3>1. k \in 1..i
      BY <2>1, <1>2
    <3>2. (u \o q)[k] = u[k]
      BY <3>1, <1>2, <1>8, <1>12
    <3> QED
      BY <3>1, <3>2, <1>12
  <2>2. CASE k > i
    <3>1. k - i \in 1..(Len(s) - i) /\ i + (k - i) = k
      BY <2>2, <1>2
    <3>2. (u \o q)[k] = q[k - i]
      BY <3>1, <2>2, <1>2, <1>8, <1>12
    <3> QED
      BY <3>1, <3>2, <1>9
  <2>3. k <= i \/ k > i
    BY <1>2
  <2> QED
    BY <2>1, <2>2, <2>3
<1>15. u \o q = s
  BY <1>1, <1>13, <1>14, SeqEqual
<1> QED
  BY <1>4, <1>6, <1>10, <1>15, ListedOf DEF t, u
-----------------------------------------------------------------------------
(* Induction *)

LEMMA Least == ASSUME NEW T \in SUBSET Nat, T # {} PROVE \E n \in T : \A m \in T : n <= m
<1>1. PICK n \in T : \A m \in T : ~ (<<m, n>> \in OpToRel(<, Nat))
  BY NatLessThanWellFounded, WFMin, Zenon
<1>2. ASSUME NEW m \in T PROVE n <= m
  <2>1. ~(<<m, n>> \in OpToRel(<, Nat))
    BY <1>1, Zenon
  <2>2. m < n => <<m, n>> \in OpToRel(<, Nat)
    BY DEF OpToRel
  <2>3. ~(m < n)
    BY <2>1, <2>2, Zenon
  <2> QED
    BY <2>3
<1> QED
  BY <1>2

\* A property that passes from each step to the next holds of all.
LEMMA Steps == ASSUME NEW n \in Nat, NEW S, 0 \in S, \A k \in 0..(n - 1) : k \in S => k + 1 \in S
  PROVE n \in S /\ 0..n \subseteq S
<1> DEFINE T == (0..n) \ S
<1>1. CASE T # {}
  <2>0. T \in SUBSET Nat
    OBVIOUS
  <2> HIDE DEF T
  <2>1. PICK k \in T : \A m \in T : k <= m
    BY <1>1, <2>0, Least
  <2> USE DEF T
  <2>2. k - 1 \in 0..(n - 1) /\ k - 1 \in S
    BY <2>1
  <2> QED
    BY <2>1, <2>2
<1> QED
  BY <1>1
\* A finite set of numbers, in its order.
LEMMA SortedIs == ASSUME NEW m \in Nat, NEW s \in SUBSET (1..m)
  PROVE /\ Cardinality(s) \in Nat /\ Len(Sorted(s)) = Cardinality(s) /\ Listed(Sorted(s))
        /\ \A k \in 1..Cardinality(s) : Sorted(s)[k] \in s
        /\ \A k, l \in 1..Cardinality(s) : k < l => Sorted(s)[k] < Sorted(s)[l]
<1> DEFINE Below(x) == {y \in s : y < x}
           Rank(x) == Cardinality(Below(x))
           S == {k \in Nat : k < Cardinality(s) => \E x \in s : Rank(x) = k}
<1>0. IsFiniteSet(1..m) /\ 1 \in Int /\ m \in Int
  BY FS_Interval
<1> \A x \in s : x \in Nat
  OBVIOUS
<1>1. IsFiniteSet(s) /\ Cardinality(s) \in Nat
  BY <1>0, FS_Subset, FS_CardinalityType
<1>2. ASSUME NEW x PROVE IsFiniteSet(Below(x)) /\ Rank(x) \in Nat
  BY <1>1, FS_Subset, FS_CardinalityType
<1>3. 0 \in S
  <2>1. CASE s = {}
    BY <2>1, FS_EmptySet
  <2>2. CASE s # {}
    <3>1. s \in SUBSET Nat
      OBVIOUS
    <3>2. PICK x \in s : \A y \in s : x <= y
      BY <2>2, <3>1, Least
    <3>3. Below(x) = {}
      <4>1. ASSUME NEW y \in s PROVE ~(y < x)
        <5>1. x \in Nat /\ y \in Nat /\ x <= y
          BY <3>1, <3>2
        <5> QED
          BY <5>1
      <4> QED
        BY <4>1
    <3>4. Rank(x) = 0
      BY <3>3, FS_EmptySet
    <3> QED
      BY <3>4
  <2> QED
    BY <2>1, <2>2
<1>4. ASSUME NEW k \in Nat, k \in S PROVE k + 1 \in S
  <2> SUFFICES ASSUME k + 1 < Cardinality(s) PROVE \E x \in s : Rank(x) = k + 1
    OBVIOUS
  <2>1. k < Cardinality(s)
    BY <1>1
  <2>2. PICK x \in s : Rank(x) = k
    BY <1>4, <2>1
  <2> DEFINE Upper == {y \in s : x < y}
             Under == Below(x) \cup {x}
  <2>3. IsFiniteSet(Under) /\ Cardinality(Under) = k + 1
    <3>1. x \notin Below(x)
      OBVIOUS
    <3> QED
      BY <1>2, <2>2, <3>1, FS_AddElement
  <2>4. Upper # {}
    <3>1. \A y \in s : y \in Nat
      OBVIOUS
    <3>2. x \in Nat /\ \A y \in s : y < x \/ y = x \/ x < y
      BY <3>1, <2>2
    <3>3. Upper = {} => s = Under
      BY <3>2, <2>2
    <3> QED
      BY <3>3, <2>3, <1>1
  <2>5. Upper \in SUBSET Nat
    OBVIOUS
  <2>6. PICK z \in Upper : \A y \in Upper : z <= y
    <3> HIDE DEF Upper
    <3> QED
      BY <2>4, <2>5, Least
  <2>7. Below(z) = Under
    <3>1. x \in Nat /\ z \in s /\ x < z
      BY <2>2, <2>6
    <3>2. ASSUME NEW y \in s PROVE y < z <=> y < x \/ y = x
      <4>1. y \in Nat /\ z \in Nat
        BY <3>1
      <4>2. x < y => z <= y
        BY <2>6
      <4> QED
        BY <3>1, <4>1, <4>2
    <3> QED
      BY <3>1, <3>2, <2>2
  <2>8. Rank(z) = k + 1 /\ z \in s
    BY <2>3, <2>6, <2>7
  <2> QED
    BY <2>8
<1>5. ASSUME NEW k \in 1..Cardinality(s) PROVE \E x \in s : Rank(x) = k - 1
  <2>1. k - 1 \in Nat /\ k - 1 < Cardinality(s)
    BY <1>1
  <2>2. \A i \in 0..((k - 1) - 1) : i \in S => i + 1 \in S
    BY <2>1, <1>4
  <2>3. k - 1 \in S
    <3> HIDE DEF S
    <3> QED
      BY <1>3, <2>1, <2>2, Steps
  <2> QED
    BY <2>1, <2>3
<1>6. Sorted(s) = [k \in 1..Cardinality(s) |-> CHOOSE x \in s : Rank(x) = k - 1]
  BY DEF Sorted
<1>7. ASSUME NEW k \in 1..Cardinality(s) PROVE Sorted(s)[k] \in s /\ Rank(Sorted(s)[k]) = k - 1
  <2> HIDE DEF Rank
  <2>1. Sorted(s)[k] = CHOOSE x \in s : Rank(x) = k - 1
    BY <1>6
  <2> QED
    BY <1>5, <2>1
<1>8. ASSUME NEW k \in 1..Cardinality(s), NEW l \in 1..Cardinality(s), k < l
      PROVE  Sorted(s)[k] < Sorted(s)[l]
  <2> DEFINE x == Sorted(s)[k]
             y == Sorted(s)[l]
  <2>1. x \in s /\ y \in s /\ Rank(x) = k - 1 /\ Rank(y) = l - 1
    BY <1>7
  <2> HIDE DEF x, y
  <2>2. SUFFICES ASSUME ~(x < y) PROVE FALSE
    BY DEF x, y
  <2>3. Below(y) \subseteq Below(x)
    <3>1. ASSUME NEW z \in s, z < y PROVE z < x
      <4>1. x \in Nat /\ y \in Nat /\ z \in Nat /\ ~(x < y)
        BY <2>1, <2>2
      <4> QED
        BY <3>1, <4>1
    <3> QED
      BY <3>1
  <2>4. Rank(y) <= Rank(x)
    BY <1>2, <2>3, FS_Subset
  <2> QED
    BY <2>1, <2>4, <1>1, <1>8
<1>9. Len(Sorted(s)) = Cardinality(s)
  BY <1>1, <1>6
<1>10. Listed(Sorted(s))
  BY <1>1, <1>6, <1>9 DEF Listed
<1> QED
  BY <1>1, <1>7, <1>8, <1>9, <1>10

-----------------------------------------------------------------------------
(* New rows taken out and put back *)

\* What a recursive function is: there is one.
LEMMA PuttingBack == ASSUME NEW rows, NEW gone, Len(gone) \in Nat
  PROVE \E f : /\ f[0] = rows /\ PutBack(rows, gone) = f[Len(gone)]
               /\ \A k \in 1..Len(gone) : f[k] = InsertAt(f[k-1], gone[k].at, gone[k].row)
<1> DEFINE Def(f, m) == f = [n \in 0..m |-> IF n = 0 THEN rows ELSE InsertAt(f[n-1], gone[n].at, gone[n].row)]
           S == {m \in Nat : \E f : Def(f, m)}
<1>1. 0 \in S
  <2> DEFINE g == [n \in {0} |-> rows]
  <2>1. Def(g, 0)
    OBVIOUS
  <2> QED
    BY <2>1
<1>2. ASSUME NEW k \in 0..(Len(gone) - 1), k \in S PROVE k + 1 \in S
  <2>1. PICK f : Def(f, k)
    BY <1>2
  <2> DEFINE g == [n \in 0..(k + 1) |-> IF n = k + 1 THEN InsertAt(f[k], gone[k + 1].at, gone[k + 1].row) ELSE f[n]]
  <2>2. Def(g, k + 1) /\ k + 1 \in Nat
    BY <2>1
  <2> HIDE DEF Def, g
  <2> QED
    BY <2>2
<1>3. \E f : Def(f, Len(gone))
  <2>0. \A k \in 0..(Len(gone) - 1) : k \in S => k + 1 \in S
    BY <1>2
  <2> HIDE DEF S
  <2>1. Len(gone) \in S
    BY <1>1, <2>0, Steps
  <2> QED
    BY <2>1 DEF S
<1>4. PICK f : f = (CHOOSE g : Def(g, Len(gone)))
  OBVIOUS
<1>5. Def(f, Len(gone))
  BY <1>3, <1>4
<1>6. PutBack(rows, gone) = f[Len(gone)]
  BY <1>4 DEF PutBack, InTurn
<1>7. f[0] = rows
  BY <1>5
<1>8. ASSUME NEW k \in 1..Len(gone) PROVE f[k] = InsertAt(f[k-1], gone[k].at, gone[k].row)
  <2>1. k \in 0..Len(gone) /\ k # 0
    OBVIOUS
  <2> QED
    BY <1>5, <2>1
<1> HIDE DEF Def
<1> QED
  BY <1>6, <1>7, <1>8
LEMMA TakingOut == ASSUME NEW rows, NEW from, Len(from) \in Nat
  PROVE \E f : /\ f[0] = rows /\ TakenOut(rows, from) = f[Len(from)]
               /\ \A k \in 1..Len(from) : f[k] = RemoveAt(f[k-1], from[k])
<1> DEFINE Def(f, m) == f = [n \in 0..m |-> IF n = 0 THEN rows ELSE RemoveAt(f[n-1], from[n])]
           S == {m \in Nat : \E f : Def(f, m)}
<1>1. 0 \in S
  <2> DEFINE g == [n \in {0} |-> rows]
  <2>1. Def(g, 0)
    OBVIOUS
  <2> QED
    BY <2>1
<1>2. ASSUME NEW k \in 0..(Len(from) - 1), k \in S PROVE k + 1 \in S
  <2>1. PICK f : Def(f, k)
    BY <1>2
  <2> DEFINE g == [n \in 0..(k + 1) |-> IF n = k + 1 THEN RemoveAt(f[k], from[k + 1]) ELSE f[n]]
  <2>2. Def(g, k + 1) /\ k + 1 \in Nat
    BY <2>1
  <2> HIDE DEF Def, g
  <2> QED
    BY <2>2
<1>3. \E f : Def(f, Len(from))
  <2>0. \A k \in 0..(Len(from) - 1) : k \in S => k + 1 \in S
    BY <1>2
  <2> HIDE DEF S
  <2>1. Len(from) \in S
    BY <1>1, <2>0, Steps
  <2> QED
    BY <2>1 DEF S
<1>4. PICK f : f = (CHOOSE g : Def(g, Len(from)))
  OBVIOUS
<1>5. Def(f, Len(from))
  BY <1>3, <1>4
<1>6. TakenOut(rows, from) = f[Len(from)]
  BY <1>4 DEF TakenOut, InTurn
<1>7. f[0] = rows
  BY <1>5
<1>8. ASSUME NEW k \in 1..Len(from) PROVE f[k] = RemoveAt(f[k-1], from[k])
  <2>1. k \in 0..Len(from) /\ k # 0
    OBVIOUS
  <2> QED
    BY <1>5, <2>1
<1> HIDE DEF Def
<1> QED
  BY <1>6, <1>7, <1>8
\* New rows taken out from the last one, and put back in the opposite order, are as before:
\* each goes in where everything below it still is what it was.
LEMMA PutBackTakenOut ==
  ASSUME NEW rows, Listed(rows), NEW added \in SUBSET (1..Len(rows)),
         NEW from, from = Reverse(Sorted(added)),
         NEW removed, removed = [k \in DOMAIN from |-> [at |-> from[k], row |-> rows[from[k]]]]
  PROVE  Listed(TakenOut(rows, from)) /\ PutBack(TakenOut(rows, from), Reverse(removed)) = rows
<1> DEFINE n == Cardinality(added)
           gone == Reverse(removed)
<1>0. Len(rows) \in Nat
  BY DEF Listed
<1>1. /\ n \in Nat /\ Len(Sorted(added)) = n
      /\ \A k \in 1..n : Sorted(added)[k] \in added
      /\ \A k, l \in 1..n : k < l => Sorted(added)[k] < Sorted(added)[l]
  BY <1>0, SortedIs
<1>2. from = [k \in 1..n |-> Sorted(added)[(n - k) + 1]]
  BY <1>1 DEF Reverse
<1> HIDE DEF n
<1>3. \A k \in 1..n : (n - k) + 1 \in 1..n
  BY <1>1
<1>4. Len(from) = n /\ DOMAIN from = 1..n
  BY <1>1, <1>2
<1>5. \A k \in 1..n : from[k] \in added /\ from[k] \in 1..Len(rows)
  BY <1>1, <1>2, <1>3
<1>6. \A k, l \in 1..n : k < l => from[l] < from[k]
  <2> SUFFICES ASSUME NEW k \in 1..n, NEW l \in 1..n, k < l PROVE from[l] < from[k]
    OBVIOUS
  <2>1. (n - l) + 1 < (n - k) + 1
    BY <1>1
  <2> QED
    BY <2>1, <1>1, <1>2, <1>3
<1>7. removed = [k \in 1..n |-> [at |-> from[k], row |-> rows[from[k]]]] /\ Len(removed) = n
  BY <1>1, <1>4
<1>8. gone = [j \in 1..n |-> removed[(n - j) + 1]] /\ Len(gone) = n
  BY <1>1, <1>7 DEF Reverse
<1>9. \A j \in 1..n : /\ gone[j].at = from[(n - j) + 1]
                      /\ gone[j].row = rows[from[(n - j) + 1]]
  <2> SUFFICES ASSUME NEW j \in 1..n
               PROVE gone[j].at = from[(n - j) + 1] /\ gone[j].row = rows[from[(n - j) + 1]]
    OBVIOUS
  <2> DEFINE k == (n - j) + 1
  <2>1. k \in 1..n /\ gone[j] = removed[k]
    BY <1>3, <1>8
  <2> HIDE DEF k
  <2>2. removed[k] = [at |-> from[k], row |-> rows[from[k]]]
    BY <1>7, <2>1
  <2> QED
    BY <2>1, <2>2 DEF k
<1>10. PICK r : /\ r[0] = rows /\ TakenOut(rows, from) = r[Len(from)]
                /\ \A k \in 1..Len(from) : r[k] = RemoveAt(r[k-1], from[k])
  <2>1. Len(from) \in Nat
    BY <1>1, <1>4
  <2> QED
    BY <2>1, TakingOut
<1>11. /\ r[0] = rows /\ TakenOut(rows, from) = r[n]
       /\ \A k \in 1..n : r[k] = RemoveAt(r[k-1], from[k])
  BY <1>1, <1>4, <1>10
<1> DEFINE Whole(k) == /\ Listed(r[k]) /\ Len(r[k]) \in Nat
                       /\ k # 0 => Len(r[k]) >= from[k] - 1
                       /\ \A i \in 1..Len(rows) : (k = 0 \/ i < from[k]) => /\ i <= Len(r[k])
                                                                         /\ r[k][i] = rows[i]
           S == {k \in 0..n : Whole(k)}
<1>12. 0 \in S
  BY <1>0, <1>1, <1>11
<1>13. ASSUME NEW k \in 0..(n - 1), k \in S PROVE k + 1 \in S
  <2> DEFINE f == from[k + 1]
  <2>1. k + 1 \in 1..n /\ (k + 1) - 1 = k /\ k \in 0..n /\ Whole(k)
    BY <1>1, <1>13
  <2>2. f \in 1..Len(rows) /\ (k = 0 \/ f < from[k])
    BY <1>5, <1>6, <2>1
  <2>3. f \in 1..Len(r[k]) /\ \A i \in 1..f : i <= Len(r[k]) /\ r[k][i] = rows[i]
    <3>1. \A i \in 1..f : i \in 1..Len(rows) /\ (k = 0 \/ i < from[k])
      BY <2>1, <2>2, <1>0, <1>5
    <3> QED
      BY <2>1, <2>2, <3>1, <1>0
  <2>4. r[k + 1] = RemoveAt(r[k], f)
    BY <1>11, <2>1
  <2> HIDE DEF f
  <2>5. /\ Listed(r[k + 1]) /\ Len(r[k + 1]) = Len(r[k]) - 1
        /\ \A i \in 1..(f - 1) : r[k + 1][i] = r[k][i]
    <3>1. Listed(r[k]) /\ f \in 1..Len(r[k])
      BY <2>1, <2>3
    <3>2. /\ Listed(RemoveAt(r[k], f)) /\ Len(RemoveAt(r[k], f)) = Len(r[k]) - 1
          /\ \A i \in 1..(f - 1) : RemoveAt(r[k], f)[i] = r[k][i]
      BY <3>1, Removed
    <3> QED
      BY <3>2, <2>4
  <2>6. ASSUME NEW i \in 1..Len(rows), i < f PROVE i <= Len(r[k + 1]) /\ r[k + 1][i] = rows[i]
    <3>1. i \in 1..(f - 1) /\ i \in 1..f
      BY <2>2, <2>6, <1>0
    <3> QED
      <4>1. Len(r[k]) \in Nat /\ f \in 1..Len(r[k]) /\ Len(r[k + 1]) = Len(r[k]) - 1
        BY <2>1, <2>3, <2>5
      <4>2. i <= Len(r[k + 1])
        BY <3>1, <4>1
      <4>3. r[k + 1][i] = r[k][i] /\ r[k][i] = rows[i]
        BY <3>1, <2>5, <2>3
      <4> QED
        BY <4>2, <4>3
  <2>7. Len(r[k + 1]) \in Nat /\ Len(r[k + 1]) >= f - 1 /\ k + 1 # 0 /\ k + 1 \in 0..n
    BY <2>1, <2>3, <2>5, <1>1
  <2>8. f = from[k + 1]
    BY DEF f
  <2> QED
    BY <2>5, <2>6, <2>7, <2>8
<1>14. 0..n \subseteq S
  <2>1. \A k \in 0..(n - 1) : k \in S => k + 1 \in S
    BY <1>13
  <2> HIDE DEF S
  <2> QED
    BY <1>1, <1>12, <2>1, Steps
<1>15. Listed(TakenOut(rows, from))
  BY <1>1, <1>11, <1>14
\* The other way, what is there after j steps is what was there n - j steps before.
<1> DEFINE start == r[n]
<1> HIDE DEF start
<1>16. PICK b : /\ b[0] = start /\ PutBack(start, gone) = b[Len(gone)]
                /\ \A j \in 1..Len(gone) : b[j] = InsertAt(b[j-1], gone[j].at, gone[j].row)
  <2>1. Len(gone) \in Nat
    BY <1>1, <1>8
  <2> HIDE DEF gone
  <2> QED
    BY <2>1, PuttingBack
<1>17. /\ b[0] = start /\ PutBack(start, gone) = b[n]
       /\ \A j \in 1..n : b[j] = InsertAt(b[j-1], gone[j].at, gone[j].row)
  BY <1>1, <1>8, <1>16
<1> HIDE DEF gone
<1> DEFINE B == {j \in 0..n : b[j] = r[n - j]}
<1>18. 0 \in B
  BY <1>1, <1>17 DEF start
<1>19. ASSUME NEW j \in 0..(n - 1), j \in B PROVE j + 1 \in B
  <2> DEFINE k == n - (j + 1)
  <2>1. /\ k \in 0..(n - 1) /\ k \in 0..n /\ k + 1 \in 1..n /\ n - j = k + 1 /\ (k + 1) - 1 = k
        /\ j + 1 \in 1..n /\ (j + 1) - 1 = j /\ (n - (j + 1)) + 1 = k + 1 /\ j + 1 \in 0..n
    BY <1>1
  <2>2. b[j] = r[k + 1]
    BY <1>19, <2>1
  <2>3. gone[j + 1].at = from[k + 1] /\ gone[j + 1].row = rows[from[k + 1]]
    BY <1>9, <2>1
  <2>4. r[k + 1] = RemoveAt(r[k], from[k + 1])
    BY <1>11, <2>1
  <2>5. b[j + 1] = InsertAt(RemoveAt(r[k], from[k + 1]), from[k + 1], rows[from[k + 1]])
    BY <1>17, <2>1, <2>2, <2>3, <2>4
  <2>6. Whole(k)
    BY <1>14, <2>1
  <2>7. from[k + 1] \in 1..Len(rows) /\ (k = 0 \/ from[k + 1] < from[k])
    BY <1>5, <1>6, <2>1
  <2>8. from[k + 1] \in 1..Len(r[k]) /\ r[k][from[k + 1]] = rows[from[k + 1]]
    BY <2>6, <2>7, <1>0
  <2>9. b[j + 1] = r[k]
    BY <2>5, <2>6, <2>8, Removed
  <2> QED
    BY <2>1, <2>9
<1>20. n \in B
  <2>1. \A j \in 0..(n - 1) : j \in B => j + 1 \in B
    BY <1>19
  <2> HIDE DEF B
  <2> QED
    BY <1>1, <1>18, <2>1, Steps
<1>21. PutBack(start, gone) = rows
  BY <1>1, <1>11, <1>17, <1>20
<1> QED
  BY <1>11, <1>15, <1>21 DEF start, gone

-----------------------------------------------------------------------------
(* The invariant after a step *)

LEMMA UndoInvNext ==
  UndoInv' <=> /\ Undoable(history', past', staged', grid')
               /\ Reviewed(review', staged', shown', grid')
BY DEF UndoInv, Undoable, Reviewed, Kept, OnGrid, Listed

-----------------------------------------------------------------------------
(* Changes, one by one, and their undoing *)

LEMMA CellBack ==
  ASSUME NEW s, Kept(s), NEW g, OnGrid(s, g), NEW r \in DOMAIN g, NEW c, NEW value,
         NEW cells, cells = (IF r \in DOMAIN s.updates THEN s.updates[r] ELSE Empty),
         NEW x, x = With(cells, c, value), NEW w, w = With(s.updates, r, x),
         NEW new, new = [updates |-> w, deletes |-> s.deletes, inserts |-> s.inserts],
         NEW undo, undo = [kind |-> "cell", row |-> r, column |-> c, cells |-> cells]
  PROVE  Kept(new) /\ OnGrid(new, g) /\ Undone(new, undo) = s
<1>1. PICK u : u = s.updates
  OBVIOUS
<1>2. x = With(cells, c, value)
  OBVIOUS
<1>3. x # Empty
  BY <1>2 DEF With, Empty
<1>4. w = With(u, r, x)
  BY <1>1
<1>5. new = [updates |-> w, deletes |-> s.deletes, inserts |-> s.inserts]
  OBVIOUS
<1>6. w = [y \in DOMAIN u \cup {r} |-> IF y = r THEN x ELSE u[y]]
  BY <1>4 DEF With
<1>7. Kept(new)
  BY <1>1, <1>3, <1>5, <1>6 DEF Kept
<1>8. OnGrid(new, g)
  BY <1>1, <1>5, <1>6 DEF OnGrid
<1>9. PICK z : z = IF cells = Empty THEN Without(w, r) ELSE With(w, r, cells)
  OBVIOUS
<1>10. Undone(new, undo) = [updates |-> z, deletes |-> s.deletes, inserts |-> s.inserts]
  <2>1. undo.kind = "cell" /\ undo.row = r /\ undo.cells = cells
    OBVIOUS
  <2>2. Undone(new, undo) = [new EXCEPT !.updates = IF cells = Empty THEN Without(@, r) ELSE With(@, r, cells)]
    BY <2>1 DEF Undone
  <2> QED
    BY <2>2, <1>5, <1>9
<1>11. u = [y \in DOMAIN u |-> u[y]]
  BY <1>1 DEF Kept
<1>12. CASE r \in DOMAIN u
  <2>1. cells = u[r] /\ cells # Empty
    BY <1>1, <1>12 DEF Kept
  <2>2. z = [y \in DOMAIN w \cup {r} |-> IF y = r THEN cells ELSE w[y]]
    BY <1>9, <2>1 DEF With
  <2>3. DOMAIN w \cup {r} = DOMAIN u
    BY <1>6, <1>12
  <2>4. \A y \in DOMAIN u : (IF y = r THEN cells ELSE w[y]) = u[y]
    BY <1>6, <1>12, <2>1
  <2>5. z = u
    BY <2>2, <2>3, <2>4, <1>11
  <2> QED
    BY <1>1, <1>7, <1>8, <1>10, <2>5 DEF Kept
<1>13. CASE r \notin DOMAIN u
  <2>1. cells = Empty
    BY <1>1, <1>13
  <2>2. z = [y \in DOMAIN w \ {r} |-> w[y]]
    BY <1>9, <2>1 DEF Without
  <2>3. DOMAIN w \ {r} = DOMAIN u
    BY <1>6, <1>13
  <2>4. \A y \in DOMAIN u : w[y] = u[y]
    BY <1>6, <1>13
  <2>5. z = u
    BY <2>2, <2>3, <2>4, <1>11
  <2> QED
    BY <1>1, <1>7, <1>8, <1>10, <2>5 DEF Kept
<1> QED
  BY <1>7, <1>8, <1>12, <1>13

LEMMA NewBack ==
  ASSUME NEW s, Kept(s), NEW g, OnGrid(s, g), NEW i \in DOMAIN s.inserts, NEW x,
         NEW w, w = [s.inserts EXCEPT ![i] = x],
         NEW new, new = [updates |-> s.updates, deletes |-> s.deletes, inserts |-> w],
         NEW undo, undo = [kind |-> "new", at |-> i, cells |-> s.inserts[i]]
  PROVE  Kept(new) /\ OnGrid(new, g) /\ Undone(new, undo) = s
<1>1. PICK u : u = s.inserts
  OBVIOUS
<1>3. w = [u EXCEPT ![i] = x]
  BY <1>1
<1>4. new = [updates |-> s.updates, deletes |-> s.deletes, inserts |-> w]
  OBVIOUS
<1>5. Listed(u) /\ DOMAIN u = 1..Len(u) /\ u = [j \in 1..Len(u) |-> u[j]] /\ Len(u) \in Nat /\ i \in 1..Len(u)
  BY <1>1 DEF Kept, Listed
<1>6. w = [j \in 1..Len(u) |-> IF j = i THEN x ELSE u[j]]
  BY <1>3, <1>5
<1>7. Len(w) = Len(u)
  BY <1>5, <1>6
<1>8. Listed(w)
  BY <1>5, <1>6, <1>7 DEF Listed
<1>9. Kept(new)
  BY <1>4, <1>8 DEF Kept
<1>10. OnGrid(new, g)
  BY <1>4 DEF OnGrid
<1>11. [w EXCEPT ![i] = u[i]] = [j \in 1..Len(u) |-> IF j = i THEN u[i] ELSE w[j]]
  BY <1>6
<1>12. [w EXCEPT ![i] = u[i]] = [j \in 1..Len(u) |-> u[j]]
  BY <1>6, <1>11
<1>13. Undone(new, undo) = [updates |-> s.updates, deletes |-> s.deletes, inserts |-> [w EXCEPT ![i] = u[i]]]
  <2>1. undo.kind = "new" /\ undo.at = i /\ undo.cells = u[i]
    BY <1>1
  <2>2. Undone(new, undo) = [new EXCEPT !.inserts[i] = u[i]]
    BY <2>1 DEF Undone
  <2> QED
    BY <2>2, <1>4
<1> QED
  BY <1>1, <1>5, <1>9, <1>10, <1>12, <1>13 DEF Kept

LEMMA AddedBack ==
  ASSUME NEW s, Kept(s), NEW g, OnGrid(s, g), NEW cells,
         NEW new, new = [updates |-> s.updates, deletes |-> s.deletes, inserts |-> Append(s.inserts, cells)],
         NEW undo, undo = [kind |-> "added", at |-> Len(s.inserts) + 1]
  PROVE  Kept(new) /\ OnGrid(new, g) /\ Undone(new, undo) = s
<1>1. PICK u : u = s.inserts
  OBVIOUS
<1>2. PICK w : w = Append(u, cells)
  OBVIOUS
<1>3. new = [updates |-> s.updates, deletes |-> s.deletes, inserts |-> w]
  BY <1>1, <1>2 DEF Kept
<1>4. Listed(u)
  BY <1>1 DEF Kept
<1>5. Listed(w) /\ RemoveAt(w, Len(u) + 1) = u
  BY <1>2, <1>4, Added
<1>6. Kept(new) /\ OnGrid(new, g)
  <2>1. new.updates = s.updates /\ new.deletes = s.deletes /\ new.inserts = w
    BY <1>3
  <2>2. new = [updates |-> new.updates, deletes |-> new.deletes, inserts |-> new.inserts]
    BY <1>3
  <2>3. /\ new.updates = [r \in DOMAIN new.updates |-> new.updates[r]]
        /\ \A r \in DOMAIN new.updates : new.updates[r] # Empty
    BY <2>1 DEF Kept
  <2> QED
    BY <1>5, <2>1, <2>2, <2>3 DEF Kept, OnGrid
<1>7. Undone(new, undo) = [updates |-> s.updates, deletes |-> s.deletes, inserts |-> RemoveAt(w, Len(u) + 1)]
  <2>1. undo.kind = "added" /\ undo.at = Len(u) + 1
    BY <1>1
  <2>2. Undone(new, undo) = [new EXCEPT !.inserts = RemoveAt(@, Len(u) + 1)]
    BY <2>1 DEF Undone
  <2>3. PICK z : z = RemoveAt(w, Len(u) + 1)
    OBVIOUS
  <2>4. new.inserts = w
    BY <1>3
  <2>5. Undone(new, undo) = [new EXCEPT !.inserts = z]
    BY <2>2, <2>3, <2>4
  <2> QED
    BY <2>3, <2>5, <1>3
<1> QED
  BY <1>1, <1>5, <1>6, <1>7 DEF Kept

LEMMA ToggledBack ==
  ASSUME NEW s, Kept(s), NEW g, OnGrid(s, g),
         NEW rows \in SUBSET DOMAIN g, NEW added \in SUBSET DOMAIN s.inserts,
         NEW d, d \in {s.deletes \ rows, s.deletes \cup rows}, d \ rows = s.deletes \ rows,
         NEW from, from = Reverse(Sorted(added)), NEW w, w = TakenOut(s.inserts, from),
         NEW new, new = [updates |-> s.updates, deletes |-> d, inserts |-> w],
         NEW removed, removed = [k \in DOMAIN from |-> [at |-> from[k], row |-> s.inserts[from[k]]]],
         NEW undo, undo = [kind |-> "toggled", rows |-> rows, were |-> rows \cap s.deletes, removed |-> removed]
  PROVE  Kept(new) /\ OnGrid(new, g) /\ Undone(new, undo) = s
<1>1. PICK u : u = s.inserts
  OBVIOUS
<1>2. w = TakenOut(u, from)
  BY <1>1
<1>4. new = [updates |-> s.updates, deletes |-> d, inserts |-> w]
  OBVIOUS
<1>5. Listed(u) /\ DOMAIN u = 1..Len(u)
  BY <1>1 DEF Kept, Listed
<1>6. removed = [k \in DOMAIN from |-> [at |-> from[k], row |-> u[from[k]]]]
  BY <1>1
<1>7. Listed(w) /\ PutBack(w, Reverse(removed)) = u
  <2>1. added \in SUBSET (1..Len(u))
    BY <1>1, <1>5
  <2> QED
    BY <1>2, <1>5, <1>6, <2>1, PutBackTakenOut, SMTT(20)
<1>8. Kept(new)
  <2>1. new.updates = s.updates /\ new.deletes = d /\ new.inserts = w
    BY <1>4
  <2>2. new = [updates |-> new.updates, deletes |-> new.deletes, inserts |-> new.inserts]
    BY <1>4
  <2>3. /\ new.updates = [r \in DOMAIN new.updates |-> new.updates[r]]
        /\ \A r \in DOMAIN new.updates : new.updates[r] # Empty
    BY <2>1 DEF Kept
  <2> QED
    BY <1>7, <2>1, <2>2, <2>3 DEF Kept
<1>9. OnGrid(new, g)
  BY <1>4 DEF OnGrid
<1>10. (d \ rows) \cup (rows \cap s.deletes) = s.deletes
  OBVIOUS
<1>11. Undone(new, undo) = Back(new, undo)
  BY DEF Undone
<1>12. undo.rows = rows /\ undo.were = rows \cap s.deletes /\ undo.removed = removed
  OBVIOUS
<1>13. Back(new, undo) = [updates |-> s.updates, deletes |-> (d \ rows) \cup (rows \cap s.deletes),
                          inserts |-> PutBack(w, Reverse(removed))]
  <2>1. Back(new, undo) = [new EXCEPT !.deletes = (@ \ rows) \cup (rows \cap s.deletes),
                                      !.inserts = PutBack(@, Reverse(removed))]
    BY <1>12 DEF Back
  <2>2. PICK x, y : x = (d \ rows) \cup (rows \cap s.deletes) /\ y = PutBack(w, Reverse(removed))
    OBVIOUS
  <2>3. new.deletes = d /\ new.inserts = w
    BY <1>4
  <2>4. Back(new, undo) = [new EXCEPT !.deletes = x, !.inserts = y]
    BY <2>1, <2>2, <2>3
  <2>5. Back(new, undo) = [updates |-> s.updates, deletes |-> x, inserts |-> y]
    <3>1. PICK m : m = [new EXCEPT !.deletes = x]
      OBVIOUS
    <3>2. [new EXCEPT !.deletes = x, !.inserts = y] = [m EXCEPT !.inserts = y]
      BY <3>1, Zenon
    <3>3. m = [updates |-> s.updates, deletes |-> x, inserts |-> w]
      BY <1>4, <3>1
    <3>4. PICK z : z = [m EXCEPT !.inserts = y]
      OBVIOUS
    <3>5. z = [updates |-> s.updates, deletes |-> x, inserts |-> y]
      BY <3>3, <3>4
    <3> QED
      BY <2>4, <3>2, <3>4, <3>5, Zenon
  <2> QED
    BY <2>2, <2>5
<1> QED
  BY <1>1, <1>7, <1>8, <1>9, <1>10, <1>11, <1>13 DEF Kept

-----------------------------------------------------------------------------
(* The history *)

LEMMA ChangeRemembered ==
  ASSUME NEW h, NEW p, NEW s, NEW g, Undoable(h, p, s, g), NEW new, NEW undo,
         Kept(new), OnGrid(new, g), Undone(new, undo) = s
  PROVE  Undoable(Append(h, undo), Append(p, s), new, g) /\ Len(Append(h, undo)) = Len(h) + 1
<1>1. PICK a, b : a = Append(h, undo) /\ b = Append(p, s)
  OBVIOUS
<1>2. Listed(h) /\ Listed(p) /\ Len(p) = Len(h) /\ Len(h) \in Nat
  BY DEF Undoable, Listed
<1>3. /\ Listed(a) /\ Len(a) = Len(h) + 1 /\ a[Len(h) + 1] = undo
      /\ \A i \in 1..Len(h) : a[i] = h[i]
  BY <1>1, <1>2, Added
<1>4. /\ Listed(b) /\ Len(b) = Len(h) + 1 /\ b[Len(h) + 1] = s
      /\ \A i \in 1..Len(h) : b[i] = p[i]
  BY <1>1, <1>2, Added
<1>5. ASSUME NEW i \in 1..Len(a)
      PROVE  Kept(b[i]) /\ OnGrid(b[i], g) /\ Undone(IF i = Len(a) THEN new ELSE b[i + 1], a[i]) = b[i]
  <2>1. CASE i = Len(h) + 1
    <3>1. b[i] = s /\ a[i] = undo /\ (IF i = Len(a) THEN new ELSE b[i + 1]) = new
      BY <2>1, <1>3, <1>4
    <3> QED
      BY <3>1 DEF Undoable
  <2>2. CASE i # Len(h) + 1
    <3>1. i \in 1..Len(h) /\ i # Len(a)
      BY <2>2, <1>2, <1>3
    <3>2. b[i] = p[i] /\ a[i] = h[i]
      BY <3>1, <1>3, <1>4
    <3>3. b[i + 1] = IF i = Len(h) THEN s ELSE p[i + 1]
      <4>1. i # Len(h) => i + 1 \in 1..Len(h)
        BY <3>1, <1>2
      <4> QED
        BY <4>1, <1>4
    <3>4. Kept(p[i]) /\ OnGrid(p[i], g) /\ Undone(IF i = Len(h) THEN s ELSE p[i + 1], h[i]) = p[i]
      BY <3>1 DEF Undoable
    <3> QED
      BY <3>1, <3>2, <3>3, <3>4
  <2> QED
    BY <2>1, <2>2
<1>6. Len(a) # 0 /\ b[1] = Nothing
  <2>1. CASE Len(h) = 0
    BY <2>1, <1>3, <1>4 DEF Undoable
  <2>2. CASE Len(h) # 0
    <3>1. 1 \in 1..Len(h)
      BY <2>2, <1>2
    <3>2. p[1] = Nothing
      BY <2>2 DEF Undoable
    <3> QED
      BY <3>1, <3>2, <1>2, <1>3, <1>4
  <2> QED
    BY <2>1, <2>2
<1>7. Undoable(a, b, new, g)
  BY <1>3, <1>4, <1>5, <1>6 DEF Undoable
<1> QED
  BY <1>1, <1>3, <1>7

LEMMA LastUndone ==
  ASSUME NEW h, NEW p, NEW s, NEW g, Undoable(h, p, s, g), h # <<>>
  PROVE  Undoable(Front(h), Front(p), Undone(s, Last(h)), g) /\ Undone(s, Last(h)) = Last(p)
<1>1. PICK a, b : a = Front(h) /\ b = Front(p)
  OBVIOUS
<1>2. Listed(h) /\ Listed(p) /\ Len(p) = Len(h)
  BY DEF Undoable
<1>3. Len(h) \in Nat \ {0} /\ Listed(a) /\ Len(a) = Len(h) - 1 /\ \A i \in 1..(Len(h) - 1) : a[i] = h[i]
  BY <1>1, <1>2, TookLast
<1>4. p # <<>>
  BY <1>2, <1>3
<1>5. Listed(b) /\ Len(b) = Len(h) - 1 /\ \A i \in 1..(Len(h) - 1) : b[i] = p[i]
  BY <1>1, <1>2, <1>4, TookLast
<1>6. PICK t : t = Undone(s, Last(h))
  OBVIOUS
<1>7. t = p[Len(h)] /\ t = Last(p) /\ Len(h) \in 1..Len(h)
  <2>1. Len(h) \in 1..Len(h)
    BY <1>3
  <2>2. Undone(IF Len(h) = Len(h) THEN s ELSE p[Len(h) + 1], h[Len(h)]) = p[Len(h)]
    BY <2>1 DEF Undoable
  <2> QED
    BY <2>1, <2>2, <1>2, <1>6 DEF Last
<1>8. Kept(t) /\ OnGrid(t, g)
  BY <1>7 DEF Undoable
<1>9. ASSUME NEW i \in 1..Len(a)
      PROVE  Kept(b[i]) /\ OnGrid(b[i], g) /\ Undone(IF i = Len(a) THEN t ELSE b[i + 1], a[i]) = b[i]
  <2>1. i \in 1..Len(h) /\ i \in 1..(Len(h) - 1) /\ i # Len(h)
    BY <1>3
  <2>2. b[i] = p[i] /\ a[i] = h[i]
    BY <2>1, <1>3, <1>5
  <2>3. (IF i = Len(a) THEN t ELSE b[i + 1]) = p[i + 1]
    <3>1. CASE i = Len(a)
      <4>1. i + 1 = Len(h)
        BY <3>1, <1>3
      <4> QED
        BY <3>1, <4>1, <1>7
    <3>2. CASE i # Len(a)
      <4>1. i + 1 \in 1..(Len(h) - 1)
        BY <3>2, <1>3
      <4> QED
        BY <3>2, <4>1, <1>5
    <3> QED
      BY <3>1, <3>2
  <2>4. Kept(p[i]) /\ OnGrid(p[i], g) /\ Undone(IF i = Len(h) THEN s ELSE p[i + 1], h[i]) = p[i]
    BY <2>1 DEF Undoable
  <2> QED
    BY <2>1, <2>2, <2>3, <2>4
<1>10. p[1] = Nothing
  BY <1>3 DEF Undoable
<1>11. Len(a) = 0 => t = Nothing
  <2>1. Len(a) = 0 => Len(h) = 1
    BY <1>3
  <2> QED
    BY <2>1, <1>7, <1>10
<1>12. Len(a) # 0 => b[1] = Nothing
  BY <1>3, <1>5, <1>10
<1>13. Undoable(a, b, t, g)
  BY <1>3, <1>5, <1>8, <1>9, <1>11, <1>12 DEF Undoable
<1> QED
  BY <1>1, <1>6, <1>7, <1>13

LEMMA NothingStaged == \A g : Undoable(<<>>, <<>>, Nothing, g)
<1>1. Listed(<<>>) /\ Len(<<>>) = 0
  BY DEF Listed
<1>2. Nothing.updates = <<>> /\ Nothing.deletes = {} /\ Nothing.inserts = <<>>
  BY DEF Nothing
<1>3. DOMAIN <<>> = {} /\ <<>> = [r \in DOMAIN <<>> |-> <<>>[r]]
  OBVIOUS
<1>4. Kept(Nothing)
  BY <1>1, <1>2, <1>3 DEF Kept, Nothing
<1>5. \A g : OnGrid(Nothing, g)
  BY <1>2, <1>3 DEF OnGrid
<1> QED
  BY <1>1, <1>4, <1>5 DEF Undoable
-----------------------------------------------------------------------------
(* Every step *)

\* What a step does to what is staged: the invariant goes on, and a history that gets
\* shorter by one goes back to what was staged before its last change.
GoesOn == UndoInv' /\ (Len(history') = Len(history) - 1 => staged' = Last(past))

LEMMA ChangeGoesOn ==
  ASSUME UndoInv, review = NoReview, NEW new, NEW undo, Change(new, undo),
         Kept(new) /\ OnGrid(new, grid) /\ Undone(new, undo) = staged
  PROVE  GoesOn
<1>1. Undoable(history, past, staged, grid) /\ Len(history) \in Nat
  BY DEF UndoInv, Undoable, Listed
<1>2. /\ Undoable(Append(history, undo), Append(past, staged), new, grid)
      /\ Len(Append(history, undo)) = Len(history) + 1
  BY <1>1, ChangeRemembered
<1>3. /\ staged' = new /\ history' = Append(history, undo) /\ past' = Append(past, staged)
      /\ grid' = grid /\ review' = NoReview /\ shown' = shown
  BY DEF Change
<1>4. Undoable(history', past', staged', grid')
  BY <1>2, <1>3
<1>5. Reviewed(review', staged', shown', grid')
  BY <1>3 DEF Reviewed
<1> QED
  BY <1>1, <1>2, <1>3, <1>4, <1>5, UndoInvNext DEF GoesOn

LEMMA ResetGoesOn ==
  ASSUME UndoInv, Reset
  PROVE  GoesOn
<1>1. staged' = Nothing /\ history' = <<>> /\ past' = <<>> /\ review' = NoReview
  BY DEF Reset
<1>2. Undoable(history', past', staged', grid')
  BY <1>1, NothingStaged
<1>3. Reviewed(review', staged', shown', grid')
  BY <1>1 DEF Reviewed
<1>4. ASSUME Len(history') = Len(history) - 1 PROVE staged' = Last(past)
  <2>1. Len(history) \in Nat /\ Len(past) = Len(history) /\ (Len(history) # 0 => past[1] = Nothing)
    BY DEF UndoInv, Undoable, Listed
  <2>2. Len(history') = 0
    BY <1>1
  <2>3. Len(history) = 1
    BY <1>4, <2>1, <2>2
  <2> QED
    BY <1>1, <2>1, <2>3 DEF Last
<1> QED
  BY <1>2, <1>3, <1>4, UndoInvNext DEF GoesOn

LEMMA SameGoesOn ==
  ASSUME UndoInv, UNCHANGED <<staged, history, past, grid, shown>>, review' \in {review, NoReview}
  PROVE  GoesOn
<1>1. Undoable(history', past', staged', grid') /\ Len(history) \in Nat /\ Len(history') = Len(history)
  BY DEF UndoInv, Undoable, Listed
<1>2. Reviewed(review', staged', shown', grid')
  BY DEF UndoInv, Reviewed
<1> QED
  BY <1>1, <1>2, UndoInvNext DEF GoesOn

LEMMA Fields ==
  ASSUME UndoInv
  PROVE  /\ Kept(staged) /\ OnGrid(staged, grid)
         /\ staged = [updates |-> staged.updates, deletes |-> staged.deletes, inserts |-> staged.inserts]
BY DEF UndoInv, Undoable, Kept

LEMMA SetCellGoesOn ==
  ASSUME UndoInv, NEW r \in DOMAIN grid, NEW c, NEW value, SetCell(r, c, value)
  PROVE  GoesOn
<1>1. PICK cells : cells = IF r \in DOMAIN staged.updates THEN staged.updates[r] ELSE Empty
  OBVIOUS
<1>0. PICK x : x = With(cells, c, value)
  OBVIOUS
<1>2. PICK w : w = With(staged.updates, r, x)
  OBVIOUS
<1>3. PICK new : new = [staged EXCEPT !.updates = w]
  OBVIOUS
<1>4. PICK undo : undo = [kind |-> "cell", row |-> r, column |-> c, cells |-> cells]
  OBVIOUS
<1>5. Change(new, undo) /\ review = NoReview
  BY <1>0, <1>1, <1>2, <1>3, <1>4 DEF SetCell, Editing
<1>6. new = [updates |-> w, deletes |-> staged.deletes, inserts |-> staged.inserts]
  BY <1>3, Fields
<1>7. Kept(new) /\ OnGrid(new, grid) /\ Undone(new, undo) = staged
  <2>1. Kept(staged) /\ OnGrid(staged, grid)
    BY Fields
  <2> QED
    BY ONLY <1>0, <1>1, <1>2, <1>4, <1>6, <2>1, CellBack
<1> QED
  BY <1>5, <1>7, ChangeGoesOn

LEMMA SetNewGoesOn ==
  ASSUME UndoInv, NEW i \in DOMAIN staged.inserts, NEW c, NEW value, SetNew(i, c, value)
  PROVE  GoesOn
<1>1. PICK x : x = With(staged.inserts[i], c, value)
  OBVIOUS
<1>2. PICK new : new = [staged EXCEPT !.inserts[i] = x]
  OBVIOUS
<1>3. PICK undo : undo = [kind |-> "new", at |-> i, cells |-> staged.inserts[i]]
  OBVIOUS
<1>4. Change(new, undo) /\ review = NoReview
  BY <1>1, <1>2, <1>3 DEF SetNew, Editing
<1>0. PICK w : w = [staged.inserts EXCEPT ![i] = x]
  OBVIOUS
<1>5. new = [updates |-> staged.updates, deletes |-> staged.deletes, inserts |-> w]
  BY <1>0, <1>2, Fields
<1>6. Kept(new) /\ OnGrid(new, grid) /\ Undone(new, undo) = staged
  BY <1>0, <1>3, <1>5, Fields, NewBack
<1> QED
  BY <1>4, <1>6, ChangeGoesOn

LEMMA AddRowGoesOn ==
  ASSUME UndoInv, NEW cells, AddRow(cells)
  PROVE  GoesOn
<1>1. PICK x : x = Append(staged.inserts, cells)
  OBVIOUS
<1>2. PICK new : new = [staged EXCEPT !.inserts = x]
  OBVIOUS
<1>3. PICK undo : undo = [kind |-> "added", at |-> Len(staged.inserts) + 1]
  OBVIOUS
<1>4. Change(new, undo) /\ review = NoReview
  BY <1>1, <1>2, <1>3 DEF AddRow, Editing
<1>5. new = [updates |-> staged.updates, deletes |-> staged.deletes, inserts |-> x]
  BY <1>2, Fields
<1>6. Kept(new) /\ OnGrid(new, grid) /\ Undone(new, undo) = staged
  BY <1>1, <1>3, <1>5, Fields, AddedBack
<1> QED
  BY <1>4, <1>6, ChangeGoesOn

LEMMA ToggleGoesOn ==
  ASSUME UndoInv, NEW rows \in SUBSET DOMAIN grid, NEW added \in SUBSET DOMAIN staged.inserts,
         ToggleDelete(rows, added)
  PROVE  GoesOn
<1>1. PICK keep \in BOOLEAN : keep = (rows # {} /\ rows \subseteq staged.deletes)
  OBVIOUS
<1>2. PICK from : from = Reverse(Sorted(added))
  OBVIOUS
<1>3. PICK d : d = IF keep THEN staged.deletes \ rows ELSE staged.deletes \cup rows
  OBVIOUS
<1>4. PICK x : x = TakenOut(staged.inserts, from)
  OBVIOUS
<1>5. PICK removed, undo :
        /\ removed = [k \in DOMAIN from |-> [at |-> from[k], row |-> staged.inserts[from[k]]]]
        /\ undo = [kind |-> "toggled", rows |-> rows, were |-> rows \cap staged.deletes, removed |-> removed]
  OBVIOUS
<1>6. PICK new : new = [staged EXCEPT !.deletes = d, !.inserts = x]
  OBVIOUS
<1>7. Change(new, undo) /\ review = NoReview
  BY <1>1, <1>2, <1>3, <1>4, <1>5, <1>6 DEF ToggleDelete, Editing
<1>8. new = [updates |-> staged.updates, deletes |-> d, inserts |-> x]
  <2>1. PICK m : m = [staged EXCEPT !.deletes = d]
    OBVIOUS
  <2>2. [staged EXCEPT !.deletes = d, !.inserts = x] = [m EXCEPT !.inserts = x]
    BY <2>1, Zenon
  <2>3. m = [updates |-> staged.updates, deletes |-> d, inserts |-> staged.inserts]
    BY <2>1, Fields
  <2>4. PICK z : z = [m EXCEPT !.inserts = x]
    OBVIOUS
  <2>5. z = [updates |-> staged.updates, deletes |-> d, inserts |-> x]
    BY <2>3, <2>4
  <2> QED
    BY <1>6, <2>2, <2>4, <2>5, Zenon
<1>9. Kept(new) /\ OnGrid(new, grid) /\ Undone(new, undo) = staged
  <2>1. d \in {staged.deletes \ rows, staged.deletes \cup rows} /\ d \ rows = staged.deletes \ rows
    BY <1>3
  <2> QED
    BY <1>2, <1>4, <1>5, <1>8, <2>1, Fields, ToggledBack, SMTT(30)
<1> QED
  BY <1>7, <1>9, ChangeGoesOn

LEMMA UndoGoesOn ==
  ASSUME UndoInv, Undo
  PROVE  GoesOn
<1>1. Undoable(history, past, staged, grid) /\ history # <<>>
  BY DEF UndoInv, Undo
<1>2. /\ Undoable(Front(history), Front(past), Undone(staged, Last(history)), grid)
      /\ Undone(staged, Last(history)) = Last(past)
  BY <1>1, LastUndone
<1>3. /\ staged' = Undone(staged, Last(history)) /\ history' = Front(history) /\ past' = Front(past)
      /\ grid' = grid /\ review' = NoReview
  BY DEF Undo, shownVars
<1>4. Undoable(history', past', staged', grid')
  BY <1>2, <1>3
<1>5. Reviewed(review', staged', shown', grid')
  BY <1>3 DEF Reviewed
<1> QED
  BY <1>2, <1>3, <1>4, <1>5, UndoInvNext DEF GoesOn

LEMMA StepGoesOn ==
  ASSUME UndoInv, [Next]_vars
  PROVE  GoesOn
<1>1. ASSUME NEW r \in DOMAIN grid, NEW c \in 1..4, NEW value \in Values \cup {Null},
             SetCell(r, c, value) PROVE GoesOn
  BY <1>1, SetCellGoesOn
<1>2. ASSUME NEW i \in DOMAIN staged.inserts, NEW c \in 1..2, NEW value \in Values \cup {Null},
             SetNew(i, c, value) PROVE GoesOn
  BY <1>2, SetNewGoesOn
<1>3. ASSUME NEW cells, AddRow(cells) PROVE GoesOn
  BY <1>3, AddRowGoesOn
<1>4. ASSUME NEW rows \in SUBSET DOMAIN grid, NEW added \in SUBSET DOMAIN staged.inserts,
             ToggleDelete(rows, added) PROVE GoesOn
  BY <1>4, ToggleGoesOn
<1>5. CASE Undo
  BY <1>5, UndoGoesOn
<1>6. CASE Discard
  BY <1>6, ResetGoesOn DEF Discard
<1>7. CASE Review
  <2>1. /\ UNCHANGED <<staged, history, past, grid, shown>>
        /\ review'.changes = staged /\ review'.result = shown /\ review'.grid = grid
    BY <1>7 DEF Review, shownVars
  <2>2. Undoable(history', past', staged', grid') /\ Len(history) \in Nat /\ Len(history') = Len(history)
    BY <2>1 DEF UndoInv, Undoable, Listed
  <2>3. Reviewed(review', staged', shown', grid')
    BY <2>1 DEF Reviewed
  <2> QED
    BY <2>2, <2>3, UndoInvNext DEF GoesOn
<1>8. CASE Close
  BY <1>8, SameGoesOn DEF Close, shownVars
<1>9. CASE Confirm
  BY <1>9, SameGoesOn DEF Confirm, shownVars
<1>10. CASE Execute
  BY <1>10, SameGoesOn DEF Execute, shownVars, editVars
<1>11. CASE OnApplied
  <2>1. ASSUME Reset PROVE GoesOn
    BY <2>1, ResetGoesOn
  <2>2. ASSUME UNCHANGED <<editVars, shown, grid>> PROVE GoesOn
    BY <2>2, SameGoesOn DEF editVars
  <2> QED
    BY <1>11, <2>1, <2>2 DEF OnApplied
<1>12. CASE Redraw
  BY <1>12, ResetGoesOn DEF Redraw
<1>13. CASE Requery
  BY <1>13, ResetGoesOn DEF Requery
<1>14. ASSUME NEW table \in DOMAIN stored, NEW i \in 1..2, Foreign(table, i) PROVE GoesOn
  BY <1>14, SameGoesOn DEF Foreign, shownVars, editVars
<1>15. CASE UNCHANGED vars
  BY <1>15, SameGoesOn DEF vars, shownVars, editVars
<1> QED
  BY <1>1, <1>2, <1>3, <1>4, <1>5, <1>6, <1>7, <1>8, <1>9, <1>10, <1>11, <1>12, <1>13, <1>14, <1>15 DEF Next

\* The inductive invariant: whatever was staged, taken back and staged again, each change
\* that the history holds can be undone to exactly what was staged before it.
THEOREM UndoInvariant == Spec => []UndoInv
<1>1. Init => UndoInv
  BY NothingStaged DEF Init, UndoInv, Reviewed
<1>2. UndoInv /\ [Next]_vars => UndoInv'
  BY StepGoesOn DEF GoesOn
<1> QED
  BY <1>1, <1>2, PTL DEF Spec

\* A staged change names a row of the result on screen, and the review shows what is
\* staged, for any tables, any number of changes and any number of results.
THEOREM StagesWhatIsShown == Spec => []StagedOnShown
<1>1. UndoInv => StagedOnShown
  BY DEF UndoInv, Undoable, Reviewed, OnGrid, StagedOnShown
<1> QED
  BY <1>1, UndoInvariant, PTL

\* Undo gives back exactly what was staged before the last change.
THEOREM UndoIsExact == Spec => UndoRestores
<1>1. UndoInv /\ [Next]_vars => [Len(history') = Len(history) - 1 /\ done' = done => staged' = Last(past)]_vars
  BY StepGoesOn DEF GoesOn
<1> QED
  BY <1>1, UndoInvariant, PTL DEF Spec, UndoRestores

-----------------------------------------------------------------------------
(* Rows that were inserted *)

\* Rows of a table that are told apart by their key, and rows of a grid by their first cell.
Keyed(rows) == Listed(rows) /\ \A i, j \in 1..Len(rows) : rows[i].id = rows[j].id => i = j
Apart(rows) == Listed(rows) /\ \A i, j \in 1..Len(rows) : rows[i][1] = rows[j][1] => i = j

\* A database whose table with a key keeps it.
Whole(s) == s = [t |-> s.t, u |-> s.u, p |-> s.p, c |-> s.c, r |-> s.r] /\ Keyed(s.t)

\* Statements on the table with a key, deletes before inserts and inserts before updates.
InOrder(p) ==
  /\ Listed(p)
  /\ \A i \in 1..Len(p) : p[i].op \in {"delete", "insert", "update"} /\ p[i].table = "t"
  /\ \A i, j \in 1..Len(p) : i < j => /\ p[j].op = "insert" => p[i].op # "update"
                                      /\ p[j].op = "delete" => p[i].op = "delete"

\* What is at which place, each place once.
Taken(part, s, at, order) ==
  /\ \A k \in 1..Len(part) : order[k] \in at /\ part[k] = s[order[k]]
  /\ \A k, l \in 1..Len(part) : order[k] = order[l] => k = l

LEMMA PartIs == ASSUME NEW s, Listed(s), NEW at \in SUBSET (1..Len(s))
  PROVE /\ Listed(Part(s, at)) /\ Len(Part(s, at)) = Cardinality(at)
        /\ \E order : Taken(Part(s, at), s, at, order)
<1>0. Len(s) \in Nat
  BY DEF Listed
<1>1. /\ Cardinality(at) \in Nat
      /\ \A k \in 1..Cardinality(at) : Sorted(at)[k] \in at
      /\ \A k, l \in 1..Cardinality(at) : k < l => Sorted(at)[k] < Sorted(at)[l]
  BY <1>0, SortedIs
<1>2. PICK order : order = Sorted(at)
  OBVIOUS
<1>3. \A k \in 1..Cardinality(at) : order[k] \in at
  BY <1>1, <1>2
<1>4. ASSUME NEW k \in 1..Cardinality(at), NEW l \in 1..Cardinality(at), order[k] = order[l] PROVE k = l
  <2>1. order[k] \in 1..Len(s)
    BY <1>3
  <2>2. k < l => order[k] < order[l]
    BY <1>1, <1>2
  <2>3. l < k => order[l] < order[k]
    BY <1>1, <1>2
  <2> QED
    BY <1>0, <1>1, <1>4, <2>1, <2>2, <2>3
<1>5. Part(s, at) = [k \in 1..Cardinality(at) |-> s[order[k]]]
  BY <1>2 DEF Part
<1>6. PICK part : part = Part(s, at)
  OBVIOUS
<1>7. Listed(part) /\ Len(part) = Cardinality(at) /\ \A k \in 1..Cardinality(at) : part[k] = s[order[k]]
  BY <1>1, <1>5, <1>6 DEF Listed
<1>8. Taken(part, s, at, order)
  BY <1>3, <1>4, <1>7 DEF Taken
<1> QED
  BY <1>6, <1>7, <1>8

LEMMA KeyedPart == ASSUME NEW s, Keyed(s), NEW at \in SUBSET (1..Len(s)) PROVE Keyed(Part(s, at))
<1>0. Listed(s)
  BY DEF Keyed
<1>1. PICK part : part = Part(s, at)
  OBVIOUS
<1>2. Listed(part) /\ \E order : Taken(part, s, at, order)
  BY <1>0, <1>1, PartIs
<1>3. PICK order : Taken(part, s, at, order)
  BY <1>2
<1>4. ASSUME NEW k \in 1..Len(part), NEW l \in 1..Len(part), part[k].id = part[l].id PROVE k = l
  <2>1. order[k] \in 1..Len(s) /\ order[l] \in 1..Len(s) /\ part[k] = s[order[k]] /\ part[l] = s[order[l]]
    BY <1>3 DEF Taken
  <2>2. order[k] = order[l]
    BY <1>4, <2>1 DEF Keyed
  <2> QED
    BY <1>3, <2>2 DEF Taken
<1> QED
  BY <1>1, <1>2, <1>4 DEF Keyed

LEMMA ApartPart == ASSUME NEW s, Apart(s), NEW at \in SUBSET (1..Len(s)) PROVE Apart(Part(s, at))
<1>0. Listed(s)
  BY DEF Apart
<1>1. PICK part : part = Part(s, at)
  OBVIOUS
<1>2. Listed(part) /\ \E order : Taken(part, s, at, order)
  BY <1>0, <1>1, PartIs
<1>3. PICK order : Taken(part, s, at, order)
  BY <1>2
<1>4. ASSUME NEW k \in 1..Len(part), NEW l \in 1..Len(part), part[k][1] = part[l][1] PROVE k = l
  <2>1. order[k] \in 1..Len(s) /\ order[l] \in 1..Len(s) /\ part[k] = s[order[k]] /\ part[l] = s[order[l]]
    BY <1>3 DEF Taken
  <2>2. order[k] = order[l]
    BY <1>4, <2>1 DEF Apart
  <2> QED
    BY <1>3, <2>2 DEF Taken
<1> QED
  BY <1>1, <1>2, <1>4 DEF Apart

\* The table with a key is read whole, and its rows are found by it.
LEMMA TheTable ==
  Listed(Tables("table")) /\ Len(Tables("table")) = 1 /\ Tables("table")[1].key = {1} /\ Tables("table")[1].name = "t"
<1> DEFINE id == [table |-> "t", side |-> "only", name |-> "id"]
           v == [table |-> "t", side |-> "only", name |-> "v"]
           x == <<"t", "only">>
<1>1. Bound("table") = <<id, v>>
  BY DEF Bound
<1>2. Tables("table") = Build(<<id, v>>, FALSE)
  BY <1>1 DEF Tables, TablesOf, SqlReads
<1>3. Cardinality({1}) = 1 /\ Cardinality({}) = 0
  BY FS_Singleton, FS_EmptySet
<1>4. Sorted({1})[1] = 1
  <2>1. {y \in {1} : y < 1} = {}
    OBVIOUS
  <2> DEFINE nth(k) == CHOOSE z \in {1} : Cardinality({y \in {1} : y < z}) = k - 1
  <2>2. nth(1) = 1
    BY <1>3, <2>1
  <2>3. Sorted({1}) = [k \in 1..1 |-> nth(k)]
    BY <1>3 DEF Sorted
  <2> HIDE DEF nth
  <2> QED
    BY <2>2, <2>3
<1> DEFINE bound == <<id, v>>
           reads == {<<b.table, b.side>> : b \in {c \in Range(bound) : c.side # "unknown"}}
           known == {y \in reads : \A b \in Range(bound) : b.table = y[1] => b.side # "unknown"}
           at(y) == {i \in DOMAIN bound : <<bound[i].table, bound[i].side>> = y}
           names(y) == {bound[i].name : i \in at(y)}
           keys(y) == CatalogKeys(y[1])
           whole(y) == Part(keys(y), {k \in DOMAIN keys(y) : keys(y)[k] \subseteq names(y)})
           key(y) == IF whole(y) # <<>> THEN {i \in at(y) : bound[i].name \in whole(y)[1]} ELSE at(y)
           located == {y \in known : /\ Cardinality(names(y)) = Cardinality(at(y))
                                     /\ whole(y) # <<>> \/ FALSE}
           first(y) == CHOOSE i \in at(y) : \A j \in at(y) : i <= j
<1>5. Range(bound) = {id, v} /\ DOMAIN bound = {1, 2}
  BY DEF Range
<1>6. known = {x}
  BY <1>5
<1>7. at(x) = {1, 2} /\ names(x) = {"id", "v"}
  BY <1>5
<1>8. whole(x) # <<>> /\ whole(x)[1] = {"id"}
  <2>1. keys(x) = <<{"id"}>> /\ {k \in DOMAIN keys(x) : keys(x)[k] \subseteq names(x)} = {1}
    BY <1>7 DEF CatalogKeys
  <2>2. whole(x) = [k \in 1..1 |-> <<{"id"}>>[Sorted({1})[k]]]
    BY <1>3, <2>1 DEF Part
  <2>3. PICK w : w = whole(x)
    OBVIOUS
  <2>4. DOMAIN w = 1..1 /\ 1 \in 1..1 /\ w[1] = <<{"id"}>>[Sorted({1})[1]]
    BY <2>2, <2>3
  <2>5. w[1] = {"id"}
    BY <1>4, <2>4
  <2>6. w # <<>>
    <3>1. 1 \in DOMAIN w /\ 1 \notin DOMAIN <<>>
      BY <2>4
    <3> QED
      BY <3>1
  <2> QED
    BY <2>3, <2>5, <2>6
<1>9. key(x) = {1}
  <2>1. key(x) = {i \in {1, 2} : bound[i].name \in {"id"}}
    BY <1>7, <1>8
  <2>2. bound[1].name = "id" /\ bound[2].name = "v"
    OBVIOUS
  <2> QED
    BY <2>1, <2>2
<1>10. located = {x}
  <2>1. Cardinality({1, 2}) = 2
    <3>1. Cardinality({1}) = 1 /\ IsFiniteSet({1})
      BY FS_Singleton
    <3>2. {1, 2} = {1} \cup {2} /\ 2 \notin {1}
      OBVIOUS
    <3> QED
      BY <3>1, <3>2, FS_AddElement
  <2>2. Cardinality({"id", "v"}) = 2
    <3>1. Cardinality({"id"}) = 1 /\ IsFiniteSet({"id"})
      BY FS_Singleton
    <3>2. {"id", "v"} = {"id"} \cup {"v"} /\ "v" \notin {"id"}
      OBVIOUS
    <3> QED
      BY <3>1, <3>2, FS_AddElement
  <2>3. Cardinality(names(x)) = Cardinality(at(x))
    BY <1>7, <2>1, <2>2
  <2> HIDE DEF known, names, at, whole
  <2> QED
    BY <1>6, <1>8, <2>3
<1>11. {z \in located : first(z) < first(x)} = {} /\ Cardinality(located) = 1
  <2>1. first(x) \in {1, 2}
    BY <1>7
  <2> HIDE DEF located, first
  <2>2. ~(first(x) < first(x))
    BY <2>1
  <2> QED
    BY <1>10, <2>2, FS_Singleton
<1>12. (CHOOSE y \in located : Cardinality({z \in located : first(z) < first(y)}) = 0) = x
  <2> HIDE DEF located, first
  <2> QED
    BY <1>3, <1>10, <1>11
<1> DEFINE table(y) == [name |-> y[1], key |-> key(y), columns |-> [i \in at(y) |-> bound[i].name]]
<1>13. Build(<<id, v>>, FALSE) = [n \in 1..Cardinality(located) |->
          table(CHOOSE y \in located : Cardinality({z \in located : first(z) < first(y)}) = n - 1)]
  BY DEF Build
<1>14. Listed(Tables("table")) /\ Len(Tables("table")) = 1 /\ Tables("table")[1] = table(x)
  <2> DEFINE nth(n) == CHOOSE y \in located : Cardinality({z \in located : first(z) < first(y)}) = n - 1
  <2>1. nth(1) = x
    <3> HIDE DEF located, first
    <3> QED
      BY <1>12
  <2>2. Tables("table") = [n \in 1..1 |-> table(nth(n))]
    <3> HIDE DEF located, first, table
    <3> QED
      BY <1>2, <1>11, <1>13
  <2> HIDE DEF nth, table
  <2>3. PICK ts : ts = Tables("table")
    OBVIOUS
  <2>4. Listed(ts) /\ Len(ts) = 1 /\ ts[1] = table(x)
    BY <2>1, <2>2, <2>3 DEF Listed
  <2> QED
    BY <2>3, <2>4
<1>15. table(x).key = {1} /\ table(x).name = "t"
  <2> HIDE DEF key, at
  <2> QED
    BY <1>9
<1> HIDE DEF table
<1> QED
  BY <1>14, <1>15

-----------------------------------------------------------------------------
(* What one transaction returns *)

LEMMA Transacting == ASSUME NEW store, NEW p, Len(p) \in Nat
  PROVE \E f : /\ f[0] = [ok |-> TRUE, stored |-> store, returned |-> <<>>]
               /\ Transact(store, p) = f[Len(p)]
               /\ \A k \in 1..Len(p) : f[k] \in {[ok |-> FALSE, stored |-> store, returned |-> <<>>]}
                                       \/ (f[k] = Made(f[k-1], p[k]) /\ ~Fails(f[k-1].stored, p[k]))
<1> DEFINE Nothing_ == [ok |-> FALSE, stored |-> store, returned |-> <<>>]
           First == [ok |-> TRUE, stored |-> store, returned |-> <<>>]
           Step(at, s) == IF ~at.ok \/ Fails(at.stored, s) THEN Nothing_ ELSE Made(at, s)
           Def(f, m) == f = [n \in 0..m |-> IF n = 0 THEN First ELSE Step(f[n-1], p[n])]
           S == {m \in Nat : \E f : Def(f, m)}
<1>0. Transact(store, p) = (CHOOSE g : Def(g, Len(p)))[Len(p)]
  BY DEF Transact, InTurn
<1>9. ASSUME NEW at, NEW s PROVE Step(at, s) = Nothing_ \/ (Step(at, s) = Made(at, s) /\ ~Fails(at.stored, s))
  BY Zenon
<1> HIDE DEF Step, First, Nothing_
<1>1. 0 \in S
  <2> DEFINE g == [n \in {0} |-> First]
  <2>1. Def(g, 0)
    OBVIOUS
  <2> QED
    BY <2>1
<1>2. ASSUME NEW k \in 0..(Len(p) - 1), k \in S PROVE k + 1 \in S
  <2>1. PICK f : Def(f, k)
    BY <1>2
  <2> DEFINE g == [n \in 0..(k + 1) |-> IF n = k + 1 THEN Step(f[k], p[k + 1]) ELSE f[n]]
  <2>2. Def(g, k + 1) /\ k + 1 \in Nat
    BY <2>1
  <2> HIDE DEF Def, g
  <2> QED
    BY <2>2
<1>3. \E f : Def(f, Len(p))
  <2>0. \A k \in 0..(Len(p) - 1) : k \in S => k + 1 \in S
    BY <1>2
  <2> HIDE DEF S
  <2>1. Len(p) \in S
    BY <1>1, <2>0, Steps
  <2> QED
    BY <2>1 DEF S
<1>4. PICK f : f = (CHOOSE g : Def(g, Len(p)))
  OBVIOUS
<1>5. Def(f, Len(p))
  BY <1>3, <1>4
<1>6. Transact(store, p) = f[Len(p)]
  BY <1>0, <1>4
<1>7. f[0] = First
  BY <1>5
<1>8. ASSUME NEW k \in 1..Len(p)
      PROVE f[k] \in {Nothing_} \/ (f[k] = Made(f[k-1], p[k]) /\ ~Fails(f[k-1].stored, p[k]))
  <2>1. k \in 0..Len(p) /\ k # 0
    OBVIOUS
  <2>2. f[k] = Step(f[k-1], p[k])
    BY <1>5, <2>1
  <2> QED
    BY <1>9, <2>2
<1> HIDE DEF Def
<1> USE DEF First, Nothing_
<1> QED
  BY <1>6, <1>7, <1>8

LEMMA RowsKeyed == ASSUME NEW store, Whole(store), NEW s, s.table = "t", s.op \in {"delete", "insert", "update"},
                          ~Fails(store, s)
  PROVE Keyed(Rows(store, s)) /\ (s.op = "insert" => \E row : Rows(store, s) = Append(store.t, row))
<1> DEFINE rows == store.t
<1>1. Keyed(rows) /\ Listed(rows) /\ store["t"] = rows
  BY DEF Whole, Keyed
<1>2. DOMAIN rows = 1..Len(rows) /\ Len(rows) \in Nat
  BY <1>1 DEF Listed
<1>3. Sound("t", Rows(store, s))
  BY DEF Fails
<1>4. ASSUME NEW new, Listed(new), new = Rows(store, s) PROVE Keyed(new)
  <2>1. \A i, j \in DOMAIN new : i # j => new[i].id # new[j].id
    BY <1>3, <1>4 DEF Sound, HasKey
  <2>2. DOMAIN new = 1..Len(new)
    BY <1>4 DEF Listed
  <2> QED
    BY <1>4, <2>1, <2>2 DEF Keyed
<1>5. CASE s.op = "delete"
  <2> DEFINE places == DOMAIN rows \ Matched(rows, s.where)
  <2>1. Rows(store, s) = Part(rows, places)
    BY <1>5 DEF Rows
  <2>2. places \in SUBSET (1..Len(rows))
    BY <1>2
  <2> HIDE DEF places, rows
  <2> QED
    BY <1>1, <1>5, <2>1, <2>2, KeyedPart
<1>6. CASE s.op = "insert"
  <2>1. PICK row : row = Stored(rows, "t", s.row)
    OBVIOUS
  <2>2. Rows(store, s) = Append(rows, row)
    BY <1>6, <2>1 DEF Rows
  <2> HIDE DEF rows
  <2>3. Listed(Append(rows, row))
    BY <1>1, Added
  <2> QED
    BY <1>4, <2>2, <2>3 DEF rows
<1>7. CASE s.op = "update"
  <2> DEFINE matched == Matched(rows, s.where)
             changed == [i \in DOMAIN rows |->
                           IF i \notin matched THEN rows[i]
                           ELSE [n \in {"id", "v"} |-> IF n \in DOMAIN s.set THEN s.set[n] ELSE rows[i][n]]]
  <2>1. Rows(store, s) = changed
    BY <1>7 DEF Rows
  <2>2. Listed(changed)
    BY <1>2 DEF Listed
  <2> HIDE DEF changed
  <2> QED
    BY <1>4, <1>7, <2>1, <2>2
<1> QED
  BY <1>5, <1>6, <1>7

\* What is so after n of the statements p: what was returned is of one key each, and is
\* still there as long as nothing is updated.
AtStep(at, n, p) ==
  /\ Whole(at.stored) /\ Keyed(at.returned)
  /\ (\A j \in 1..n : p[j].op = "delete") => at.returned = <<>>
  /\ (\A j \in 1..n : p[j].op # "update") =>
       \A i \in 1..Len(at.returned) : \E k \in 1..Len(at.stored.t) : at.stored.t[k].id = at.returned[i].id

LEMMA NothingReturned == ASSUME NEW store, Whole(store), NEW ok, NEW n, NEW p
  PROVE AtStep([ok |-> ok, stored |-> store, returned |-> <<>>], n, p)
<1>1. Keyed(<<>>)
  BY DEF Keyed, Listed
<1> QED
  BY <1>1 DEF AtStep

LEMMA MadeKeeps == ASSUME NEW p, InOrder(p), NEW n \in 1..Len(p), NEW at, AtStep(at, n - 1, p),
                          ~Fails(at.stored, p[n])
  PROVE AtStep(Made(at, p[n]), n, p)
<1> DEFINE s == p[n]
           store == at.stored
           rows == Rows(store, s)
           after == Made(at, s)
<1>0. Len(p) \in Nat /\ n \in Nat
  BY DEF InOrder, Listed
<1>1. s.table = "t" /\ s.op \in {"delete", "insert", "update"} /\ Whole(store) /\ Keyed(at.returned)
  BY DEF InOrder, AtStep
<1>2. Keyed(rows) /\ (s.op = "insert" => \E row : rows = Append(store.t, row))
  BY <1>1, RowsKeyed
<1>3. after.stored = [store EXCEPT !["t"] = rows]
  BY <1>1 DEF Made
<1>4. /\ s.op = "insert" => after.returned = Append(at.returned, Last(rows))
      /\ s.op # "insert" => after.returned = at.returned
  BY DEF Made
<1> HIDE DEF after, rows, store, s
<1>5. Whole(after.stored) /\ after.stored.t = rows
  BY <1>1, <1>2, <1>3 DEF Whole
<1>6. \A j \in 1..(n - 1) : j \in 1..Len(p) /\ j < n /\ j \in 1..n
  BY <1>0
<1>7. CASE s.op = "delete"
  <2>1. \A j \in 1..(n - 1) : p[j].op = "delete"
    BY <1>6, <1>7 DEF InOrder, s
  <2>2. at.returned = <<>>
    BY <2>1 DEF AtStep
  <2>3. after.returned = <<>> /\ Keyed(<<>>)
    BY <1>1, <1>4, <1>7, <2>2
  <2> QED
    BY <1>5, <2>3 DEF AtStep, after, s
<1>8. CASE s.op = "insert"
  <2>1. \A j \in 1..(n - 1) : p[j].op # "update"
    BY <1>6, <1>8 DEF InOrder, s
  <2>2. \A i \in 1..Len(at.returned) : \E k \in 1..Len(store.t) : store.t[k].id = at.returned[i].id
    BY <2>1 DEF AtStep, store
  <2>3. PICK row : rows = Append(store.t, row)
    BY <1>2, <1>8
  <2>4. PICK old : old = store.t
    OBVIOUS
  <2>5. PICK given : given = at.returned
    OBVIOUS
  <2>6. Listed(old) /\ Listed(given) /\ Keyed(given)
    BY <1>1, <2>4, <2>5 DEF Whole, Keyed
  <2>7. /\ Len(rows) = Len(old) + 1 /\ rows[Len(old) + 1] = row /\ Last(rows) = row
        /\ \A k \in 1..Len(old) : rows[k] = old[k]
    BY <2>3, <2>4, <2>6, Added
  <2>8. PICK more : more = Append(given, row)
    OBVIOUS
  <2>9. /\ Listed(more) /\ Len(more) = Len(given) + 1 /\ more[Len(given) + 1] = row
        /\ \A i \in 1..Len(given) : more[i] = given[i]
    BY <2>6, <2>8, Added
  <2>10. after.returned = more
    BY <1>4, <1>8, <2>5, <2>7, <2>8
  <2>11. Len(old) \in Nat /\ Len(given) \in Nat
    BY <2>6 DEF Listed
  <2>12. \A i \in 1..Len(more) : IF i = Len(given) + 1 THEN more[i] = row ELSE i \in 1..Len(given) /\ more[i] = given[i]
    BY <2>9, <2>11
  <2>13. \A i \in 1..Len(given) : \E k \in 1..Len(old) : rows[k].id = given[i].id
    <3>1. \A i \in 1..Len(given) : \E k \in 1..Len(old) : old[k].id = given[i].id
      BY <2>2, <2>4, <2>5
    <3> QED
      BY <2>7, <3>1
  <2>14. \A i \in 1..Len(given) : given[i].id # row.id
    <3>1. \A k \in 1..Len(old) : k \in 1..Len(rows) /\ Len(old) + 1 \in 1..Len(rows) /\ k # Len(old) + 1
      BY <2>7, <2>11
    <3>2. \A k \in 1..Len(old) : rows[k].id # row.id
      BY <1>2, <2>7, <3>1 DEF Keyed
    <3> QED
      BY <2>13, <3>2
  <2>15. Keyed(more)
    BY <2>6, <2>9, <2>12, <2>14 DEF Keyed
  <2>16. \A i \in 1..Len(more) : \E k \in 1..Len(rows) : rows[k].id = more[i].id
    <3>1. \A k \in 1..Len(old) : k \in 1..Len(rows)
      BY <2>7, <2>11
    <3>2. Len(old) + 1 \in 1..Len(rows)
      BY <2>7, <2>11
    <3> QED
      BY <2>7, <2>12, <2>13, <3>1, <3>2
  <2>17. n \in 1..n /\ p[n].op # "delete"
    BY <1>0, <1>8 DEF s
  <2> QED
    BY <1>5, <2>10, <2>15, <2>16, <2>17 DEF AtStep, after, s
<1>9. CASE s.op = "update"
  <2>1. n \in 1..n /\ p[n].op = "update"
    BY <1>0, <1>9 DEF s
  <2>2. after.returned = at.returned
    BY <1>4, <1>9
  <2>3. (\A j \in 1..n : p[j].op = "delete") => after.returned = <<>>
    BY <2>1
  <2> QED
    BY <1>1, <1>5, <2>1, <2>2, <2>3 DEF AtStep, after, s
<1> QED
  BY <1>1, <1>7, <1>8, <1>9

\* The database keeps its key, and the rows an apply returns are of one key each.
LEMMA TransactKeeps == ASSUME NEW store, Whole(store), NEW p, InOrder(p)
  PROVE Whole(Transact(store, p).stored) /\ Keyed(Transact(store, p).returned)
<1>0. Len(p) \in Nat
  BY DEF InOrder, Listed
<1>1. PICK f : /\ f[0] = [ok |-> TRUE, stored |-> store, returned |-> <<>>]
               /\ Transact(store, p) = f[Len(p)]
               /\ \A k \in 1..Len(p) : f[k] \in {[ok |-> FALSE, stored |-> store, returned |-> <<>>]}
                                       \/ (f[k] = Made(f[k-1], p[k]) /\ ~Fails(f[k-1].stored, p[k]))
  BY <1>0, Transacting
<1> DEFINE S == {n \in 0..Len(p) : AtStep(f[n], n, p)}
<1>2. 0 \in S
  BY <1>0, <1>1, NothingReturned
<1>3. ASSUME NEW k \in 0..(Len(p) - 1), k \in S PROVE k + 1 \in S
  <2>1. k + 1 \in 1..Len(p) /\ (k + 1) - 1 = k
    BY <1>0
  <2>2. CASE f[k + 1] = [ok |-> FALSE, stored |-> store, returned |-> <<>>]
    BY <2>1, <2>2, NothingReturned
  <2>3. CASE f[k + 1] = Made(f[k], p[k + 1]) /\ ~Fails(f[k].stored, p[k + 1])
    <3>1. AtStep(f[k], (k + 1) - 1, p)
      BY <1>3, <2>1
    <3>2. AtStep(Made(f[k], p[k + 1]), k + 1, p)
      BY <2>1, <2>3, <3>1, MadeKeeps
    <3> QED
      BY <2>1, <2>3, <3>2
  <2> QED
    BY <1>1, <2>1, <2>2, <2>3
<1>4. Len(p) \in S
  <2>1. \A k \in 0..(Len(p) - 1) : k \in S => k + 1 \in S
    BY <1>3
  <2> HIDE DEF S
  <2> QED
    BY <1>0, <1>2, <2>1, Steps
<1> QED
  BY <1>1, <1>4 DEF AtStep

-----------------------------------------------------------------------------
(* Sequences joined *)

LEMMA ListedIs == ASSUME NEW s, Listed(s)
  PROVE  Len(s) \in Nat /\ DOMAIN s = 1..Len(s) /\ s \in Seq({s[i] : i \in 1..Len(s)})
BY DEF Listed

Join(s, t, r) ==
  /\ Listed(r) /\ Len(r) = Len(s) + Len(t)
  /\ \A i \in 1..Len(s) : r[i] = s[i]
  /\ \A i \in 1..Len(t) : r[Len(s) + i] = t[i]

LEMMA Joined == ASSUME NEW s, NEW t, Listed(s), Listed(t) PROVE Join(s, t, s \o t)
<1> DEFINE S == {s[i] : i \in 1..Len(s)} \cup {t[i] : i \in 1..Len(t)}
<1>1. s \in Seq(S) /\ t \in Seq(S)
  BY DEF Listed
<1> HIDE DEF S
<1>2. /\ s \o t \in Seq(S) /\ Len(s \o t) = Len(s) + Len(t)
      /\ \A i \in 1..Len(s) : (s \o t)[i] = s[i]
      /\ \A i \in 1..Len(t) : (s \o t)[Len(s) + i] = t[i]
  BY <1>1
<1> QED
  BY <1>2, ListedOf DEF Join

LEMMA Mapped == ASSUME NEW n \in Nat, NEW s, s = [i \in 1..n |-> s[i]] PROVE Listed(s) /\ Len(s) = n
<1>1. s \in Seq({s[i] : i \in 1..n}) /\ Len(s) = n
  OBVIOUS
<1> QED
  BY <1>1, ListedOf

\* What is joined so far: every element of the first k pieces, each at its offset.
SoFar(s, off, f, k) ==
  /\ Listed(f) /\ Len(f) = off[k]
  /\ \A i \in 1..k : \A j \in 1..Len(s[i]) : off[i - 1] + j \in 1..Len(f) /\ f[off[i - 1] + j] = s[i][j]
  /\ \A p \in 1..Len(f) : \E i \in 1..k : \E j \in 1..Len(s[i]) : p = off[i - 1] + j

LEMMA Further ==
  ASSUME NEW s, NEW off, NEW f, NEW k \in Nat, SoFar(s, off, f, k), Listed(s[k + 1]), off[k] \in Nat,
         off[k + 1] = off[k] + Len(s[k + 1])
  PROVE  SoFar(s, off, f \o s[k + 1], k + 1)
<1>1. PICK g : g = f \o s[k + 1]
  OBVIOUS
<1>2. PICK t : t = s[k + 1]
  OBVIOUS
<1>3. Listed(f) /\ Len(f) = off[k] /\ Listed(t)
  BY <1>2 DEF SoFar
<1>4. /\ Listed(g) /\ Len(g) = Len(f) + Len(t)
      /\ \A i \in 1..Len(f) : g[i] = f[i]
      /\ \A i \in 1..Len(t) : g[Len(f) + i] = t[i]
  <2>1. Join(f, t, f \o t)
    BY <1>3, Joined
  <2>2. g = f \o t
    BY <1>1, <1>2
  <2> QED
    BY <2>1, <2>2 DEF Join
<1>5. Len(f) \in Nat /\ Len(t) \in Nat
  BY <1>3, ListedIs
<1>6. ASSUME NEW i \in 1..(k + 1), NEW j \in 1..Len(s[i])
      PROVE off[i - 1] + j \in 1..Len(g) /\ g[off[i - 1] + j] = s[i][j]
  <2>1. CASE i = k + 1
    <3>1. j \in 1..Len(t) /\ off[i - 1] = Len(f)
      BY <2>1, <1>2, <1>3
    <3> QED
      BY <1>2, <1>4, <1>5, <2>1, <3>1
  <2>2. CASE i # k + 1
    <3>1. i \in 1..k
      BY <2>2
    <3>2. off[i - 1] + j \in 1..Len(f) /\ f[off[i - 1] + j] = s[i][j]
      BY <3>1 DEF SoFar
    <3> QED
      BY <3>2, <1>4, <1>5
  <2> QED
    BY <2>1, <2>2
<1>7. ASSUME NEW p \in 1..Len(g) PROVE \E i \in 1..(k + 1) : \E j \in 1..Len(s[i]) : p = off[i - 1] + j
  <2>1. CASE p \in 1..Len(f)
    <3>1. PICK i \in 1..k : \E j \in 1..Len(s[i]) : p = off[i - 1] + j
      BY <2>1 DEF SoFar
    <3> QED
      BY <3>1
  <2>2. CASE p \notin 1..Len(f)
    <3>1. p - Len(f) \in 1..Len(t)
      BY <1>4, <1>5, <2>2
    <3>2. p - Len(f) \in 1..Len(s[k + 1]) /\ off[(k + 1) - 1] = Len(f)
      BY <3>1, <1>2, <1>3
    <3>3. p = off[(k + 1) - 1] + (p - Len(f)) /\ k + 1 \in 1..(k + 1)
      BY <3>2, <1>5
    <3> QED
      BY <3>2, <3>3, Zenon
  <2> QED
    BY <2>1, <2>2
<1>8. Len(g) = off[k + 1]
  BY <1>2, <1>3, <1>4
<1> QED
  BY <1>1, <1>4, <1>6, <1>7, <1>8 DEF SoFar

LEMMA Flat ==
  ASSUME NEW s, Listed(s), \A i \in 1..Len(s) : Listed(s[i])
  PROVE  \E off : /\ off[0] = 0
                  /\ \A i \in 0..Len(s) : off[i] \in Nat
                  /\ \A i \in 1..Len(s) : off[i] = off[i - 1] + Len(s[i])
                  /\ SoFar(s, off, FlattenSeq(s), Len(s))
<1> DEFINE Sum(f, m) == f = [i \in 0..m |-> IF i = 0 THEN 0 ELSE f[i - 1] + Len(s[i])]
           N == Len(s)
<1>0. N \in Nat
  BY ListedIs
<1>1. \E f : Sum(f, N)
  <2> DEFINE S == {m \in Nat : m <= N => \E f : Sum(f, m)}
  <2>1. 0 \in S
    <3> DEFINE g == [i \in 0..0 |-> 0]
    <3>1. Sum(g, 0)
      OBVIOUS
    <3> QED
      BY <3>1
  <2>2. ASSUME NEW k \in 0..(N - 1), k \in S PROVE k + 1 \in S
    <3>1. PICK f : Sum(f, k)
      BY <2>2, <1>0
    <3> DEFINE g == [i \in 0..(k + 1) |-> IF i = k + 1 THEN f[k] + Len(s[k + 1]) ELSE f[i]]
    <3>2. Sum(g, k + 1) /\ k + 1 \in Nat
      BY <3>1
    <3> HIDE DEF Sum, g
    <3> QED
      BY <3>2
  <2>3. \A k \in 0..(N - 1) : k \in S => k + 1 \in S
    BY <2>2
  <2> HIDE DEF S
  <2>4. N \in S
    BY <1>0, <2>1, <2>3, Steps
  <2> QED
    BY <2>4 DEF S
<1>2. PICK off : Sum(off, N)
  BY <1>1
<1>3. off[0] = 0 /\ \A i \in 1..N : off[i] = off[i - 1] + Len(s[i])
  <2>1. 0 \in 0..N /\ \A i \in 1..N : i \in 0..N /\ i # 0
    BY <1>0
  <2> QED
    BY <1>2, <2>1
<1>4. \A i \in 0..N : off[i] \in Nat
  <2> DEFINE S == {m \in 0..N : off[m] \in Nat}
  <2>1. 0 \in S
    BY <1>0, <1>3
  <2>2. ASSUME NEW k \in 0..(N - 1), k \in S PROVE k + 1 \in S
    <3>1. k + 1 \in 1..N /\ off[k + 1] = off[k] + Len(s[k + 1])
      BY <1>0, <1>3
    <3>2. Len(s[k + 1]) \in Nat
      BY <3>1, ListedIs
    <3> QED
      BY <1>0, <2>2, <3>1, <3>2
  <2>3. \A k \in 0..(N - 1) : k \in S => k + 1 \in S
    BY <2>2
  <2> HIDE DEF S
  <2>4. 0..N \subseteq S
    BY <1>0, <2>1, <2>3, Steps
  <2> QED
    BY <2>4 DEF S
<1>5. CASE N = 0
  <2>1. FlattenSeq(s) = s
    BY <1>5 DEF FlattenSeq
  <2>2. SoFar(s, off, s, N)
    BY <1>3, <1>5, <2>1 DEF SoFar
  <2> QED
    BY <1>3, <1>4, <2>1, <2>2
<1>6. CASE N # 0
  <2> DEFINE Def(f, m) == f = [i \in 1..m |-> IF i = 1 THEN s[i] ELSE f[i - 1] \o s[i]]
             S == {m \in Nat : m # 0 => \E f : Def(f, m)}
  <2>1. 0 \in S
    OBVIOUS
  <2>2. ASSUME NEW k \in 0..(N - 1), k \in S PROVE k + 1 \in S
    <3>1. CASE k = 0
      <4> DEFINE g == [i \in 1..1 |-> s[1]]
      <4>1. Def(g, 1)
        OBVIOUS
      <4>2. 1 \in Nat /\ k + 1 = 1
        BY <3>1
      <4> HIDE DEF Def, g
      <4> QED
        BY <4>1, <4>2
    <3>2. CASE k # 0
      <4>1. PICK f : Def(f, k)
        BY <2>2, <3>2, <1>0
      <4> DEFINE g == [i \in 1..(k + 1) |-> IF i = k + 1 THEN f[k] \o s[k + 1] ELSE f[i]]
      <4>2. k + 1 \in Nat /\ k \in Nat /\ k # 0
        BY <3>2
      <4>3. f = [i \in 1..k |-> IF i = 1 THEN s[i] ELSE f[i - 1] \o s[i]]
        BY <4>1
      <4>4. ASSUME NEW i \in 1..(k + 1) PROVE g[i] = IF i = 1 THEN s[i] ELSE g[i - 1] \o s[i]
        <5>1. CASE i = k + 1
          <6>1. i # 1 /\ i - 1 = k /\ k \in 1..(k + 1) /\ k # k + 1
            BY <4>2, <5>1
          <6>2. g[i - 1] = f[k] /\ g[i] = f[k] \o s[i]
            BY <5>1, <6>1
          <6> QED
            BY <6>1, <6>2
        <5>2. CASE i # k + 1
          <6>1. i \in 1..k /\ g[i] = f[i]
            BY <4>2, <5>2
          <6>2. f[i] = IF i = 1 THEN s[i] ELSE f[i - 1] \o s[i]
            BY <4>3, <6>1
          <6>3. i # 1 => i - 1 \in 1..(k + 1) /\ i - 1 # k + 1
            BY <4>2, <6>1
          <6>4. i # 1 => g[i - 1] = f[i - 1]
            BY <6>3
          <6> HIDE DEF g
          <6> QED
            BY <6>1, <6>2, <6>4
        <5> QED
          BY <5>1, <5>2
      <4>5. Def(g, k + 1)
        <5>1. g = [i \in 1..(k + 1) |-> g[i]]
          OBVIOUS
        <5> HIDE DEF g
        <5> QED
          BY <5>1, <4>4
      <4> HIDE DEF Def, g
      <4> QED
        BY <4>2, <4>5
    <3> QED
      BY <3>1, <3>2
  <2>3. \A k \in 0..(N - 1) : k \in S => k + 1 \in S
    BY <2>2
  <2>4. \E f : Def(f, N)
    <3> HIDE DEF S
    <3>1. N \in S
      BY <1>0, <2>1, <2>3, Steps
    <3> QED
      BY <1>6, <3>1 DEF S
  <2>5. PICK f : f = (CHOOSE g : Def(g, N))
    OBVIOUS
  <2>6. Def(f, N)
    BY <2>4, <2>5
  <2>7. FlattenSeq(s) = f[N]
    BY <1>6, <2>5 DEF FlattenSeq
  <2>8. f[1] = s[1] /\ \A i \in 2..N : f[i] = f[i - 1] \o s[i]
    <3>1. 1 \in 1..N /\ \A i \in 2..N : i \in 1..N /\ i # 1
      BY <1>0, <1>6
    <3> QED
      BY <2>6, <3>1
  <2> HIDE DEF Def, S
  <2>9. SoFar(s, off, f[1], 1)
    <3>1. Listed(s[1]) /\ off[1] = Len(s[1]) /\ off[0] = 0 /\ Len(s[1]) \in Nat
      <4>1. 1 \in 1..N
        BY <1>0, <1>6
      <4>2. Listed(s[1]) /\ off[1] = off[0] + Len(s[1])
        BY <1>3, <4>1
      <4> QED
        BY <4>2, <1>3, ListedIs
    <3>2. \A i \in 1..1 : i = 1 /\ i - 1 = 0
      OBVIOUS
    <3> QED
      BY <2>8, <3>1, <3>2 DEF SoFar
  <2> DEFINE U == {m \in 0..N : m # 0 => SoFar(s, off, f[m], m)}
  <2>10. 0 \in U
    BY <1>0
  <2>11. ASSUME NEW k \in 0..(N - 1), k \in U PROVE k + 1 \in U
    <3>1. CASE k = 0
      BY <1>0, <2>9, <3>1
    <3>2. CASE k # 0
      <4>1. SoFar(s, off, f[k], k) /\ k + 1 \in 1..N /\ k + 1 \in 2..N /\ k \in Nat /\ k \in 0..N
        BY <1>0, <2>11, <3>2
      <4>2. f[k + 1] = f[k] \o s[k + 1] /\ Listed(s[k + 1]) /\ off[k + 1] = off[k] + Len(s[k + 1]) /\ off[k] \in Nat
        <5>1. (k + 1) - 1 = k
          BY <4>1
        <5>2. f[k + 1] = f[(k + 1) - 1] \o s[k + 1] /\ off[k + 1] = off[(k + 1) - 1] + Len(s[k + 1])
          BY <4>1, <2>8, <1>3
        <5> QED
          BY <5>1, <5>2, <4>1, <1>4
      <4>3. SoFar(s, off, f[k] \o s[k + 1], k + 1)
        BY <4>1, <4>2, Further
      <4>4. SoFar(s, off, f[k + 1], k + 1)
        BY <4>2, <4>3, Zenon
      <4>5. k + 1 \in 0..N
        BY <4>1, <1>0
      <4> QED
        BY <4>4, <4>5
    <3> QED
      BY <3>1, <3>2
  <2>12. \A k \in 0..(N - 1) : k \in U => k + 1 \in U
    BY <2>11
  <2> HIDE DEF U
  <2>13. N \in U
    BY <1>0, <2>10, <2>12, Steps
  <2>14. SoFar(s, off, f[N], N)
    BY <1>6, <2>13 DEF U
  <2> QED
    BY <1>3, <1>4, <2>7, <2>14
<1> QED
  BY <1>5, <1>6

LEMMA FlatElements ==
  ASSUME NEW s, Listed(s), \A i \in 1..Len(s) : Listed(s[i])
  PROVE  /\ Listed(FlattenSeq(s))
         /\ \A p \in 1..Len(FlattenSeq(s)) :
              \E i \in 1..Len(s) : \E j \in 1..Len(s[i]) : FlattenSeq(s)[p] = s[i][j]
<1>1. PICK off : SoFar(s, off, FlattenSeq(s), Len(s))
  BY Flat
<1>2. PICK f : f = FlattenSeq(s)
  OBVIOUS
<1>3. SoFar(s, off, f, Len(s))
  BY <1>1, <1>2
<1>4. ASSUME NEW p \in 1..Len(f) PROVE \E i \in 1..Len(s) : \E j \in 1..Len(s[i]) : f[p] = s[i][j]
  <2>0. PICK i \in 1..Len(s) : \E j \in 1..Len(s[i]) : p = off[i - 1] + j
    BY <1>3 DEF SoFar
  <2>1. PICK j \in 1..Len(s[i]) : p = off[i - 1] + j
    BY <2>0
  <2>2. f[p] = s[i][j]
    BY <1>3, <2>1 DEF SoFar
  <2> QED
    BY <2>2
<1> QED
  BY <1>2, <1>3, <1>4 DEF SoFar


-----------------------------------------------------------------------------
(* The plan *)

LEMMA UpdateIs == ASSUME NEW row, NEW cells
  PROVE /\ Listed(Update(Tables("table"), row, cells))
        /\ \A k \in 1..Len(Update(Tables("table"), row, cells)) :
             /\ Update(Tables("table"), row, cells)[k].op = "update"
             /\ Update(Tables("table"), row, cells)[k].table = "t"
<1>1. PICK tables : tables = Tables("table")
  OBVIOUS
<1>2. Listed(tables) /\ Len(tables) = 1 /\ tables[1].name = "t"
  BY <1>1, TheTable
<1> DEFINE places == {i \in DOMAIN tables : DOMAIN tables[i].columns \cap DOMAIN cells # {}}
<1>3. places \in SUBSET (1..Len(tables))
  BY <1>2 DEF Listed
<1>4. PICK changed : changed = Part(tables, places)
  OBVIOUS
<1>5. PICK updates : updates = [i \in DOMAIN changed |->
        [op |-> "update", table |-> changed[i].name, set |-> Named(changed[i], cells), where |-> Where(changed[i], row)]]
  OBVIOUS
<1>6. Update(tables, row, cells) = updates
  BY <1>4, <1>5 DEF Update
<1> HIDE DEF places
<1>7. Listed(changed) /\ \E order : Taken(changed, tables, places, order)
  BY <1>2, <1>3, <1>4, PartIs
<1>12. PICK order : Taken(changed, tables, places, order)
  BY <1>7
<1>8. ASSUME NEW k \in 1..Len(changed) PROVE changed[k].name = "t"
  <2>1. order[k] \in 1..1 /\ changed[k] = tables[order[k]]
    BY <1>2, <1>3, <1>12 DEF Taken
  <2> QED
    BY <1>2, <2>1
<1>9. DOMAIN changed = 1..Len(changed) /\ Len(changed) \in Nat
  BY <1>7 DEF Listed
<1>10. Listed(updates) /\ Len(updates) = Len(changed)
  <2>1. updates = [i \in 1..Len(changed) |-> updates[i]]
    BY <1>5, <1>9
  <2> QED
    BY <1>9, <2>1, Mapped
<1>11. \A k \in 1..Len(updates) : updates[k].op = "update" /\ updates[k].table = "t"
  BY <1>5, <1>8, <1>9, <1>10
<1> QED
  BY <1>1, <1>6, <1>10, <1>11

\* Deletes, then inserts, then updates.
LEMMA PlanInOrder == ASSUME NEW g, Listed(g), NEW c, Kept(c), OnGrid(c, g)
  PROVE InOrder(SqlPlan(Tables("table"), g, c))
<1>1. PICK tables : tables = Tables("table")
  OBVIOUS
<1>2. tables[1].name = "t"
  BY <1>1, TheTable
<1>3. Len(g) \in Nat /\ c.deletes \in SUBSET (1..Len(g)) /\ DOMAIN c.updates \subseteq 1..Len(g) /\ Listed(c.inserts)
  BY DEF OnGrid, Kept, Listed
<1>4. Cardinality(c.deletes) \in Nat
  BY <1>3, SortedIs
<1>5. PICK live : live = LiveUpdates(c)
  OBVIOUS
<1>6. Listed(live)
  <2> DEFINE rows == {r \in DOMAIN c.updates \ c.deletes : DOMAIN c.updates[r] # {}}
  <2>1. rows \in SUBSET (1..Len(g)) /\ live = Sorted(rows)
    BY <1>3, <1>5 DEF LiveUpdates
  <2> HIDE DEF rows
  <2> QED
    BY <1>3, <2>1, SortedIs
<1>7. PICK deletes : deletes = [i \in 1..Cardinality(c.deletes) |-> Delete(tables[1], g[Sorted(c.deletes)[i]])]
  OBVIOUS
<1>8. PICK inserts : inserts = [i \in DOMAIN c.inserts |-> Insert(tables[1], c.inserts[i])]
  OBVIOUS
<1>9. PICK pieces : pieces = [i \in DOMAIN live |-> Update(tables, g[live[i]], c.updates[live[i]])]
  OBVIOUS
<1>10. PICK updates : updates = FlattenSeq(pieces)
  OBVIOUS
<1>11. SqlPlan(tables, g, c) = deletes \o inserts \o updates
  BY <1>5, <1>7, <1>8, <1>9, <1>10 DEF SqlPlan
<1>12. Listed(deletes) /\ \A i \in 1..Len(deletes) : deletes[i].op = "delete" /\ deletes[i].table = "t"
  <2>1. deletes = [i \in 1..Cardinality(c.deletes) |-> deletes[i]]
    BY <1>7
  <2>2. Listed(deletes) /\ Len(deletes) = Cardinality(c.deletes)
    BY <1>4, <2>1, Mapped
  <2> QED
    BY <1>2, <1>7, <2>2 DEF Delete
<1>13. Listed(inserts) /\ \A i \in 1..Len(inserts) : inserts[i].op = "insert" /\ inserts[i].table = "t"
  <2>1. Len(c.inserts) \in Nat /\ DOMAIN c.inserts = 1..Len(c.inserts)
    BY <1>3 DEF Listed
  <2>2. inserts = [i \in 1..Len(c.inserts) |-> inserts[i]]
    BY <1>8, <2>1
  <2>3. Listed(inserts) /\ Len(inserts) = Len(c.inserts)
    BY <2>1, <2>2, Mapped
  <2> QED
    BY <1>2, <1>8, <2>1, <2>3 DEF Insert
<1>14. Listed(updates) /\ \A i \in 1..Len(updates) : updates[i].op = "update" /\ updates[i].table = "t"
  <2>1. Len(live) \in Nat /\ DOMAIN live = 1..Len(live)
    BY <1>6 DEF Listed
  <2>2. pieces = [i \in 1..Len(live) |-> pieces[i]]
    BY <1>9, <2>1
  <2>3. Listed(pieces) /\ Len(pieces) = Len(live)
    BY <2>1, <2>2, Mapped
  <2>4. ASSUME NEW i \in 1..Len(pieces)
        PROVE Listed(pieces[i]) /\ \A k \in 1..Len(pieces[i]) : pieces[i][k].op = "update" /\ pieces[i][k].table = "t"
    <3>1. pieces[i] = Update(Tables("table"), g[live[i]], c.updates[live[i]])
      BY <1>1, <1>9, <2>1, <2>3, <2>4
    <3> QED
      BY <3>1, UpdateIs
  <2>5. /\ Listed(FlattenSeq(pieces))
        /\ \A p \in 1..Len(FlattenSeq(pieces)) :
             \E i \in 1..Len(pieces) : \E j \in 1..Len(pieces[i]) : FlattenSeq(pieces)[p] = pieces[i][j]
    BY <2>3, <2>4, FlatElements
  <2>6. \A p \in 1..Len(updates) : \E i \in 1..Len(pieces) : \E j \in 1..Len(pieces[i]) : updates[p] = pieces[i][j]
    BY <1>10, <2>5
  <2>7. ASSUME NEW p \in 1..Len(updates) PROVE updates[p].op = "update" /\ updates[p].table = "t"
    <3>1. PICK i \in 1..Len(pieces) : \E j \in 1..Len(pieces[i]) : updates[p] = pieces[i][j]
      BY <2>6
    <3>2. PICK j \in 1..Len(pieces[i]) : updates[p] = pieces[i][j]
      BY <3>1
    <3> QED
      BY <2>4, <3>2
  <2> QED
    BY <1>10, <2>5, <2>7
<1>15. PICK first : first = deletes \o inserts
  OBVIOUS
<1>16. Join(deletes, inserts, first)
  BY <1>12, <1>13, <1>15, Joined
<1>17. PICK all : all = first \o updates
  OBVIOUS
<1>18. Join(first, updates, all)
  <2>1. Listed(first)
    BY <1>16 DEF Join
  <2> QED
    BY <1>14, <1>17, <2>1, Joined
<1>19. Len(deletes) \in Nat /\ Len(inserts) \in Nat /\ Len(updates) \in Nat
  BY <1>12, <1>13, <1>14, ListedIs
<1> DEFINE D == Len(deletes)
           I == Len(inserts)
<1>20. Len(all) = D + I + Len(updates) /\ Listed(all) /\ Len(all) \in Nat /\ Len(first) = D + I
  BY <1>16, <1>18, <1>19 DEF Join
<1>21. \A i \in 1..D : all[i].op = "delete" /\ all[i].table = "t"
  <2>1. \A i \in 1..D : i \in 1..Len(first)
    BY <1>19, <1>20
  <2> QED
    BY <1>12, <1>16, <1>18, <2>1 DEF Join
<1>22. \A i \in 1..I : all[D + i].op = "insert" /\ all[D + i].table = "t"
  <2>1. \A i \in 1..I : D + i \in 1..Len(first)
    BY <1>19, <1>20
  <2> QED
    BY <1>13, <1>16, <1>18, <2>1 DEF Join
<1>23. \A i \in 1..Len(updates) : all[(D + I) + i].op = "update" /\ all[(D + I) + i].table = "t"
  BY <1>14, <1>18, <1>20 DEF Join
<1>24. ASSUME NEW i \in 1..Len(all)
       PROVE \/ i \in 1..D
             \/ i > D /\ \E k \in 1..I : i = D + k
             \/ i > D + I /\ \E k \in 1..Len(updates) : i = (D + I) + k
  <2>1. CASE i <= D
    BY <1>19, <2>1
  <2>2. CASE i > D /\ i <= D + I
    <3>1. i - D \in 1..I /\ i = D + (i - D)
      BY <1>19, <2>2
    <3> QED
      BY <2>2, <3>1
  <2>3. CASE i > D + I
    <3>1. i - (D + I) \in 1..Len(updates) /\ i = (D + I) + (i - (D + I))
      BY <1>19, <1>20, <2>3
    <3> QED
      BY <2>3, <3>1
  <2> QED
    BY <1>19, <1>20, <2>1, <2>2, <2>3
<1>25. \A i \in 1..Len(all) : /\ all[i].table = "t"
                              /\ \/ all[i].op = "delete" /\ i <= D
                                 \/ all[i].op = "insert" /\ i > D /\ i <= D + I
                                 \/ all[i].op = "update" /\ i > D + I
  <2> TAKE i \in 1..Len(all)
  <2>1. CASE i \in 1..D
    BY <1>21, <2>1
  <2>2. CASE i > D /\ \E k \in 1..I : i = D + k
    BY <1>19, <1>22, <2>2
  <2>3. CASE i > D + I /\ \E k \in 1..Len(updates) : i = (D + I) + k
    BY <1>23, <2>3
  <2> QED
    BY <1>24, <2>1, <2>2, <2>3
<1>26. ASSUME NEW i \in 1..Len(all), NEW j \in 1..Len(all), i < j
       PROVE  /\ all[j].op = "insert" => all[i].op # "update"
              /\ all[j].op = "delete" => all[i].op = "delete"
  BY <1>19, <1>25, <1>26
<1>27. InOrder(all)
  BY <1>20, <1>25, <1>26 DEF InOrder
<1> QED
  BY <1>1, <1>11, <1>15, <1>17, <1>27

-----------------------------------------------------------------------------
(* The rerun *)

Appends(f, rows, more) ==
  /\ f[0] = rows
  /\ AppendInserted("table", rows, more) = f[Len(more)]
  /\ \A k \in 1..Len(more) :
       IF \E i \in DOMAIN f[k-1] : f[k-1][i][1] = more[k][1] THEN f[k] = f[k-1]
       ELSE f[k] = Append(f[k-1], more[k])

LEMMA Appending == ASSUME NEW rows, NEW more, Len(more) \in Nat
  PROVE \E f : Appends(f, rows, more)
<1> DEFINE Step(g, row) == IF \E i \in DOMAIN g : \A c \in Tables("table")[1].key : g[i][c] = row[c] THEN g
                           ELSE Append(g, row)
           Def(f, m) == f = [n \in 0..m |-> IF n = 0 THEN rows ELSE Step(f[n-1], more[n])]
           S == {m \in Nat : \E f : Def(f, m)}
<1>0. AppendInserted("table", rows, more) = (CHOOSE g : Def(g, Len(more)))[Len(more)]
  BY TheTable DEF AppendInserted, InTurn, SqlReads
<1>9. ASSUME NEW g, NEW row
      PROVE IF \E i \in DOMAIN g : g[i][1] = row[1] THEN Step(g, row) = g ELSE Step(g, row) = Append(g, row)
  BY TheTable
<1> HIDE DEF Step
<1>1. 0 \in S
  <2> DEFINE g == [n \in {0} |-> rows]
  <2>1. Def(g, 0)
    OBVIOUS
  <2> QED
    BY <2>1
<1>2. ASSUME NEW k \in 0..(Len(more) - 1), k \in S PROVE k + 1 \in S
  <2>1. PICK f : Def(f, k)
    BY <1>2
  <2> DEFINE g == [n \in 0..(k + 1) |-> IF n = k + 1 THEN Step(f[k], more[k + 1]) ELSE f[n]]
  <2>2. Def(g, k + 1) /\ k + 1 \in Nat
    BY <2>1
  <2> HIDE DEF Def, g
  <2> QED
    BY <2>2
<1>3. \E f : Def(f, Len(more))
  <2>0. \A k \in 0..(Len(more) - 1) : k \in S => k + 1 \in S
    BY <1>2
  <2> HIDE DEF S
  <2>1. Len(more) \in S
    BY <1>1, <2>0, Steps
  <2> QED
    BY <2>1 DEF S
<1>4. PICK f : f = (CHOOSE g : Def(g, Len(more)))
  OBVIOUS
<1>5. Def(f, Len(more))
  BY <1>3, <1>4
<1>6. AppendInserted("table", rows, more) = f[Len(more)]
  BY <1>0, <1>4
<1>7. f[0] = rows
  BY <1>5
<1>8. ASSUME NEW k \in 1..Len(more)
      PROVE IF \E i \in DOMAIN f[k-1] : f[k-1][i][1] = more[k][1] THEN f[k] = f[k-1] ELSE f[k] = Append(f[k-1], more[k])
  <2>1. k \in 0..Len(more) /\ k # 0
    OBVIOUS
  <2>2. f[k] = Step(f[k-1], more[k])
    BY <1>5, <2>1
  <2>3. PICK g : g = f[k-1]
    OBVIOUS
  <2>4. f[k] = Step(g, more[k])
    BY <2>2, <2>3
  <2> QED
    BY <1>9, <2>3, <2>4
<1> HIDE DEF Def
<1>10. Appends(f, rows, more)
  BY <1>6, <1>7, <1>8 DEF Appends
<1> QED
  BY <1>10

\* Whatever rows were returned, each key is on screen once.
LEMMA ShownOnce == ASSUME NEW rows, Apart(rows), NEW more, Listed(more)
  PROVE /\ Apart(AppendInserted("table", rows, more))
        /\ \A i \in 1..Len(more) : \E j \in 1..Len(AppendInserted("table", rows, more)) :
             AppendInserted("table", rows, more)[j][1] = more[i][1]
<1>0. Len(more) \in Nat
  BY DEF Listed
<1>1. PICK f : Appends(f, rows, more)
  BY <1>0, Appending
<1>11. /\ f[0] = rows
       /\ AppendInserted("table", rows, more) = f[Len(more)]
       /\ \A k \in 1..Len(more) :
            IF \E i \in DOMAIN f[k-1] : f[k-1][i][1] = more[k][1] THEN f[k] = f[k-1]
            ELSE f[k] = Append(f[k-1], more[k])
  BY <1>1 DEF Appends
<1> DEFINE Good(g, n) == Apart(g) /\ \A i \in 1..n : \E j \in 1..Len(g) : g[j][1] = more[i][1]
           S == {n \in 0..Len(more) : Good(f[n], n)}
<1>2. 0 \in S
  BY <1>0, <1>11
<1>3. ASSUME NEW k \in 0..(Len(more) - 1), k \in S PROVE k + 1 \in S
  <2>1. k + 1 \in 1..Len(more) /\ (k + 1) - 1 = k /\ k + 1 \in 0..Len(more)
    BY <1>0
  <2>2. PICK g : g = f[k]
    OBVIOUS
  <2>3. PICK h : h = f[k + 1]
    OBVIOUS
  <2>4. PICK row : row = more[k + 1]
    OBVIOUS
  <2>5. IF \E i \in DOMAIN g : g[i][1] = row[1] THEN h = g ELSE h = Append(g, row)
    BY <1>11, <2>1, <2>2, <2>3, <2>4
  <2>6. Good(g, k) /\ Listed(g)
    BY <1>3, <2>2 DEF Apart
  <2>7. DOMAIN g = 1..Len(g) /\ Len(g) \in Nat
    BY <2>6, ListedIs
  <2>8. \A i \in 1..(k + 1) : i = k + 1 \/ i \in 1..k
    BY <1>0
  <2>9. CASE \E i \in DOMAIN g : g[i][1] = row[1]
    <3>1. \A i \in 1..(k + 1) : \E j \in 1..Len(g) : g[j][1] = more[i][1]
      BY <2>4, <2>6, <2>7, <2>8, <2>9
    <3>2. f[k + 1] = g
      BY <2>3, <2>5, <2>9
    <3>3. Good(g, k + 1)
      BY <2>6, <3>1
    <3>4. Good(f[k + 1], k + 1)
      BY <3>2, <3>3
    <3> HIDE DEF Good
    <3> QED
      BY <2>1, <3>4
  <2>10. CASE ~\E i \in DOMAIN g : g[i][1] = row[1]
    <3>1. h = Append(g, row)
      BY <2>5, <2>10
    <3>2. /\ Listed(h) /\ Len(h) = Len(g) + 1 /\ h[Len(g) + 1] = row
          /\ \A i \in 1..Len(g) : h[i] = g[i]
      BY <2>6, <3>1, Added
    <3>3. \A i \in 1..Len(h) : IF i = Len(g) + 1 THEN h[i] = row ELSE i \in 1..Len(g) /\ h[i] = g[i]
      BY <2>7, <3>2
    <3>4. \A i \in 1..Len(g) : g[i][1] # row[1]
      BY <2>7, <2>10
    <3>5. Apart(h)
      BY <2>6, <3>2, <3>3, <3>4 DEF Apart
    <3>6. \A i \in 1..(k + 1) : \E j \in 1..Len(h) : h[j][1] = more[i][1]
      <4> TAKE i \in 1..(k + 1)
      <4>1. CASE i = k + 1
        <5>1. Len(g) + 1 \in 1..Len(h) /\ h[Len(g) + 1][1] = more[i][1]
          BY <2>4, <2>7, <3>2, <4>1
        <5> QED
          BY <5>1
      <4>2. CASE i \in 1..k
        <5>1. PICK j \in 1..Len(g) : g[j][1] = more[i][1]
          BY <2>6, <4>2
        <5>2. j \in 1..Len(h) /\ h[j][1] = more[i][1]
          BY <2>7, <3>2, <5>1
        <5> QED
          BY <5>2
      <4> QED
        BY <2>8, <4>1, <4>2
    <3> QED
      BY <2>1, <2>3, <3>5, <3>6
  <2> QED
    BY <2>9, <2>10
<1>4. Len(more) \in S
  <2>1. \A k \in 0..(Len(more) - 1) : k \in S => k + 1 \in S
    BY <1>3
  <2> HIDE DEF S
  <2> QED
    BY <1>0, <1>2, <2>1, Steps
<1> QED
  BY <1>11, <1>4

LEMMA TableReadIs == ASSUME NEW rows, Keyed(rows) PROVE Apart(TableRead(rows))
<1>1. Len(rows) \in Nat /\ DOMAIN rows = 1..Len(rows)
  BY ListedIs DEF Keyed
<1>2. PICK cells : cells = [i \in 1..Len(rows) |-> <<rows[i].id, rows[i].v>>]
  OBVIOUS
<1>3. TableRead(rows) = cells
  BY <1>1, <1>2 DEF TableRead
<1>4. Listed(cells) /\ Len(cells) = Len(rows)
  BY <1>1, <1>2, Mapped
<1>5. \A i \in 1..Len(cells) : cells[i][1] = rows[i].id
  BY <1>2, <1>4
<1> QED
  BY <1>3, <1>4, <1>5 DEF Apart, Keyed

LEMMA SelectedApart == ASSUME read = "table", Whole(stored) PROVE Apart(Selected)
<1>1. PICK rows : rows = TableRead(stored.t)
  OBVIOUS
<1>2. Apart(rows) /\ Listed(rows)
  BY <1>1, TableReadIs DEF Whole, Apart
<1>3. Grid(read, stored) = rows
  BY <1>1 DEF Grid, StoreReads
<1> DEFINE places == {i \in DOMAIN rows : hides = "none" \/ rows[i][2] # Null}
<1>4. Selected = Part(rows, places)
  BY <1>3 DEF Selected
<1>5. places \in SUBSET (1..Len(rows))
  BY <1>2, ListedIs
<1> HIDE DEF places
<1> QED
  BY <1>2, <1>4, <1>5, ApartPart

-----------------------------------------------------------------------------
(* The invariant *)

\* The table keeps its key, what is reviewed or on its way to the engine writes that table
\* in order, and the rows an apply returned are of one key each.
Inserting(s, v, ts, rows, g) ==
  /\ Whole(s)
  /\ InOrder(v.statements)
  /\ Listed(ts) /\ \A k \in 1..Len(ts) : InOrder(ts[k].statements)
  /\ Apart(rows)
  /\ Listed(g)

InsertInv == read = "table" => Inserting(stored, review, tasks, stash, grid)

LEMMA NothingPlanned == InOrder(NoReview.statements) /\ Listed(<<>>) /\ Apart(<<>>)
BY DEF NoReview, InOrder, Apart, Listed

LEMMA InsertInvNext == (read' = "table" => Inserting(stored', review', tasks', stash', grid')) => InsertInv'
BY DEF InsertInv

LEMMA InsertInit == Init => InsertInv
<1> SUFFICES ASSUME Init, read = "table" PROVE Inserting(stored, review, tasks, stash, grid)
  BY DEF InsertInv
<1>1. stored \in Starts(read) /\ read \in ReadsUsed /\ stash = <<>> /\ tasks = <<>> /\ review = NoReview /\ grid = Selected
  BY DEF Init
<1>2. /\ stored = [t |-> stored.t, u |-> stored.u, p |-> stored.p, c |-> stored.c, r |-> stored.r]
      /\ Listed(stored.t) /\ Sound("t", stored.t)
  <2>1. Listing(stored["t"])
    BY <1>1, StartsSound
  <2> QED
    BY <1>1, <2>1, StartsSound DEF Listed, Listing
<1>3. Keyed(stored.t)
  BY <1>2, ListedIs DEF Keyed, Sound, HasKey
<1>4. Whole(stored)
  BY <1>2, <1>3 DEF Whole
<1>5. Listed(grid)
  BY <1>1, <1>4, SelectedApart DEF Apart
<1>6. Len(tasks) = 0
  BY <1>1
<1> QED
  BY <1>1, <1>4, <1>5, <1>6, NothingPlanned DEF Inserting

LEMMA Shifted == ASSUME NEW s, NEW i, Listed(s), i \in 1..Len(s)
  PROVE \A k \in 1..(Len(s) - 1) : RemoveAt(s, i)[k] = s[IF k < i THEN k ELSE k + 1]
<1> DEFINE S == {s[j] : j \in 1..Len(s)}
<1>1. s \in Seq(S)
  BY DEF Listed
<1> HIDE DEF S
<1>2. i \in Nat /\ Len(s) \in Nat /\ 1 <= i /\ i <= Len(s)
  BY <1>1
<1> DEFINE a == SubSeq(s, 1, i - 1)
           b == SubSeq(s, i + 1, Len(s))
<1>3. /\ a \in Seq(S) /\ Len(a) = i - 1 /\ \A j \in 1..(i - 1) : a[j] = s[j]
      /\ b \in Seq(S) /\ Len(b) = Len(s) - i /\ \A j \in 1..(Len(s) - i) : b[j] = s[i + j]
  BY <1>1, <1>2
<1>4. RemoveAt(s, i) = a \o b
  BY DEF RemoveAt
<1> HIDE DEF a, b
<1>5. \A k \in 1..(Len(s) - 1) : (a \o b)[k] = IF k <= Len(a) THEN a[k] ELSE b[k - Len(a)]
  BY <1>2, <1>3
<1>6. TAKE k \in 1..(Len(s) - 1)
<1>7. CASE k < i
  <2>1. k \in 1..(i - 1) /\ k <= Len(a)
    BY <1>2, <1>3, <1>7
  <2> QED
    BY <1>3, <1>4, <1>5, <1>7, <2>1
<1>8. CASE ~(k < i)
  <2>1. k - Len(a) \in 1..(Len(s) - i) /\ ~(k <= Len(a)) /\ i + (k - Len(a)) = k + 1
    BY <1>2, <1>3, <1>8
  <2> QED
    BY <1>3, <1>4, <1>5, <1>8, <2>1
<1> QED
  BY <1>7, <1>8

LEMMA WholeAfterForeign ==
  ASSUME NEW s, Whole(s), NEW new, NEW table \in DOMAIN s, NEW i \in DOMAIN s[table],
         new = [s EXCEPT ![table] = RemoveAt(@, i)] \/ new = [s EXCEPT ![table][i].v = "theirs"]
  PROVE Whole(new)
<1>1. Keyed(s.t) /\ Listed(s.t) /\ s = [t |-> s.t, u |-> s.u, p |-> s.p, c |-> s.c, r |-> s.r] /\ s["t"] = s.t
  BY DEF Whole, Keyed
<1>2. PICK rows : rows = s.t
  OBVIOUS
<1>3. new = [t |-> new.t, u |-> new.u, p |-> new.p, c |-> new.c, r |-> new.r]
  BY <1>1
<1>4. CASE table # "t"
  <2>1. new.t = rows
    BY <1>1, <1>2, <1>4
  <2> QED
    BY <1>1, <1>2, <1>3, <2>1 DEF Whole
<1>5. CASE table = "t" /\ new = [s EXCEPT ![table] = RemoveAt(@, i)]
  <2>1. new.t = RemoveAt(rows, i) /\ i \in 1..Len(rows) /\ Len(rows) \in Nat
    BY <1>1, <1>2, <1>5, ListedIs
  <2>2. PICK left : left = RemoveAt(rows, i)
    OBVIOUS
  <2>3. \A k \in 1..(Len(rows) - 1) : left[k] = rows[IF k < i THEN k ELSE k + 1]
    BY <1>1, <1>2, <2>1, <2>2, Shifted
  <2>4. Listed(left) /\ Len(left) = Len(rows) - 1
    BY <1>1, <1>2, <2>1, <2>2, Removed
  <2>5. \A k \in 1..(Len(rows) - 1) : (IF k < i THEN k ELSE k + 1) \in 1..Len(rows)
    BY <2>1
  <2>6. Keyed(left)
    <3>1. PICK place : place = [k \in 1..(Len(rows) - 1) |-> IF k < i THEN k ELSE k + 1]
      OBVIOUS
    <3>2. \A k \in 1..Len(left) : place[k] \in 1..Len(rows) /\ left[k] = rows[place[k]]
      BY <2>3, <2>4, <2>5, <3>1
    <3>3. \A k, l \in 1..Len(left) : place[k] = place[l] => k = l
      BY <2>1, <2>4, <3>1
    <3>4. ASSUME NEW k \in 1..Len(left), NEW l \in 1..Len(left), left[k].id = left[l].id PROVE k = l
      <4>1. place[k] = place[l]
        BY <1>1, <1>2, <3>2, <3>4 DEF Keyed
      <4> QED
        BY <3>3, <4>1
    <3> QED
      BY <2>4, <3>4 DEF Keyed
  <2> QED
    BY <1>3, <2>1, <2>2, <2>6 DEF Whole
<1>6. CASE table = "t" /\ new = [s EXCEPT ![table][i].v = "theirs"]
  <2>1. new.t = [rows EXCEPT ![i].v = "theirs"] /\ i \in 1..Len(rows) /\ DOMAIN rows = 1..Len(rows) /\ Len(rows) \in Nat
    BY <1>1, <1>2, <1>6, ListedIs
  <2>2. PICK after : after = [rows EXCEPT ![i].v = "theirs"]
    OBVIOUS
  <2>3. after = [k \in 1..Len(rows) |-> after[k]]
    BY <2>1, <2>2
  <2>4. Listed(after) /\ Len(after) = Len(rows)
    BY <2>1, <2>3, Mapped
  <2>5. \A k \in 1..Len(rows) : after[k].id = rows[k].id
    BY <2>1, <2>2
  <2>6. Keyed(after)
    BY <1>1, <1>2, <2>4, <2>5 DEF Keyed
  <2> QED
    BY <1>3, <2>1, <2>2, <2>6 DEF Whole
<1> QED
  BY <1>4, <1>5, <1>6

\* Nothing a step leaves alone needs another look.
LEMMA InsertSame ==
  ASSUME InsertInv, UNCHANGED <<read, stored, tasks, stash, grid>>, review' \in {review, NoReview}
  PROVE InsertInv'
<1> SUFFICES ASSUME read' = "table" PROVE Inserting(stored', review', tasks', stash', grid')
  BY InsertInvNext
<1>1. Inserting(stored, review, tasks, stash, grid)
  BY DEF InsertInv
<1>2. InOrder(review'.statements)
  BY <1>1, NothingPlanned DEF Inserting
<1> QED
  BY <1>1, <1>2 DEF Inserting

LEMMA QueueTail == ASSUME NEW ts, Listed(ts), ts # <<>>
  PROVE /\ Listed(Tail(ts)) /\ Len(Tail(ts)) = Len(ts) - 1 /\ Head(ts) = ts[1] /\ 1 \in 1..Len(ts)
        /\ \A k \in 1..Len(Tail(ts)) : k + 1 \in 1..Len(ts) /\ Tail(ts)[k] = ts[k + 1]
<1> DEFINE S == {ts[j] : j \in 1..Len(ts)}
<1>1. ts \in Seq(S) /\ Len(ts) \in Nat
  BY DEF Listed
<1> HIDE DEF S
<1>2. Tail(ts) \in Seq(S) /\ Len(Tail(ts)) = Len(ts) - 1 /\ Head(ts) = ts[1] /\ Len(ts) >= 1
  BY <1>1
<1>3. Listed(Tail(ts))
  BY <1>2, ListedOf
<1>4. \A k \in 1..(Len(ts) - 1) : Tail(ts)[k] = ts[k + 1]
  BY <1>1, <1>2
<1> QED
  BY <1>1, <1>2, <1>3, <1>4

LEMMA ReviewInserts == ASSUME UndoInv, InsertInv, Review PROVE InsertInv'
<1> SUFFICES ASSUME read' = "table" PROVE Inserting(stored', review', tasks', stash', grid')
  BY InsertInvNext
<1>1. /\ read = "table" /\ UNCHANGED <<stored, tasks, stash, grid>>
      /\ review'.statements = Plan(read, grid, staged)
  BY DEF Review, shownVars, engineVars
<1>2. Inserting(stored, review, tasks, stash, grid)
  BY <1>1 DEF InsertInv
<1>3. Plan(read, grid, staged) = SqlPlan(Tables("table"), grid, staged)
  BY <1>1 DEF Plan, SqlReads, RedisReads
<1>4. InOrder(SqlPlan(Tables("table"), grid, staged))
  BY <1>2, Fields, PlanInOrder DEF Inserting
<1>5. InOrder(review'.statements)
  BY <1>1, <1>3, <1>4
<1> QED
  BY <1>1, <1>2, <1>5 DEF Inserting

LEMMA ConfirmInserts == ASSUME InsertInv, Confirm PROVE InsertInv'
<1> SUFFICES ASSUME read' = "table" PROVE Inserting(stored', review', tasks', stash', grid')
  BY InsertInvNext
<1>1. /\ read = "table" /\ UNCHANGED <<stored, stash, grid>>
      /\ tasks' = Append(tasks, review) /\ review' = NoReview
  BY DEF Confirm, shownVars
<1>2. Inserting(stored, review, tasks, stash, grid)
  BY <1>1 DEF InsertInv
<1>3. PICK more : more = Append(tasks, review)
  OBVIOUS
<1>4. /\ Listed(more) /\ Len(more) = Len(tasks) + 1 /\ more[Len(tasks) + 1] = review
      /\ \A k \in 1..Len(tasks) : more[k] = tasks[k]
  BY <1>2, <1>3, Added DEF Inserting
<1>5. Len(tasks) \in Nat
  BY <1>2 DEF Inserting, Listed
<1>6. \A k \in 1..Len(more) : InOrder(more[k].statements)
  <2> TAKE k \in 1..Len(more)
  <2>1. k \in 1..Len(tasks) \/ k = Len(tasks) + 1
    BY <1>4, <1>5
  <2> QED
    BY <1>2, <1>4, <2>1 DEF Inserting
<1> QED
  BY <1>1, <1>2, <1>3, <1>4, <1>6, NothingPlanned DEF Inserting

LEMMA ExecuteInserts == ASSUME InsertInv, Execute PROVE InsertInv'
<1> SUFFICES ASSUME read' = "table" PROVE Inserting(stored', review', tasks', stash', grid')
  BY InsertInvNext
<1>1. read = "table" /\ UNCHANGED <<review, grid>> /\ tasks' = Tail(tasks) /\ tasks # <<>>
  BY DEF Execute, shownVars, editVars
<1>2. Inserting(stored, review, tasks, stash, grid)
  BY <1>1 DEF InsertInv
<1>3. /\ Listed(Tail(tasks)) /\ Head(tasks) = tasks[1] /\ 1 \in 1..Len(tasks)
      /\ \A k \in 1..Len(Tail(tasks)) : k + 1 \in 1..Len(tasks) /\ Tail(tasks)[k] = tasks[k + 1]
  BY <1>1, <1>2, QueueTail DEF Inserting
<1>4. PICK p : p = Head(tasks).statements
  OBVIOUS
<1>5. InOrder(p) /\ Whole(stored)
  BY <1>2, <1>3, <1>4 DEF Inserting
<1>6. Applied(read, stored, p) = Transact(stored, p)
  BY <1>1 DEF Applied, RedisReads
<1>7. PICK outcome : outcome = Transact(stored, p)
  OBVIOUS
<1>8. Whole(outcome.stored) /\ Keyed(outcome.returned)
  BY <1>5, <1>7, TransactKeeps
<1>9. Apart(TableRead(outcome.returned))
  BY <1>8, TableReadIs
<1>10. stored' = outcome.stored /\ stash' = IF outcome.ok THEN TableRead(outcome.returned) ELSE stash
  BY <1>4, <1>6, <1>7 DEF Execute
<1>11. stash' = TableRead(outcome.returned) \/ stash' = stash
  BY <1>10
<1>12. Apart(stash')
  BY <1>2, <1>9, <1>11 DEF Inserting
<1>13. \A k \in 1..Len(Tail(tasks)) : InOrder(Tail(tasks)[k].statements)
  BY <1>2, <1>3 DEF Inserting
<1> QED
  BY <1>1, <1>2, <1>3, <1>8, <1>10, <1>12, <1>13 DEF Inserting

LEMMA RedrawInserts == ASSUME InsertInv, Redraw
  PROVE /\ InsertInv'
        /\ read = "table" => \A i \in DOMAIN stash : Cardinality({k \in DOMAIN grid' : grid'[k][1] = stash[i][1]}) = 1
<1>1. /\ UNCHANGED <<read, stored, tasks>> /\ review' = NoReview /\ stash' = <<>>
      /\ grid' = AppendInserted(read, Selected, stash)
  BY DEF Redraw, Reset
<1>2. ASSUME read = "table"
      PROVE /\ Inserting(stored', review', tasks', stash', grid')
            /\ \A i \in DOMAIN stash : Cardinality({k \in DOMAIN grid' : grid'[k][1] = stash[i][1]}) = 1
  <2>1. Inserting(stored, review, tasks, stash, grid)
    BY <1>2 DEF InsertInv
  <2>2. Apart(Selected) /\ Listed(stash)
    BY <1>2, <2>1, SelectedApart DEF Inserting, Apart
  <2>3. PICK new : new = AppendInserted("table", Selected, stash)
    OBVIOUS
  <2>4. Apart(new) /\ \A i \in 1..Len(stash) : \E j \in 1..Len(new) : new[j][1] = stash[i][1]
    BY <2>2, <2>3, ShownOnce
  <2>5. grid' = new
    BY <1>1, <1>2, <2>3
  <2>6. Listed(new) /\ DOMAIN new = 1..Len(new) /\ DOMAIN stash = 1..Len(stash)
    BY <2>2, <2>4, ListedIs DEF Apart
  <2>7. ASSUME NEW i \in DOMAIN stash PROVE Cardinality({k \in DOMAIN new : new[k][1] = stash[i][1]}) = 1
    <3>1. PICK j \in 1..Len(new) : new[j][1] = stash[i][1]
      BY <2>4, <2>6
    <3>2. {k \in DOMAIN new : new[k][1] = stash[i][1]} = {j}
      BY <2>4, <2>6, <3>1 DEF Apart
    <3> QED
      BY <3>2, FS_Singleton
  <2>8. Inserting(stored', review', tasks', stash', grid')
    BY <1>1, <2>1, <2>5, <2>6, NothingPlanned DEF Inserting
  <2> QED
    BY <2>5, <2>7, <2>8
<1>3. InsertInv'
  BY <1>1, <1>2, InsertInvNext
<1> QED
  BY <1>2, <1>3

LEMMA RequeryInserts == ASSUME InsertInv, Requery PROVE InsertInv'
<1> SUFFICES ASSUME read' = "table" PROVE Inserting(stored', review', tasks', stash', grid')
  BY InsertInvNext
<1>1. read = "table" /\ UNCHANGED <<stored, tasks, stash>> /\ review' = NoReview /\ grid' = Selected
  BY DEF Requery, Reset, engineVars
<1>2. Inserting(stored, review, tasks, stash, grid)
  BY <1>1 DEF InsertInv
<1>3. Listed(Selected)
  BY <1>1, <1>2, SelectedApart DEF Inserting, Apart
<1> QED
  BY <1>1, <1>2, <1>3, NothingPlanned DEF Inserting

LEMMA ForeignInserts == ASSUME InsertInv, NEW table \in DOMAIN stored, NEW i, Foreign(table, i) PROVE InsertInv'
<1> SUFFICES ASSUME read' = "table" PROVE Inserting(stored', review', tasks', stash', grid')
  BY InsertInvNext
<1>1. /\ read = "table" /\ UNCHANGED <<review, tasks, stash, grid>> /\ i \in DOMAIN stored[table]
      /\ \/ stored' = [stored EXCEPT ![table] = RemoveAt(@, i)]
         \/ stored' = [stored EXCEPT ![table][i].v = "theirs"]
  BY DEF Foreign, shownVars, editVars
<1>2. Inserting(stored, review, tasks, stash, grid)
  BY <1>1 DEF InsertInv
<1>3. Whole(stored')
  BY <1>1, <1>2, WholeAfterForeign DEF Inserting
<1> QED
  BY <1>1, <1>2, <1>3 DEF Inserting

\* What a step does to the invariant, and that only a redraw brings a result back.
LEMMA StepInserts == ASSUME UndoInv, InsertInv, [Next]_vars
  PROVE InsertInv' /\ (Redraw \/ ~(shown = 0 /\ shown' # 0))
<1> DEFINE Good == InsertInv' /\ (Redraw \/ ~(shown = 0 /\ shown' # 0))
<1>0. ASSUME NEW new, NEW undo, Change(new, undo) PROVE Good
  <2>1. UNCHANGED <<read, stored, tasks, stash, grid, review, shown>>
    BY <1>0 DEF Change, engineVars
  <2> QED
    BY <2>1, InsertSame
<1>1. ASSUME NEW r \in DOMAIN grid, NEW c \in 1..4, NEW value \in Values \cup {Null},
             SetCell(r, c, value) PROVE Good
  BY <1>0, <1>1 DEF SetCell
<1>2. ASSUME NEW i \in DOMAIN staged.inserts, NEW c \in 1..2, NEW value \in Values \cup {Null},
             SetNew(i, c, value) PROVE Good
  BY <1>0, <1>2 DEF SetNew
<1>3. ASSUME NEW cells, AddRow(cells) PROVE Good
  BY <1>0, <1>3 DEF AddRow
<1>4. ASSUME NEW rows \in SUBSET DOMAIN grid, NEW added \in SUBSET DOMAIN staged.inserts,
             ToggleDelete(rows, added) PROVE Good
  BY <1>0, <1>4 DEF ToggleDelete
<1>5. CASE Undo
  BY <1>5, InsertSame DEF Undo, shownVars, engineVars
<1>6. CASE Discard
  BY <1>6, InsertSame DEF Discard, Reset, shownVars, engineVars
<1>7. CASE Review
  BY <1>7, ReviewInserts DEF Review
<1>8. CASE Close
  BY <1>8, InsertSame DEF Close, shownVars, engineVars
<1>9. CASE Confirm
  BY <1>9, ConfirmInserts DEF Confirm, shownVars
<1>10. CASE Execute
  BY <1>10, ExecuteInserts DEF Execute, shownVars
<1>11. CASE OnApplied
  <2>1. UNCHANGED <<read, stored, tasks, stash, grid>>
    BY <1>11 DEF OnApplied, engineVars
  <2>2. review' \in {review, NoReview} /\ shown' \in {shown, 0}
    BY <1>11 DEF OnApplied, Reset, editVars
  <2> QED
    BY <2>1, <2>2, InsertSame
<1>12. CASE Redraw
  BY <1>12, RedrawInserts
<1>13. CASE Requery
  BY <1>13, RequeryInserts DEF Requery
<1>14. ASSUME NEW table \in DOMAIN stored, NEW i \in 1..2, Foreign(table, i) PROVE Good
  BY <1>14, ForeignInserts DEF Foreign, shownVars
<1>15. CASE UNCHANGED vars
  BY <1>15, InsertSame DEF vars, shownVars, editVars, engineVars
<1> QED
  BY <1>1, <1>2, <1>3, <1>4, <1>5, <1>6, <1>7, <1>8, <1>9, <1>10, <1>11, <1>12, <1>13, <1>14, <1>15 DEF Next

\* The table with a key keeps it through every apply and every write of another session,
\* every plan deletes before it inserts and inserts before it updates, and the rows an
\* apply returned are of one key each.
THEOREM InsertInvariant == Spec => []InsertInv
<1>1. UndoInv /\ InsertInv /\ [Next]_vars => InsertInv'
  BY StepInserts
<1> QED
  BY <1>1, InsertInit, UndoInvariant, PTL DEF Spec

\* A row that was inserted is on screen once after the rerun, whether the query selects it
\* or not, for any table, any changes and any writes of another session meanwhile.
THEOREM InsertedIsShown == Spec => InsertedShown
<1>1. UndoInv /\ InsertInv /\ [Next]_vars =>
        [shown = 0 /\ shown' # 0 /\ Insertable(read) /\ read = "table" =>
           \A i \in DOMAIN stash : Cardinality({k \in DOMAIN grid' : grid'[k][1] = stash[i][1]}) = 1]_vars
  BY StepInserts, RedrawInserts
<1> QED
  BY <1>1, UndoInvariant, InsertInvariant, PTL DEF Spec, InsertedShown

================================================================================
