-------------------------- MODULE Selection_proofs --------------------------
(***************************************************************************)
(* What Select returns for every sequence: the members it should keep, no  *)
(* others, and in their order where the ones to keep come last.  Select is *)
(* a recursive function, so each fact needs that the function exists and   *)
(* then an induction over its arguments.                                   *)
(***************************************************************************)
EXTENDS Selection, Functions, FiniteSetTheorems, TLAPS

-----------------------------------------------------------------------------
(* Induction over the naturals, in the form the provers can use: a set of  *)
(* naturals has a least member.                                            *)
LEMMA Least ==
  ASSUME NEW T \in SUBSET Nat, T # {}
  PROVE  \E x \in T : \A y \in T : x <= y
<1> DEFINE D == {1 .. n : n \in T}
<1>1. D \subseteq FiniteSubsetsOf(Nat)
  <2>1. ASSUME NEW n \in T PROVE IsFiniteSet(1 .. n) /\ 1 .. n \subseteq Nat
    BY FS_Interval
  <2> QED
    BY <2>1 DEF FiniteSubsetsOf
<1>2. D # {}
  OBVIOUS
<1> HIDE DEF D
<1>3. PICK U \in D : \A V \in D : <<V, U>> \notin StrictSubsetOrdering(Nat)
  BY <1>1, <1>2, FS_StrictSubsetOrderingWellFounded, WFMin
<1>4. PICK x \in T : U = 1 .. x
  BY <1>3 DEF D
<1>5. ASSUME NEW y \in T, y < x PROVE FALSE
  <2>1. 1 .. y \in D /\ 1 .. y \subseteq 1 .. x /\ 1 .. y # 1 .. x
    BY <1>5 DEF D
  <2>2. 1 .. y \in SUBSET Nat /\ 1 .. x \in SUBSET Nat
    OBVIOUS
  <2> QED
    BY <1>3, <1>4, <2>1, <2>2 DEF StrictSubsetOrdering
<1> QED
  BY <1>5

LEMMA Reach ==
  ASSUME NEW G \in SUBSET Nat, 0 \in G, \A k \in Nat : k \in G => k + 1 \in G
  PROVE  G = Nat
<1> SUFFICES ASSUME Nat \ G # {} PROVE FALSE
  OBVIOUS
<1>1. PICK x \in Nat \ G : \A y \in Nat \ G : x <= y
  BY Least
<1>2. x # 0 /\ x - 1 \in Nat /\ x - 1 \in G
  BY <1>1
<1> QED
  BY <1>1, <1>2

-----------------------------------------------------------------------------
(* Select is SelectSeq: what it keeps and in which order.                  *)
Keeping(f, seq, S, n) ==
  f = [k \in 0 .. n |-> IF k = 0 THEN <<>>
                        ELSE IF seq[k] \in S THEN Append(f[k - 1], seq[k]) ELSE f[k - 1]]

LEMMA KeepingSteps ==
  ASSUME NEW f, NEW seq, NEW S, NEW n \in Nat, Keeping(f, seq, S, n)
  PROVE  /\ f[0] = <<>>
         /\ \A k \in 1 .. n : f[k] = IF seq[k] \in S THEN Append(f[k - 1], seq[k]) ELSE f[k - 1]
<1> DEFINE Step(k) == IF k = 0 THEN <<>>
                      ELSE IF seq[k] \in S THEN Append(f[k - 1], seq[k]) ELSE f[k - 1]
           h == [k \in 0 .. n |-> Step(k)]
<1>1. f = h
  BY DEF Keeping
<1>2. \A k \in 0 .. n : h[k] = Step(k)
  BY Zenon
<1>3. 0 \in 0 .. n /\ \A k \in 1 .. n : k \in 0 .. n /\ k # 0
  OBVIOUS
<1> HIDE DEF h
<1>4. \A k \in 0 .. n : f[k] = Step(k)
  BY <1>1, <1>2
<1> QED
  BY <1>3, <1>4, Zenon

LEMMA KeepingExists ==
  ASSUME NEW seq, NEW S, NEW n \in Nat
  PROVE  \E f : Keeping(f, seq, S, n)
<1> DEFINE G == {k \in Nat : \E f : Keeping(f, seq, S, k)}
<1>1. 0 \in G
  <2> DEFINE f == [k \in 0 .. 0 |-> <<>>]
  <2>1. Keeping(f, seq, S, 0)
    BY DEF Keeping
  <2> QED
    BY <2>1
<1>2. ASSUME NEW k \in Nat, k \in G PROVE k + 1 \in G
  <2>1. PICK f : Keeping(f, seq, S, k)
    BY <1>2
  <2> DEFINE g == [j \in 0 .. k + 1 |->
                     IF j <= k THEN f[j]
                     ELSE IF seq[j] \in S THEN Append(f[k], seq[j]) ELSE f[k]]
  <2>2. /\ \A j \in 0 .. k : g[j] = f[j]
        /\ g[k + 1] = IF seq[k + 1] \in S THEN Append(f[k], seq[k + 1]) ELSE f[k]
    OBVIOUS
  <2>3. ASSUME NEW j \in 0 .. k + 1
        PROVE  g[j] = IF j = 0 THEN <<>>
                      ELSE IF seq[j] \in S THEN Append(g[j - 1], seq[j]) ELSE g[j - 1]
    <3> HIDE DEF g
    <3>1. CASE j <= k
      <4>1. f[j] = IF j = 0 THEN <<>>
                   ELSE IF seq[j] \in S THEN Append(f[j - 1], seq[j]) ELSE f[j - 1]
        BY <2>1, <3>1, KeepingSteps
      <4>2. g[j] = f[j] /\ (j # 0 => g[j - 1] = f[j - 1])
        BY <2>2, <3>1
      <4> QED
        BY <4>1, <4>2
    <3>2. CASE j = k + 1
      <4>1. k \in 0 .. k /\ j - 1 = k /\ j # 0
        BY <3>2
      <4>2. g[j - 1] = f[k]
        BY <2>2, <4>1
      <4> QED
        BY <2>2, <3>2, <4>1, <4>2
    <3> QED
      BY <3>1, <3>2
  <2>4. Keeping(g, seq, S, k + 1)
    BY <2>3 DEF Keeping
  <2> QED
    BY <2>4
<1> HIDE DEF G
<1>3. G = Nat
  BY <1>1, <1>2, Reach DEF G
<1> QED
  BY <1>3 DEF G

LEMMA RangeOfAppend ==
  ASSUME NEW A, NEW s \in Seq(A), NEW x \in A
  PROVE  Append(s, x) \in Seq(A) /\ Range(Append(s, x)) = Range(s) \cup {x}
<1> DEFINE longer == Append(s, x)
           n == Len(s)
<1>1. /\ longer \in Seq(A) /\ n \in Nat
      /\ DOMAIN longer = 1 .. n + 1 /\ DOMAIN s = 1 .. n
      /\ longer[n + 1] = x /\ \A i \in 1 .. n : longer[i] = s[i]
  OBVIOUS
<1> HIDE DEF longer, n
<1>2. 1 .. n + 1 = (1 .. n) \cup {n + 1}
  BY <1>1
<1>3. Range(longer) = Range(s) \cup {x}
  BY <1>1, <1>2 DEF Range
<1> QED
  BY <1>1, <1>3 DEF longer

LEMMA RangeOfTail ==
  ASSUME NEW A, NEW s \in Seq(A), s # <<>>
  PROVE  Range(s) = {Head(s)} \cup Range(Tail(s))
<1> DEFINE n == Len(s)
           rest == Tail(s)
<1>1. /\ n \in Nat \ {0} /\ DOMAIN s = 1 .. n /\ Head(s) = s[1]
      /\ DOMAIN rest = 1 .. n - 1 /\ \A i \in 1 .. n - 1 : rest[i] = s[i + 1]
  OBVIOUS
<1> HIDE DEF n, rest
<1>2. \A i \in 1 .. n : i = 1 \/ (i - 1 \in 1 .. n - 1 /\ rest[i - 1] = s[i])
  BY <1>1
<1>3. \A i \in 1 .. n - 1 : i + 1 \in 1 .. n
  BY <1>1
<1>4. Range(s) \subseteq {s[1]} \cup Range(rest)
  BY <1>1, <1>2 DEF Range
<1>5. {s[1]} \cup Range(rest) \subseteq Range(s)
  BY <1>1, <1>3 DEF Range
<1> QED
  BY <1>1, <1>4, <1>5 DEF rest

LEMMA SelectIs ==
  ASSUME NEW A, NEW seq \in Seq(A), NEW S
  PROVE  /\ Select(seq, S) \in Seq(A)
         /\ Range(Select(seq, S)) = Range(seq) \cap S
<1> DEFINE n == Len(seq)
           f == CHOOSE g : Keeping(g, seq, S, n)
           Right(k) == /\ f[k] \in Seq(A)
                       /\ Range(f[k]) = {seq[i] : i \in 1 .. k} \cap S
           G == {k \in Nat : k <= n => Right(k)}
<1>1. n \in Nat /\ \A i \in 1 .. n : seq[i] \in A
  OBVIOUS
<1>2. Keeping(f, seq, S, n)
  BY <1>1, KeepingExists
<1>3. Select(seq, S) = f[n]
  BY <1>2 DEF Select, Keeping
<1>4. f[0] = <<>>
  BY <1>1, <1>2, KeepingSteps
<1>5. ASSUME NEW k \in 1 .. n
      PROVE  f[k] = IF seq[k] \in S THEN Append(f[k - 1], seq[k]) ELSE f[k - 1]
  BY <1>1, <1>2, KeepingSteps
<1> HIDE DEF f, n
<1>6. 0 \in G
  <2>1. f[0] \in Seq(A) /\ Range(f[0]) = {} /\ 1 .. 0 = {}
    BY <1>4 DEF Range
  <2> QED
    BY <2>1
<1>7. ASSUME NEW k \in Nat, k \in G PROVE k + 1 \in G
  <2> SUFFICES ASSUME k + 1 <= n PROVE Right(k + 1)
    OBVIOUS
  <2>1. Right(k)
    BY <1>1, <1>7
  <2>2. f[k + 1] = IF seq[k + 1] \in S THEN Append(f[k], seq[k + 1]) ELSE f[k]
    BY <1>1, <1>5
  <2>3. seq[k + 1] \in A
    BY <1>1
  <2>4. {seq[i] : i \in 1 .. k + 1} = {seq[i] : i \in 1 .. k} \cup {seq[k + 1]}
    OBVIOUS
  <2>5. Append(f[k], seq[k + 1]) \in Seq(A) /\ Range(Append(f[k], seq[k + 1])) = Range(f[k]) \cup {seq[k + 1]}
    BY <2>1, <2>3, RangeOfAppend
  <2> QED
    BY <2>1, <2>2, <2>4, <2>5
<1> HIDE DEF G
<1>8. G = Nat
  BY <1>6, <1>7, Reach DEF G
<1>9. Right(n)
  <2>1. n \in G
    BY <1>1, <1>8
  <2> QED
    BY <1>1, <2>1 DEF G
<1>10. Range(seq) = {seq[i] : i \in 1 .. n}
  BY DEF Range, n
<1> QED
  BY <1>3, <1>9, <1>10

(* Where the members to keep are those after the first m, the rest of seq  *)
(* is returned.                                                            *)
LEMMA EndSelected ==
  ASSUME NEW A, NEW seq \in Seq(A), NEW S, NEW m \in Nat, m <= Len(seq),
         \A k \in 1 .. Len(seq) : seq[k] \in S <=> m < k
  PROVE  /\ Select(seq, S) \in Seq(A)
         /\ Len(Select(seq, S)) = Len(seq) - m
         /\ \A k \in 1 .. Len(seq) - m : Select(seq, S)[k] = seq[m + k]
<1> DEFINE n == Len(seq)
           f == CHOOSE g : Keeping(g, seq, S, n)
           Long(k) == IF k <= m THEN 0 ELSE k - m
           Right(k) == /\ f[k] \in Seq(A)
                       /\ Len(f[k]) = Long(k)
                       /\ \A j \in 1 .. Long(k) : f[k][j] = seq[m + j]
           G == {k \in Nat : k <= n => Right(k)}
<1>1. n \in Nat /\ \A i \in 1 .. n : seq[i] \in A
  OBVIOUS
<1>2. Keeping(f, seq, S, n)
  BY <1>1, KeepingExists
<1>3. Select(seq, S) = f[n]
  BY <1>2 DEF Select, Keeping
<1>4. f[0] = <<>>
  BY <1>1, <1>2, KeepingSteps
<1>5. ASSUME NEW k \in 1 .. n
      PROVE  f[k] = IF m < k THEN Append(f[k - 1], seq[k]) ELSE f[k - 1]
  BY <1>1, <1>2, KeepingSteps
<1> HIDE DEF f
<1>6. 0 \in G
  <2>1. f[0] \in Seq(A) /\ Len(f[0]) = 0 /\ Long(0) = 0 /\ 1 .. 0 = {}
    BY <1>4
  <2> HIDE DEF Long
  <2>2. Right(0)
    BY <2>1
  <2> QED
    BY <2>2
<1>7. ASSUME NEW k \in Nat, k \in G PROVE k + 1 \in G
  <2> SUFFICES ASSUME k + 1 <= n PROVE Right(k + 1)
    OBVIOUS
  <2>1. Right(k)
    BY <1>1, <1>7
  <2>2. f[k + 1] = IF m < k + 1 THEN Append(f[k], seq[k + 1]) ELSE f[k]
    BY <1>1, <1>5
  <2>3. CASE k + 1 <= m
    BY <2>1, <2>2, <2>3
  <2>4. CASE m < k + 1
    <3> DEFINE s == f[k]
               x == seq[k + 1]
    <3>1. s \in Seq(A) /\ x \in A /\ Len(s) = k - m /\ \A j \in 1 .. k - m : s[j] = seq[m + j]
      BY <1>1, <2>1, <2>4
    <3>2. f[k + 1] = Append(s, x) /\ Long(k + 1) = k - m + 1 /\ m + (k - m + 1) = k + 1
      BY <2>2, <2>4
    <3> HIDE DEF s
    <3>3. /\ Append(s, x) \in Seq(A) /\ Len(Append(s, x)) = k - m + 1
          /\ Append(s, x)[k - m + 1] = x
          /\ \A j \in 1 .. k - m : Append(s, x)[j] = s[j]
      BY <3>1
    <3>4. \A j \in 1 .. k - m + 1 : j \in 1 .. k - m \/ j = k - m + 1
      BY <3>1
    <3> QED
      BY <3>1, <3>2, <3>3, <3>4
  <2> QED
    BY <1>1, <2>3, <2>4
<1> HIDE DEF G
<1>8. G = Nat
  BY <1>6, <1>7, Reach DEF G
<1>9. Right(n)
  <2>1. n \in G
    BY <1>1, <1>8
  <2> QED
    BY <1>1, <2>1 DEF G
<1>10. Long(n) = n - m
  BY <1>1
<1> QED
  BY <1>3, <1>9, <1>10

(* All of it is kept, or nothing.                                          *)
LEMMA SelectAll ==
  ASSUME NEW A, NEW seq \in Seq(A), NEW S, Range(seq) \subseteq S
  PROVE  Select(seq, S) = seq
<1> DEFINE n == Len(seq)
           kept == Select(seq, S)
<1>1. n \in Nat /\ seq = [k \in 1 .. n |-> seq[k]]
  OBVIOUS
<1>2. \A k \in 1 .. n : seq[k] \in S <=> 0 < k
  BY <1>1 DEF Range
<1>3. kept \in Seq(A) /\ Len(kept) = n - 0 /\ \A k \in 1 .. n - 0 : kept[k] = seq[0 + k]
  BY <1>1, <1>2, EndSelected
<1> HIDE DEF kept, n
<1>4. n - 0 = n /\ \A k \in 1 .. n : 0 + k = k
  BY <1>1
<1>5. Len(kept) = n /\ \A k \in 1 .. n : kept[k] = seq[k]
  BY <1>3, <1>4
<1>6. kept = [k \in 1 .. n |-> kept[k]]
  BY <1>3, <1>5
<1> QED
  BY <1>1, <1>5, <1>6 DEF kept

LEMMA SelectNone ==
  ASSUME NEW A, NEW seq \in Seq(A), NEW S, Range(seq) \cap S = {}
  PROVE  Select(seq, S) = <<>>
<1> DEFINE kept == Select(seq, S)
           n == Len(kept)
<1>1. kept \in Seq(A) /\ Range(kept) = {}
  BY SelectIs
<1> HIDE DEF kept
<1>2. n \in Nat /\ DOMAIN kept = 1 .. n
  BY <1>1
<1>3. n = 0
  <2>1. n > 0 => kept[1] \in Range(kept)
    BY <1>2 DEF Range
  <2> QED
    BY <1>1, <1>2, <2>1
<1> QED
  BY <1>1, <1>3 DEF kept

(* A selection that is as long as the rest of the sequence is that rest.   *)
LEMMA LongSelected ==
  ASSUME NEW A, NEW seq \in Seq(A), NEW S, NEW m \in Nat, m <= Len(seq),
         \A k \in 1 .. m : seq[k] \notin S, Len(Select(seq, S)) = Len(seq) - m
  PROVE  \A k \in m + 1 .. Len(seq) : seq[k] \in S
<1> DEFINE n == Len(seq)
           f == CHOOSE g : Keeping(g, seq, S, n)
           Long(k) == IF k <= m THEN 0 ELSE k - m
           Right(k) == /\ f[k] \in Seq(A) /\ Len(f[k]) <= Long(k)
                       /\ Len(f[k]) = Long(k) => \A j \in m + 1 .. k : seq[j] \in S
           G == {k \in Nat : k <= n => Right(k)}
<1>1. n \in Nat /\ \A i \in 1 .. n : seq[i] \in A
  OBVIOUS
<1>2. Keeping(f, seq, S, n)
  BY <1>1, KeepingExists
<1>3. Select(seq, S) = f[n]
  BY <1>2 DEF Select, Keeping
<1>4. f[0] = <<>>
  BY <1>1, <1>2, KeepingSteps
<1>5. ASSUME NEW k \in 1 .. n
      PROVE  f[k] = IF seq[k] \in S THEN Append(f[k - 1], seq[k]) ELSE f[k - 1]
  BY <1>1, <1>2, KeepingSteps
<1> HIDE DEF f
<1>6. 0 \in G
  <2>1. f[0] \in Seq(A) /\ Len(f[0]) = 0 /\ Long(0) = 0 /\ m + 1 .. 0 = {}
    BY <1>4
  <2> QED
    BY <2>1
<1>7. ASSUME NEW k \in Nat, k \in G PROVE k + 1 \in G
  <2> SUFFICES ASSUME k + 1 <= n PROVE Right(k + 1)
    OBVIOUS
  <2>1. Right(k)
    BY <1>1, <1>7
  <2>2. f[k + 1] = IF seq[k + 1] \in S THEN Append(f[k], seq[k + 1]) ELSE f[k]
    BY <1>1, <1>5
  <2> DEFINE s == f[k]
             x == seq[k + 1]
             longer == Append(s, x)
  <2>3. s \in Seq(A) /\ x \in A /\ Len(s) \in Nat /\ Len(s) <= Long(k)
    BY <1>1, <2>1
  <2>4. longer \in Seq(A) /\ Len(longer) = Len(s) + 1
    BY <2>3
  <2>5. CASE k + 1 <= m
    <3>1. x \notin S /\ Long(k) = 0 /\ Long(k + 1) = 0 /\ m + 1 .. k + 1 = {}
      BY <2>5
    <3> QED
      BY <2>2, <2>3, <3>1
  <2>6. CASE m < k + 1
    <3>1. Long(k) = k - m /\ Long(k + 1) = k + 1 - m /\ m + 1 .. k + 1 = (m + 1 .. k) \cup {k + 1}
      BY <2>6
    <3>2. CASE x \in S
      <4>1. f[k + 1] = longer
        BY <2>2, <3>2
      <4> HIDE DEF longer, s, f
      <4>2. Len(longer) = k + 1 - m => Len(s) = k - m
        BY <2>3, <2>4, <3>1
      <4>3. Len(longer) = k + 1 - m => \A j \in m + 1 .. k : seq[j] \in S
        BY <2>1, <3>1, <4>2 DEF s
      <4>4. Len(longer) <= k + 1 - m
        BY <2>3, <2>4, <2>6, <3>1
      <4> QED
        BY <2>4, <3>1, <3>2, <4>1, <4>3, <4>4
    <3>3. CASE x \notin S
      <4>1. f[k + 1] = s
        BY <2>2, <3>3
      <4> HIDE DEF s, f
      <4>2. Len(s) <= k - m /\ Len(s) # k + 1 - m
        BY <2>3, <2>6, <3>1
      <4> QED
        BY <2>3, <3>1, <4>1, <4>2
    <3> QED
      BY <3>2, <3>3
  <2> QED
    BY <1>1, <2>5, <2>6
<1> HIDE DEF G
<1>8. G = Nat
  BY <1>6, <1>7, Reach DEF G
<1>9. Right(n)
  <2>1. n \in G
    BY <1>1, <1>8
  <2> QED
    BY <1>1, <2>1 DEF G
<1>10. Long(n) = n - m
  BY <1>1
<1> QED
  BY <1>3, <1>9, <1>10
=============================================================================
