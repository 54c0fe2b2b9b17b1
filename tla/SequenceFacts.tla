--------------------------- MODULE SequenceFacts ---------------------------
(***************************************************************************)
(* Facts about the sequences the queues and channels of the models are       *)
(* made of: what appending at the back, committing from the front and        *)
(* evicting from the middle do to the elements and to their order; and about *)
(* the sums the slots of an inbox and the weight of a queue are.             *)
(***************************************************************************)
EXTENDS Integers, Sequences, SequencesExt, SequenceTheorems, FiniteSetTheorems, TLAPS

\* The elements of s grow from the head to the back.
Ascending(s) == \A i, j \in 1..Len(s) : i < j => s[i] < s[j]

\* Every member of S is below every member of T.
Precedes(S, T) == \A x \in S, y \in T : x < y

\* ToSet, by the positions of the sequence.
LEMMA ToSetByIndex ==
  ASSUME NEW S, NEW s \in Seq(S)
  PROVE  /\ ToSet(s) = {s[i] : i \in 1..Len(s)}
         /\ ToSet(s) \subseteq S
         /\ \A x : x \in ToSet(s) <=> \E i \in 1..Len(s) : x = s[i]
BY DEF ToSet

\* Nothing is in an empty sequence, and only an empty one has nothing in it.
LEMMA ToSetEmpty ==
  ASSUME NEW S, NEW s \in Seq(S)
  PROVE  s = <<>> <=> ToSet(s) = {}
<1>1. s = <<>> <=> Len(s) = 0
  OBVIOUS
<1>2. s # <<>> => s[1] \in ToSet(s)
  BY <1>1, ToSetByIndex
<1>3. ASSUME NEW x \in ToSet(s) PROVE s # <<>>
  <2>1. PICK i \in 1..Len(s) : x = s[i]
    BY ToSetByIndex
  <2> QED
    BY <1>1, <2>1
<1> QED
  BY <1>2, <1>3

\* A channel or a log that grows at the back.
LEMMA AppendFacts ==
  ASSUME NEW S, NEW s \in Seq(S), NEW x \in S
  PROVE  /\ Append(s, x) \in Seq(S) /\ Len(Append(s, x)) = Len(s) + 1
         /\ \A i \in 1..Len(s) : Append(s, x)[i] = s[i]
         /\ Append(s, x)[Len(s) + 1] = x
         /\ ToSet(Append(s, x)) = ToSet(s) \cup {x}
<1> DEFINE t == Append(s, x)
<1>1. /\ t \in Seq(S) /\ Len(t) = Len(s) + 1 /\ t[Len(s) + 1] = x
      /\ \A i \in 1..Len(s) : t[i] = s[i]
  OBVIOUS
<1>2. \A y : y \in ToSet(t) <=> \E i \in 1..Len(t) : y = t[i]
  BY <1>1, ToSetByIndex
<1>3. \A y : y \in ToSet(s) <=> \E i \in 1..Len(s) : y = s[i]
  BY ToSetByIndex
<1>4. 1..Len(t) = 1..Len(s) \cup {Len(s) + 1} /\ Len(s) \in Nat
  BY <1>1
<1> HIDE DEF t
<1>5. ToSet(t) = ToSet(s) \cup {x}
  <2>1. ASSUME NEW y PROVE y \in ToSet(t) <=> y \in ToSet(s) \/ y = x
    BY <1>1, <1>2, <1>3, <1>4
  <2> QED
    BY <2>1
<1> QED
  BY <1>1, <1>5 DEF t

\* An element above the others keeps a sequence ascending.
LEMMA AppendAscending ==
  ASSUME NEW S \in SUBSET Int, NEW s \in Seq(S), NEW x \in S, Ascending(s), Precedes(ToSet(s), {x})
  PROVE  Ascending(Append(s, x))
<1>1. \A i \in 1..Len(s) : s[i] < x
  BY ToSetByIndex DEF Precedes
<1>2. /\ Len(Append(s, x)) = Len(s) + 1 /\ Append(s, x)[Len(s) + 1] = x
      /\ \A i \in 1..Len(s) : Append(s, x)[i] = s[i]
  BY AppendFacts
<1> QED
  BY <1>1, <1>2 DEF Ascending

\* What is left of a channel after its head is received.
LEMMA TailFacts ==
  ASSUME NEW S, NEW s \in Seq(S), s # <<>>
  PROVE  /\ Head(s) \in S /\ Head(s) = s[1] /\ Tail(s) \in Seq(S) /\ Len(Tail(s)) = Len(s) - 1
         /\ \A i \in 1..(Len(s) - 1) : Tail(s)[i] = s[i + 1]
         /\ ToSet(s) = {Head(s)} \cup ToSet(Tail(s))
<1> DEFINE t == Tail(s)
<1>1. /\ Head(s) \in S /\ Head(s) = s[1] /\ t \in Seq(S) /\ Len(t) = Len(s) - 1
      /\ \A i \in 1..(Len(s) - 1) : t[i] = s[i + 1]
  OBVIOUS
<1>2. Len(s) \in Nat /\ Len(s) > 0
  OBVIOUS
<1> HIDE DEF t
<1>3. \A y : y \in ToSet(t) <=> \E i \in 1..Len(t) : y = t[i]
  BY <1>1, ToSetByIndex
<1>4. \A y : y \in ToSet(s) <=> \E i \in 1..Len(s) : y = s[i]
  BY ToSetByIndex
<1>5. ASSUME NEW y \in ToSet(s) PROVE y = s[1] \/ y \in ToSet(t)
  <2>1. PICK i \in 1..Len(s) : y = s[i]
    BY <1>4
  <2>2. CASE i = 1
    BY <2>1, <2>2
  <2>3. CASE i > 1
    <3>1. i - 1 \in 1..Len(t) /\ t[i - 1] = s[i]
      BY <1>1, <1>2, <2>3
    <3> QED
      BY <1>3, <2>1, <3>1
  <2> QED
    BY <2>2, <2>3
<1>6. ASSUME NEW y \in ToSet(t) PROVE y \in ToSet(s)
  <2>1. PICK i \in 1..Len(t) : y = t[i]
    BY <1>3
  <2>2. i + 1 \in 1..Len(s) /\ t[i] = s[i + 1]
    BY <1>1, <1>2
  <2> QED
    BY <1>4, <2>1, <2>2
<1>7. s[1] \in ToSet(s)
  BY <1>2, <1>4
<1>8. ToSet(s) = {Head(s)} \cup ToSet(t)
  BY <1>1, <1>5, <1>6, <1>7
<1> QED
  BY <1>1, <1>8 DEF t

\* The head of an ascending channel is below the rest.
LEMMA TailAscending ==
  ASSUME NEW S \in SUBSET Int, NEW s \in Seq(S), s # <<>>, Ascending(s)
  PROVE  Ascending(Tail(s)) /\ Precedes({Head(s)}, ToSet(Tail(s)))
<1> DEFINE t == Tail(s)
<1>1. /\ Head(s) = s[1] /\ t \in Seq(S) /\ Len(t) = Len(s) - 1
      /\ \A i \in 1..(Len(s) - 1) : t[i] = s[i + 1]
  BY TailFacts
<1>2. Len(s) \in Nat /\ Len(s) > 0
  OBVIOUS
<1> HIDE DEF t
<1>3. \A y : y \in ToSet(t) <=> \E i \in 1..Len(t) : y = t[i]
  BY <1>1, ToSetByIndex
<1>4. Ascending(t)
  <2> SUFFICES ASSUME NEW i \in 1..Len(t), NEW j \in 1..Len(t), i < j PROVE t[i] < t[j]
    BY DEF Ascending
  <2>1. i + 1 \in 1..Len(s) /\ j + 1 \in 1..Len(s) /\ i + 1 < j + 1
    BY <1>1, <1>2
  <2>2. t[i] = s[i + 1] /\ t[j] = s[j + 1]
    BY <1>1
  <2> QED
    BY <2>1, <2>2 DEF Ascending
<1>5. ASSUME NEW j \in 1..Len(t) PROVE s[1] < t[j]
  <2>1. 1 \in 1..Len(s) /\ j + 1 \in 1..Len(s) /\ 1 < j + 1 /\ t[j] = s[j + 1]
    BY <1>1, <1>2
  <2> QED
    BY <2>1 DEF Ascending
<1>6. Precedes({Head(s)}, ToSet(t))
  BY <1>1, <1>3, <1>5 DEF Precedes
<1> QED
  BY <1>4, <1>6 DEF t

\* What is left after the first k elements are taken from the front.
LEMMA RestFacts ==
  ASSUME NEW S, NEW s \in Seq(S), NEW k \in 0..Len(s)
  PROVE  LET t == SubSeq(s, k + 1, Len(s)) IN
         /\ t \in Seq(S) /\ Len(t) = Len(s) - k
         /\ \A i \in 1..(Len(s) - k) : t[i] = s[i + k]
         /\ ToSet(s) = ToSet(t) \cup {s[i] : i \in 1..k}
<1> DEFINE t == SubSeq(s, k + 1, Len(s))
<1>1. t \in Seq(S) /\ Len(t) = Len(s) - k /\ \A i \in 1..(Len(s) - k) : t[i] = s[i + k]
  OBVIOUS
<1> HIDE DEF t
<1>2. \A y : y \in ToSet(t) <=> \E i \in 1..Len(t) : y = t[i]
  BY <1>1, ToSetByIndex
<1>3. \A y : y \in ToSet(s) <=> \E i \in 1..Len(s) : y = s[i]
  BY ToSetByIndex
<1>4. ASSUME NEW y PROVE y \in ToSet(s) <=> y \in ToSet(t) \/ \E i \in 1..k : y = s[i]
  <2>1. ASSUME NEW i \in 1..Len(s), y = s[i]
        PROVE  y \in ToSet(t) \/ \E j \in 1..k : y = s[j]
    <3>1. CASE i <= k
      BY <2>1, <3>1
    <3>2. CASE i > k
      <4>1. i - k \in 1..Len(t) /\ t[i - k] = s[i]
        BY <1>1, <3>2
      <4> QED
        BY <1>2, <2>1, <4>1
    <3> QED
      BY <3>1, <3>2
  <2>2. ASSUME NEW i \in 1..Len(t), y = t[i]
        PROVE  y \in ToSet(s)
    <3>1. i + k \in 1..Len(s) /\ t[i] = s[i + k]
      BY <1>1
    <3> QED
      BY <1>3, <2>2, <3>1
  <2>3. ASSUME NEW i \in 1..k, y = s[i]
        PROVE  y \in ToSet(s)
    BY <1>3, <2>3
  <2> QED
    BY <1>2, <1>3, <2>1, <2>2, <2>3
<1>5. ToSet(s) = ToSet(t) \cup {s[i] : i \in 1..k}
  BY <1>4
<1> QED
  BY <1>1, <1>5 DEF t

\* What was taken from the front of an ascending sequence is below the rest.
LEMMA RestAscending ==
  ASSUME NEW S \in SUBSET Int, NEW s \in Seq(S), NEW k \in 0..Len(s), Ascending(s)
  PROVE  LET t == SubSeq(s, k + 1, Len(s)) IN
         /\ Ascending(t)
         /\ Precedes({s[i] : i \in 1..k}, ToSet(t))
<1> DEFINE t == SubSeq(s, k + 1, Len(s))
<1>1. t \in Seq(S) /\ Len(t) = Len(s) - k /\ \A i \in 1..(Len(s) - k) : t[i] = s[i + k]
  BY RestFacts
<1> HIDE DEF t
<1>2. \A y : y \in ToSet(t) <=> \E i \in 1..Len(t) : y = t[i]
  BY <1>1, ToSetByIndex
<1>3. Ascending(t)
  <2> SUFFICES ASSUME NEW i \in 1..Len(t), NEW j \in 1..Len(t), i < j PROVE t[i] < t[j]
    BY DEF Ascending
  <2>1. i + k \in 1..Len(s) /\ j + k \in 1..Len(s) /\ i + k < j + k
    BY <1>1
  <2> QED
    BY <1>1, <2>1 DEF Ascending
<1>4. ASSUME NEW i \in 1..k, NEW j \in 1..Len(t) PROVE s[i] < t[j]
  <2>1. i \in 1..Len(s) /\ j + k \in 1..Len(s) /\ i < j + k /\ t[j] = s[j + k]
    BY <1>1
  <2> QED
    BY <2>1 DEF Ascending
<1>5. Precedes({s[i] : i \in 1..k}, ToSet(t))
  BY <1>2, <1>4 DEF Precedes
<1> QED
  BY <1>3, <1>5 DEF t

\* s with the k elements after its first r evicted and x at the back.
Readmit(s, r, k, x) == SubSeq(s, 1, r) \o SubSeq(s, r + k + 1, Len(s)) \o <<x>>

\* The k elements of s after its first r.
Middle(s, r, k) == {s[r + i] : i \in 1..k}

\* What an eviction past a protected prefix leaves, position by position.
LEMMA ReadmitFacts ==
  ASSUME NEW S, NEW s \in Seq(S), NEW x \in S, NEW r \in Nat, NEW k \in Nat, r + k <= Len(s)
  PROVE  /\ Readmit(s, r, k, x) \in Seq(S)
         /\ Len(Readmit(s, r, k, x)) = Len(s) - k + 1
         /\ \A i \in 1..r : Readmit(s, r, k, x)[i] = s[i]
         /\ \A i \in (r + 1)..(Len(s) - k) : Readmit(s, r, k, x)[i] = s[i + k]
         /\ Readmit(s, r, k, x)[Len(s) - k + 1] = x
         /\ ToSet(Readmit(s, r, k, x)) \cup Middle(s, r, k) = ToSet(s) \cup {x}
<1> DEFINE t == Readmit(s, r, k, x)
           a == SubSeq(s, 1, r)
           b == SubSeq(s, r + k + 1, Len(s))
<1>1. a \in Seq(S) /\ Len(a) = r /\ \A i \in 1..r : a[i] = s[i]
  OBVIOUS
<1>2. b \in Seq(S) /\ Len(b) = Len(s) - r - k /\ \A i \in 1..Len(b) : b[i] = s[i + r + k]
  BY SMTT(30)
<1>3. t = (a \o b) \o <<x>>
  BY DEF Readmit
<1>0. Len(s) \in Nat
  OBVIOUS
<1> HIDE DEF a, b, t
<1>4. /\ a \o b \in Seq(S) /\ Len(a \o b) = Len(s) - k
      /\ \A i \in 1..r : (a \o b)[i] = s[i]
      /\ \A i \in (r + 1)..(Len(s) - k) : (a \o b)[i] = s[i + k]
  <2>a. a \in Seq(S) /\ b \in Seq(S)
    BY <1>1, <1>2
  <2>0. a \o b \in Seq(S) /\ Len(a \o b) = Len(a) + Len(b)
    BY <2>a, ConcatProperties
  <2>1. a \o b \in Seq(S) /\ Len(a \o b) = Len(s) - k
    BY <1>0, <1>1, <1>2, <2>0
  <2>2. \A i \in 1..r : (a \o b)[i] = s[i]
    BY <1>1, <1>2
  <2>3. ASSUME NEW i \in (r + 1)..(Len(s) - k) PROVE (a \o b)[i] = s[i + k]
    <3>1. (a \o b)[i] = b[i - r] /\ i - r \in 1..Len(b)
      BY <1>1, <1>2
    <3>2. (i - r) + r + k = i + k
      OBVIOUS
    <3> QED
      BY <1>2, <3>1, <3>2
  <2> QED
    BY <2>1, <2>2, <2>3
<1> DEFINE c == a \o b
<1>5. c \in Seq(S) /\ t = c \o <<x>> /\ Len(c) = Len(s) - k
  BY <1>3, <1>4
<1>6. /\ \A i \in 1..r : c[i] = s[i]
      /\ \A i \in (r + 1)..(Len(s) - k) : c[i] = s[i + k]
  BY <1>4
<1> HIDE DEF c
<1>7. t \in Seq(S) /\ Len(t) = Len(c) + 1 /\ t[Len(c) + 1] = x /\ \A i \in 1..Len(c) : t[i] = c[i]
  BY <1>5
<1>8. /\ t \in Seq(S) /\ Len(t) = Len(s) - k + 1
      /\ t[Len(s) - k + 1] = x
      /\ \A i \in 1..r : t[i] = s[i]
      /\ \A i \in (r + 1)..(Len(s) - k) : t[i] = s[i + k]
  BY <1>5, <1>6, <1>7
<1>9. ToSet(t) \cup {s[r + i] : i \in 1..k} = ToSet(s) \cup {x}
  <2>1. \A y : y \in ToSet(t) <=> \E i \in 1..Len(t) : y = t[i]
    BY <1>8, ToSetByIndex
  <2>2. \A y : y \in ToSet(s) <=> \E i \in 1..Len(s) : y = s[i]
    BY ToSetByIndex
  <2>3. ASSUME NEW i \in 1..Len(t) PROVE t[i] \in ToSet(s) \cup {x}
    <3>1. CASE i \in 1..r
      BY <1>8, <2>2, <3>1
    <3>2. CASE i \in (r + 1)..(Len(s) - k)
      <4>1. i + k \in 1..Len(s) /\ t[i] = s[i + k]
        BY <1>8, <3>2
      <4> QED
        BY <2>2, <4>1
    <3>3. CASE i = Len(s) - k + 1
      BY <1>8, <3>3
    <3> QED
      BY <1>8, <3>1, <3>2, <3>3
  <2>4. ASSUME NEW i \in 1..k PROVE s[r + i] \in ToSet(s)
    <3>1. r + i \in 1..Len(s)
      OBVIOUS
    <3> QED
      BY <2>2, <3>1
  <2>5. ASSUME NEW i \in 1..Len(s) PROVE s[i] \in ToSet(t) \cup {s[r + j] : j \in 1..k}
    <3>1. CASE i <= r
      <4>1. i \in 1..Len(t) /\ t[i] = s[i]
        BY <1>8, <3>1
      <4> QED
        BY <2>1, <4>1
    <3>2. CASE i > r /\ i <= r + k
      <4>1. i - r \in 1..k /\ r + (i - r) = i
        BY <3>2
      <4> QED
        BY <4>1
    <3>3. CASE i > r + k
      <4>1. i - k \in 1..Len(t) /\ i - k \in (r + 1)..(Len(s) - k) /\ (i - k) + k = i
        BY <1>8, <3>3
      <4>2. t[i - k] = s[i]
        BY <1>8, <4>1
      <4> QED
        BY <2>1, <4>1, <4>2
    <3> QED
      BY <3>1, <3>2, <3>3
  <2>6. x \in ToSet(t)
    BY <1>8, <2>1
  <2>7. ToSet(t) \subseteq ToSet(s) \cup {x}
    BY <2>1, <2>3
  <2>8. ASSUME NEW y \in ToSet(s) PROVE y \in ToSet(t) \cup {s[r + j] : j \in 1..k}
    <3>1. PICK i \in 1..Len(s) : y = s[i]
      BY <2>2
    <3> QED
      BY <2>5, <3>1
  <2>9. {s[r + j] : j \in 1..k} \subseteq ToSet(s)
    BY <2>4
  <2> QED
    BY <2>6, <2>7, <2>8, <2>9
<1> QED
  BY <1>8, <1>9 DEF t, Middle

\* Evicting keeps an ascending sequence ascending, and what was evicted is gone.
LEMMA ReadmitAscending ==
  ASSUME NEW S \in SUBSET Int, NEW s \in Seq(S), NEW x \in S, NEW r \in Nat, NEW k \in Nat, r + k <= Len(s),
         Ascending(s), Precedes(ToSet(s), {x})
  PROVE  /\ Ascending(Readmit(s, r, k, x))
         /\ ToSet(Readmit(s, r, k, x)) \cap Middle(s, r, k) = {}
<1>0. Len(s) \in Nat
  OBVIOUS
<1> DEFINE t == Readmit(s, r, k, x)
<1>1. /\ t \in Seq(S) /\ Len(t) = Len(s) - k + 1
      /\ t[Len(s) - k + 1] = x
      /\ \A i \in 1..r : t[i] = s[i]
      /\ \A i \in (r + 1)..(Len(s) - k) : t[i] = s[i + k]
  BY ReadmitFacts
<1> HIDE DEF t
<1>11. Len(t) \in Nat /\ Len(t) = Len(s) - k + 1
  BY <1>1
<1>2. \A i \in 1..Len(s) : s[i] < x /\ s[i] \in Int
  BY ToSetByIndex DEF Precedes
<1> DEFINE pos(i) == IF i <= r THEN i ELSE i + k
<1>3. \A i \in 1..(Len(s) - k) : pos(i) \in 1..Len(s) /\ t[i] = s[pos(i)]
  BY <1>1
<1>4. \A i, j \in 1..(Len(s) - k) : i < j => pos(i) < pos(j)
  OBVIOUS
<1>5. \A i \in 1..(Len(s) - k), j \in 1..k : pos(i) # r + j
  OBVIOUS
<1>6. \A i \in 1..Len(s), j \in 1..Len(s) : i # j => s[i] # s[j]
  BY <1>2 DEF Ascending
<1> HIDE DEF pos
<1>7. Ascending(t)
  <2> SUFFICES ASSUME NEW i \in 1..Len(t), NEW j \in 1..Len(t), i < j PROVE t[i] < t[j]
    BY DEF Ascending
  <2>1. i \in 1..(Len(s) - k)
    BY <1>1
  <2>2. CASE j = Len(s) - k + 1
    BY <1>1, <1>2, <1>3, <2>1, <2>2
  <2>3. CASE j \in 1..(Len(s) - k)
    <3>1. /\ t[i] = s[pos(i)] /\ t[j] = s[pos(j)] /\ pos(i) < pos(j)
          /\ pos(i) \in 1..Len(s) /\ pos(j) \in 1..Len(s)
      BY <1>3, <1>4, <2>1, <2>3
    <3> QED
      BY <3>1 DEF Ascending
  <2>4. j = Len(s) - k + 1 \/ j \in 1..(Len(s) - k)
    BY <1>0, <1>11
  <2> QED
    BY <2>2, <2>3, <2>4
<1>8. ASSUME NEW i \in 1..Len(t), NEW j \in 1..k PROVE t[i] # s[r + j]
  <2>1. r + j \in 1..Len(s)
    OBVIOUS
  <2>2. CASE i = Len(s) - k + 1
    <3>1. t[i] = x /\ s[r + j] < x /\ s[r + j] \in Int
      BY <1>1, <1>2, <2>1, <2>2
    <3> QED
      BY <3>1
  <2>3. CASE i \in 1..(Len(s) - k)
    BY <1>3, <1>5, <1>6, <2>1, <2>3
  <2>4. i = Len(s) - k + 1 \/ i \in 1..(Len(s) - k)
    BY <1>0, <1>11
  <2> QED
    BY <2>2, <2>3, <2>4
<1>9. \A y : y \in ToSet(t) <=> \E i \in 1..Len(t) : y = t[i]
  BY <1>1, ToSetByIndex
<1>10. ToSet(t) \cap {s[r + i] : i \in 1..k} = {}
  BY <1>8, <1>9, SMTT(30) DEF t
<1> QED
  BY <1>7, <1>10 DEF t, Middle
\* What two sequences hold together.
LEMMA ConcatSet ==
  ASSUME NEW S, NEW s \in Seq(S), NEW t \in Seq(S)
  PROVE  s \o t \in Seq(S) /\ ToSet(s \o t) = ToSet(s) \cup ToSet(t)
<1> DEFINE u == s \o t
<1>1. u \in Seq(S) /\ Len(u) = Len(s) + Len(t)
  BY ConcatProperties
<1>2. \A i \in 1..Len(s) : u[i] = s[i]
  BY ConcatProperties
<1>3. \A i \in 1..Len(t) : u[Len(s) + i] = t[i]
  OBVIOUS
<1>4. Len(s) \in Nat /\ Len(t) \in Nat
  OBVIOUS
<1> HIDE DEF u
<1>5. \A y : y \in ToSet(u) <=> \E i \in 1..Len(u) : y = u[i]
  BY <1>1, ToSetByIndex
<1>6. \A y : y \in ToSet(s) <=> \E i \in 1..Len(s) : y = s[i]
  BY ToSetByIndex
<1>7. \A y : y \in ToSet(t) <=> \E i \in 1..Len(t) : y = t[i]
  BY ToSetByIndex
<1>8. ASSUME NEW i \in 1..Len(u) PROVE u[i] \in ToSet(s) \cup ToSet(t)
  <2>1. CASE i <= Len(s)
    BY <1>2, <1>6, <2>1
  <2>2. CASE i > Len(s)
    <3>1. i - Len(s) \in 1..Len(t) /\ Len(s) + (i - Len(s)) = i
      BY <1>1, <1>4, <2>2
    <3> QED
      BY <1>3, <1>7, <3>1
  <2> QED
    BY <1>4, <2>1, <2>2
<1>9. ASSUME NEW i \in 1..Len(s) PROVE s[i] \in ToSet(u)
  <2>1. i \in 1..Len(u)
    BY <1>1, <1>4
  <2> QED
    BY <1>2, <1>5, <2>1
<1>10. ASSUME NEW i \in 1..Len(t) PROVE t[i] \in ToSet(u)
  <2>1. Len(s) + i \in 1..Len(u)
    BY <1>1, <1>4
  <2> QED
    BY <1>3, <1>5, <2>1
<1>11. ToSet(u) = ToSet(s) \cup ToSet(t)
  BY <1>5, <1>6, <1>7, <1>8, <1>9, <1>10
<1> QED
  BY <1>1, <1>11 DEF u

\* Two sequences without repetition and with nothing in common.
LEMMA ConcatInjective ==
  ASSUME NEW S, NEW s \in Seq(S), NEW t \in Seq(S), IsInjective(s), IsInjective(t),
         ToSet(s) \cap ToSet(t) = {}
  PROVE  IsInjective(s \o t)
<1> DEFINE u == s \o t
<1>1. u \in Seq(S) /\ Len(u) = Len(s) + Len(t) /\ DOMAIN u = 1..Len(u)
  BY ConcatProperties
<1>2. \A i \in 1..Len(s) : u[i] = s[i]
  BY ConcatProperties
<1>3. \A i \in 1..Len(t) : u[Len(s) + i] = t[i]
  OBVIOUS
<1>4. Len(s) \in Nat /\ Len(t) \in Nat /\ DOMAIN s = 1..Len(s) /\ DOMAIN t = 1..Len(t)
  OBVIOUS
<1> HIDE DEF u
<1>5. \A i \in 1..Len(s) : s[i] \in ToSet(s)
  BY ToSetByIndex
<1>6. \A i \in 1..Len(t) : t[i] \in ToSet(t)
  BY ToSetByIndex
<1>7. \A i \in 1..Len(s), j \in 1..Len(t) : s[i] # t[j]
  BY <1>5, <1>6
<1>8. \A i, j \in 1..Len(s) : s[i] = s[j] => i = j
  BY <1>4 DEF IsInjective
<1>9. \A i, j \in 1..Len(t) : t[i] = t[j] => i = j
  BY <1>4 DEF IsInjective
<1>10. ASSUME NEW i \in 1..Len(u), i > Len(s)
       PROVE  i - Len(s) \in 1..Len(t) /\ u[i] = t[i - Len(s)]
  <2>1. i - Len(s) \in 1..Len(t) /\ Len(s) + (i - Len(s)) = i
    BY <1>1, <1>4, <1>10
  <2> QED
    BY <1>3, <2>1
<1>11. ASSUME NEW i \in 1..Len(u), NEW j \in 1..Len(u), u[i] = u[j] PROVE i = j
  <2>1. CASE i <= Len(s) /\ j <= Len(s)
    BY <1>2, <1>8, <1>11, <2>1
  <2>2. CASE i <= Len(s) /\ j > Len(s)
    BY <1>2, <1>7, <1>10, <1>11, <2>2
  <2>3. CASE i > Len(s) /\ j <= Len(s)
    BY <1>2, <1>7, <1>10, <1>11, <2>3
  <2>4. CASE i > Len(s) /\ j > Len(s)
    <3>1. i - Len(s) = j - Len(s)
      BY <1>9, <1>10, <1>11, <2>4
    <3> QED
      BY <1>4, <3>1
  <2> QED
    BY <1>4, <2>1, <2>2, <2>3, <2>4
<1>12. IsInjective(u)
  BY <1>1, <1>11 DEF IsInjective
<1> QED
  BY <1>12 DEF u

\* An ascending sequence repeats nothing.
LEMMA AscendingInjective ==
  ASSUME NEW S \in SUBSET Int, NEW s \in Seq(S), Ascending(s)
  PROVE  IsInjective(s)
<1>1. DOMAIN s = 1..Len(s)
  OBVIOUS
<1>2. \A i \in 1..Len(s) : s[i] \in Int
  <2>1. \A i \in 1..Len(s) : s[i] \in S
    OBVIOUS
  <2> QED
    BY <2>1
<1>3. ASSUME NEW i \in 1..Len(s), NEW j \in 1..Len(s), s[i] = s[j] PROVE i = j
  <2>1. ~(s[i] < s[j]) /\ ~(s[j] < s[i])
    BY <1>2, <1>3
  <2> QED
    BY <2>1 DEF Ascending
<1> QED
  BY <1>1, <1>3 DEF IsInjective

-----------------------------------------------------------------------------
(* Sums: the library's SumFunctionOnSet over any finite set, by least          *)
(* counterexample in place of an induction principle.                        *)

\* The element the fold takes off a set, one step of the recursion, and g as its
\* solution on the subsets of D.

AnyOf(s) == CHOOSE x \in s : TRUE
SumBody(f, g, s) == IF s = {} THEN 0 ELSE f[AnyOf(s)] + g[s \ {AnyOf(s)}]
SumsTo(f, D, g) == g = [s \in SUBSET D |-> SumBody(f, g, s)]

\* The library's fold, as the value of its recursive function.
LEMMA SumUnfold ==
  ASSUME NEW f, NEW D
  PROVE  SumFunctionOnSet(f, D) = (CHOOSE g : SumsTo(f, D, g))[D]
  BY DEF SumFunctionOnSet, FoldFunctionOnSet, MapThenFoldSet, SumsTo, SumBody, AnyOf

\* A nonempty set of subsets of a finite set has a least member: the
\* induction the facts below rest on.
LEMMA LeastSubset ==
  ASSUME NEW D, IsFiniteSet(D), NEW T \in SUBSET (SUBSET D), T # {}
  PROVE  \E x \in T : \A y \in T : y \subseteq x => y = x
<1>1. IsWellFoundedOn(StrictSubsetOrdering(D), SUBSET D)
  BY FS_StrictSubsetOrderingWellFounded, FS_FiniteSubsetsOfFinite
<1>2. PICK x \in T : \A y \in T : ~ (<<y, x>> \in StrictSubsetOrdering(D))
  BY <1>1, WFMin
<1>3. \A y \in T : y \subseteq x => y = x
  BY <1>2 DEF StrictSubsetOrdering
<1> QED BY <1>3

\* The recursive function is 0 on the empty set.
LEMMA SumsEmpty ==
  \A f, D, g : SumsTo(f, D, g) => g[{}] = 0
<1> TAKE f, D, g
<1> HAVE SumsTo(f, D, g)
<1>1. g = [t \in SUBSET D |-> SumBody(f, g, t)]
  BY DEF SumsTo
<1>2. g[{}] = SumBody(f, g, {})
  BY <1>1
<1> QED BY <1>2 DEF SumBody

SumsAt(f, g, s) == g[s] = f[AnyOf(s)] + g[s \ {AnyOf(s)}]

\* On any other set it takes one element off.
LEMMA SumsStep ==
  ASSUME NEW f, NEW D, NEW g, SumsTo(f, D, g), NEW s, s \subseteq D, s # {}
  PROVE  SumsAt(f, g, s)
<1>1. g = [t \in SUBSET D |-> SumBody(f, g, t)]
  BY DEF SumsTo
<1>2. g[s] = SumBody(f, g, s)
  BY <1>1
<1> QED BY <1>2 DEF SumBody, SumsAt

\* A function that follows the recursion at every subset is its solution.
LEMMA SumsByPoints ==
  ASSUME NEW f, NEW D, NEW g, g = [s \in SUBSET D |-> g[s]],
         \A s \in SUBSET D : g[s] = SumBody(f, g, s)
  PROVE  SumsTo(f, D, g)
<1> DEFINE h == [s \in SUBSET D |-> SumBody(f, g, s)]
<1>1. \A s \in SUBSET D : g[s] = h[s]
  OBVIOUS
<1>2. g = h
  BY <1>1
<1> QED BY <1>2 DEF SumsTo

\* The element the fold takes is in the set.
LEMMA AnyOfIn == \A s : s # {} => AnyOf(s) \in s
  BY DEF AnyOf

\* g and h solve the recursion on D and on E, and C is a finite set in both.
Agree(f, D, g, E, h, C) ==
  /\ IsFiniteSet(C) /\ C \subseteq D /\ C \subseteq E
  /\ SumsTo(f, D, g) /\ SumsTo(f, E, h)

\* Two solutions agree on every finite set both are defined on.
LEMMA SumsUnique ==
  ASSUME NEW f, NEW D, NEW g, NEW E, NEW h, NEW C, Agree(f, D, g, E, h, C)
  PROVE  g[C] = h[C]
<1>0. /\ IsFiniteSet(C) /\ C \subseteq D /\ C \subseteq E
      /\ SumsTo(f, D, g) /\ SumsTo(f, E, h)
  BY DEF Agree
<1> DEFINE T == {s \in SUBSET C : g[s] # h[s]}
<1>1. SUFFICES ASSUME T # {} PROVE FALSE
  BY C \in SUBSET C
<1>2. \E x \in T : \A y \in T : y \subseteq x => y = x
  <2>1. T \in SUBSET (SUBSET C)
    OBVIOUS
  <2> HIDE DEF T
  <2> QED BY <1>0, <1>1, <2>1, LeastSubset
<1>2a. PICK x \in T : \A y \in T : y \subseteq x => y = x
  BY <1>2
<1>3. x \subseteq D /\ x \subseteq E /\ g[x] # h[x]
  BY <1>0, <1>2a
<1>4. x # {}
  <2>1. g[{}] = 0
    BY <1>0, SumsEmpty, Zenon
  <2>2. h[{}] = 0
    BY <1>0, SumsEmpty, Zenon
  <2> QED BY <1>3, <2>1, <2>2
<1> DEFINE y == x \ {AnyOf(x)}
<1>5. y \subseteq x /\ y # x /\ y \in SUBSET C
  BY <1>2a, <1>4, AnyOfIn
<1>6. g[y] = h[y]
  BY <1>2a, <1>5
<1>7. SumsAt(f, g, x)
  BY <1>0, <1>3, <1>4, SumsStep
<1>8. SumsAt(f, h, x)
  BY <1>0, <1>3, <1>4, SumsStep
<1> QED BY <1>3, <1>6, <1>7, <1>8 DEF SumsAt

\* A solution restricted to fewer sets is one.
LEMMA SumsRestrict ==
  ASSUME NEW f, NEW D, NEW g, SumsTo(f, D, g), NEW C, C \subseteq D
  PROVE  SumsTo(f, C, [s \in SUBSET C |-> g[s]])
<1> DEFINE h == [s \in SUBSET C |-> g[s]]
<1>1. ASSUME NEW s \in SUBSET C PROVE h[s] = SumBody(f, h, s)
  <2>1. s \subseteq D /\ h[s] = g[s]
    BY <1>1
  <2>2. s \ {AnyOf(s)} \in SUBSET C /\ h[s \ {AnyOf(s)}] = g[s \ {AnyOf(s)}]
    BY <1>1
  <2> HIDE DEF h
  <2>3. g[{}] = 0
    BY SumsEmpty, Zenon
  <2>4. s # {} => SumsAt(f, g, s)
    BY <2>1, SumsStep
  <2> QED BY <2>1, <2>2, <2>3, <2>4 DEF SumBody, SumsAt
<1>2. h = [s \in SUBSET C |-> h[s]]
  OBVIOUS
<1> HIDE DEF h
<1>3. SumsTo(f, C, h)
  BY <1>1, <1>2, SumsByPoints
<1> QED BY <1>3 DEF h

\* The recursion has a solution on every finite set.
LEMMA SumsExist ==
  ASSUME NEW f, NEW D, IsFiniteSet(D)
  PROVE  \E g : SumsTo(f, D, g)
<1> DEFINE T == {s \in SUBSET D : ~ \E g : SumsTo(f, s, g)}
<1>1. SUFFICES ASSUME T # {} PROVE FALSE
  BY D \in SUBSET D
<1>2. \E x \in T : \A y \in T : y \subseteq x => y = x
  <2>1. T \in SUBSET (SUBSET D)
    OBVIOUS
  <2> HIDE DEF T
  <2> QED BY <1>1, <2>1, LeastSubset
<1>2a. PICK x \in T : \A y \in T : y \subseteq x => y = x
  BY <1>2
<1>3. x \in SUBSET D /\ ~ \E g : SumsTo(f, x, g)
  BY <1>2a
<1>4. \A y \in SUBSET x : y # x => \E g : SumsTo(f, y, g)
  BY <1>2a
<1> DEFINE At(y) == CHOOSE g : SumsTo(f, y, g)
<1>5. \A y \in SUBSET x : y # x => SumsTo(f, y, At(y))
  BY <1>4
<1> HIDE DEF At, T
<1> DEFINE z == x \ {AnyOf(x)}
           v(s) == IF s # x THEN At(s)[s] ELSE IF s = {} THEN 0 ELSE f[AnyOf(x)] + At(z)[z]
           h == [s \in SUBSET x |-> v(s)]
<1>6. ASSUME NEW s \in SUBSET x PROVE h[s] = SumBody(f, h, s)
  <2>1. CASE s = {}
    <3>1. CASE s # x
      <4>1. SumsTo(f, s, At(s))
        BY <1>5, <3>1
      <4>2. At(s)[s] = 0
        BY <2>1, <4>1, SumsEmpty, Zenon
      <4> QED BY <2>1, <3>1, <4>2 DEF SumBody
    <3>2. CASE s = x
      BY <2>1, <3>2 DEF SumBody
    <3> QED BY <3>1, <3>2
  <2>2. CASE s # {} /\ s = x
    <3>1. z \in SUBSET x /\ z # x
      BY <2>2, AnyOfIn
    <3>2. h[z] = At(z)[z]
      BY <3>1
    <3>3. h[x] = f[AnyOf(x)] + At(z)[z]
      BY <2>2
    <3> QED BY <2>2, <3>2, <3>3 DEF SumBody
  <2>3. CASE s # {} /\ s # x
    <3> DEFINE t == s \ {AnyOf(s)}
    <3>1. t \in SUBSET s /\ t \in SUBSET x /\ t # x
      BY <1>6, <2>3, AnyOfIn
    <3>2. SumsTo(f, s, At(s)) /\ SumsTo(f, t, At(t))
      BY <1>5, <1>6, <2>3, <3>1
    <3>3. IsFiniteSet(t)
      BY <1>3, <3>1, FS_Subset
    <3>4. At(s)[t] = At(t)[t]
      <4> HIDE DEF t
      <4>1. Agree(f, s, At(s), t, At(t), t)
        BY <3>1, <3>2, <3>3 DEF Agree
      <4> QED BY <4>1, SumsUnique
    <3>5. SumsAt(f, At(s), s)
      <4>1. s \subseteq s
        OBVIOUS
      <4> QED BY <2>3, <3>2, <4>1, SumsStep
    <3>6. h[t] = At(t)[t] /\ h[s] = At(s)[s]
      BY <1>6, <2>3, <3>1
    <3> HIDE DEF h
    <3> QED BY <2>3, <3>4, <3>5, <3>6 DEF SumBody, SumsAt
  <2> QED BY <2>1, <2>2, <2>3
<1>7. h = [s \in SUBSET x |-> h[s]]
  OBVIOUS
<1> HIDE DEF h
<1>8. SumsTo(f, x, h)
  BY <1>6, <1>7, SumsByPoints
<1> QED BY <1>3, <1>8

\* Any solution gives the sum of every subset.
LEMMA TotalIs ==
  ASSUME NEW f, NEW D, IsFiniteSet(D), NEW g, SumsTo(f, D, g), NEW C, C \subseteq D
  PROVE  SumFunctionOnSet(f, C) = g[C]
<1>1. IsFiniteSet(C)
  BY FS_Subset
<1> DEFINE h == CHOOSE k : SumsTo(f, C, k)
<1>2. SumsTo(f, C, h)
  BY <1>1, SumsExist
<1>3. SumFunctionOnSet(f, C) = h[C]
  BY SumUnfold
<1> HIDE DEF h
<1>4. h[C] = g[C]
  <2>1. Agree(f, C, h, D, g, C)
    BY <1>1, <1>2 DEF Agree
  <2> QED BY <2>1, SumsUnique
<1> QED BY <1>3, <1>4

\* The empty sum.
LEMMA TotalEmpty == \A f : SumFunctionOnSet(f, {}) = 0
<1> TAKE f
<1>1. IsFiniteSet({})
  BY FS_EmptySet
<1>2. PICK g : SumsTo(f, {}, g)
  BY <1>1, SumsExist
<1>3. SumFunctionOnSet(f, {}) = g[{}]
  BY <1>1, <1>2, TotalIs
<1> QED BY <1>2, <1>3, SumsEmpty

\* A sum, less the element the fold takes.
LEMMA TotalStep ==
  ASSUME NEW f, NEW D, IsFiniteSet(D), D # {}
  PROVE  SumFunctionOnSet(f, D) = f[AnyOf(D)] + SumFunctionOnSet(f, D \ {AnyOf(D)})
<1>1. PICK g : SumsTo(f, D, g)
  BY SumsExist
<1>2. SumFunctionOnSet(f, D) = g[D]
  BY <1>1, TotalIs
<1>3. SumFunctionOnSet(f, D \ {AnyOf(D)}) = g[D \ {AnyOf(D)}]
  <2>1. D \ {AnyOf(D)} \subseteq D
    OBVIOUS
  <2> QED BY <1>1, <2>1, TotalIs
<1>4. SumsAt(f, g, D)
  BY <1>1, SumsStep
<1> QED BY <1>2, <1>3, <1>4 DEF SumsAt

\* A sum of integers is an integer.
LEMMA TotalInt ==
  ASSUME NEW f, NEW D, IsFiniteSet(D), \A x \in D : f[x] \in Int
  PROVE  SumFunctionOnSet(f, D) \in Int
<1> DEFINE T == {s \in SUBSET D : SumFunctionOnSet(f, s) \notin Int}
<1>1. SUFFICES ASSUME T # {} PROVE FALSE
  BY D \in SUBSET D
<1>2. \E s \in T : \A t \in T : t \subseteq s => t = s
  <2>1. T \in SUBSET (SUBSET D)
    OBVIOUS
  <2> HIDE DEF T
  <2> QED BY <1>1, <2>1, LeastSubset
<1>3. PICK s \in T : \A t \in T : t \subseteq s => t = s
  BY <1>2
<1>4. s \subseteq D /\ SumFunctionOnSet(f, s) \notin Int
  BY <1>3
<1>5. s # {}
  BY <1>4, TotalEmpty
<1>6. IsFiniteSet(s)
  BY <1>4, FS_Subset
<1> DEFINE t == s \ {AnyOf(s)}
<1>7. AnyOf(s) \in s /\ t \subseteq s /\ t # s /\ t \in SUBSET D
  BY <1>4, <1>5, AnyOfIn
<1>8. SumFunctionOnSet(f, t) \in Int
  BY <1>3, <1>7
<1>9. SumFunctionOnSet(f, s) = f[AnyOf(s)] + SumFunctionOnSet(f, t)
  BY <1>5, <1>6, TotalStep
<1>10. f[AnyOf(s)] \in Int
  BY <1>4, <1>7
<1> HIDE DEF t
<1> QED BY <1>4, <1>8, <1>9, <1>10

\* A sum is any one element and the sum of the others: the order of the
\* fold does not matter.
LEMMA TotalOut ==
  ASSUME NEW f, NEW D, IsFiniteSet(D), \A x \in D : f[x] \in Int, NEW a \in D
  PROVE  SumFunctionOnSet(f, D) = f[a] + SumFunctionOnSet(f, D \ {a})
<1> DEFINE Out(s, x) == SumFunctionOnSet(f, s) = f[x] + SumFunctionOnSet(f, s \ {x})
           T == {s \in SUBSET D : \E x \in s : ~Out(s, x)}
<1>1. SUFFICES ASSUME T # {} PROVE FALSE
  BY D \in SUBSET D
<1>2. \E s \in T : \A t \in T : t \subseteq s => t = s
  <2>1. T \in SUBSET (SUBSET D)
    OBVIOUS
  <2> HIDE DEF T
  <2> QED BY <1>1, <2>1, LeastSubset
<1>3. PICK s \in T : \A t \in T : t \subseteq s => t = s
  BY <1>2
<1> HIDE DEF Out
<1>4. PICK x \in s : ~Out(s, x)
  BY <1>3
<1>5. s \subseteq D /\ IsFiniteSet(s)
  BY <1>3, FS_Subset
<1> DEFINE c == AnyOf(s)
<1>6. c \in s
  BY <1>4, AnyOfIn
<1>7. Out(s, c)
  BY <1>4, <1>5, TotalStep DEF Out
<1>8. c # x
  BY <1>4, <1>7
<1>9. \A t \in SUBSET s : t # s => \A y \in t : Out(t, y)
  BY <1>3, <1>5
<1> HIDE DEF c, T
<1>10. Out(s \ {c}, x)
  BY <1>4, <1>6, <1>8, <1>9
<1>11. Out(s \ {x}, c)
  BY <1>4, <1>6, <1>8, <1>9
<1>12. (s \ {c}) \ {x} = (s \ {x}) \ {c}
  OBVIOUS
<1> DEFINE r == (s \ {x}) \ {c}
<1>13. SumFunctionOnSet(f, r) \in Int
  <2>1. r \subseteq D /\ IsFiniteSet(r)
    BY <1>5, FS_Subset
  <2>2. \A y \in r : f[y] \in Int
    BY <2>1
  <2> HIDE DEF r
  <2> QED BY <2>1, <2>2, TotalInt
<1>14. f[x] \in Int /\ f[c] \in Int
  BY <1>4, <1>5, <1>6
<1>15. SumFunctionOnSet(f, s) = f[c] + SumFunctionOnSet(f, s \ {c})
  BY <1>7 DEF Out
<1>16. SumFunctionOnSet(f, s \ {c}) = f[x] + SumFunctionOnSet(f, r)
  BY <1>10, <1>12 DEF Out
<1>17. SumFunctionOnSet(f, s \ {x}) = f[c] + SumFunctionOnSet(f, r)
  BY <1>11 DEF Out
<1> HIDE DEF r
<1>18. SumFunctionOnSet(f, s) = f[x] + SumFunctionOnSet(f, s \ {x})
  BY <1>13, <1>14, <1>15, <1>16, <1>17
<1> QED BY <1>4, <1>18 DEF Out

\* The sum of two functions added point by point.
LEMMA TotalSum ==
  ASSUME NEW f, NEW g, NEW h, NEW D, IsFiniteSet(D),
         \A x \in D : f[x] \in Int /\ g[x] \in Int /\ h[x] = f[x] + g[x]
  PROVE  SumFunctionOnSet(h, D) = SumFunctionOnSet(f, D) + SumFunctionOnSet(g, D)
<1> DEFINE Adds(s) == SumFunctionOnSet(h, s) = SumFunctionOnSet(f, s) + SumFunctionOnSet(g, s)
           T == {s \in SUBSET D : ~Adds(s)}
<1>1. SUFFICES ASSUME T # {} PROVE FALSE
  BY D \in SUBSET D
<1>2. \E s \in T : \A t \in T : t \subseteq s => t = s
  <2>1. T \in SUBSET (SUBSET D)
    OBVIOUS
  <2> HIDE DEF T
  <2> QED BY <1>1, <2>1, LeastSubset
<1>3. PICK s \in T : \A t \in T : t \subseteq s => t = s
  BY <1>2
<1> HIDE DEF Adds
<1>4. s \subseteq D /\ IsFiniteSet(s) /\ ~Adds(s)
  BY <1>3, FS_Subset
<1>5. s # {}
  <2>1. Adds({})
    BY TotalEmpty DEF Adds
  <2> QED BY <1>4, <2>1
<1> DEFINE c == AnyOf(s)
           t == s \ {c}
<1>6. c \in s /\ c \in D
  BY <1>4, <1>5, AnyOfIn
<1>7. Adds(t)
  BY <1>3, <1>4, <1>6
<1>8. /\ SumFunctionOnSet(f, s) = f[c] + SumFunctionOnSet(f, t)
      /\ SumFunctionOnSet(g, s) = g[c] + SumFunctionOnSet(g, t)
      /\ SumFunctionOnSet(h, s) = h[c] + SumFunctionOnSet(h, t)
  BY <1>4, <1>5, TotalStep
<1>9. SumFunctionOnSet(f, t) \in Int /\ SumFunctionOnSet(g, t) \in Int
  <2>1. t \subseteq D /\ IsFiniteSet(t)
    BY <1>4, FS_Subset
  <2>2. \A y \in t : f[y] \in Int /\ g[y] \in Int
    BY <2>1
  <2> HIDE DEF t
  <2> QED BY <2>1, <2>2, TotalInt
<1>10. f[c] \in Int /\ g[c] \in Int /\ h[c] = f[c] + g[c]
  BY <1>6
<1> HIDE DEF c, t
<1>11. SumFunctionOnSet(h, t) = SumFunctionOnSet(f, t) + SumFunctionOnSet(g, t)
  BY <1>7 DEF Adds
<1>12. SumFunctionOnSet(h, s) = SumFunctionOnSet(f, s) + SumFunctionOnSet(g, s)
  BY <1>8, <1>9, <1>10, <1>11
<1> QED BY <1>4, <1>12 DEF Adds

\* A sum depends on the function's values on the set alone.
LEMMA TotalSame ==
  ASSUME NEW f, NEW h, NEW D, IsFiniteSet(D), \A x \in D : h[x] = f[x]
  PROVE  SumFunctionOnSet(h, D) = SumFunctionOnSet(f, D)
<1> DEFINE Same(s) == SumFunctionOnSet(h, s) = SumFunctionOnSet(f, s)
           T == {s \in SUBSET D : ~Same(s)}
<1>1. SUFFICES ASSUME T # {} PROVE FALSE
  BY D \in SUBSET D
<1>2. \E s \in T : \A t \in T : t \subseteq s => t = s
  <2>1. T \in SUBSET (SUBSET D)
    OBVIOUS
  <2> HIDE DEF T
  <2> QED BY <1>1, <2>1, LeastSubset
<1>3. PICK s \in T : \A t \in T : t \subseteq s => t = s
  BY <1>2
<1> HIDE DEF Same
<1>4. s \subseteq D /\ IsFiniteSet(s) /\ ~Same(s)
  BY <1>3, FS_Subset
<1>5. s # {}
  <2>1. Same({})
    BY TotalEmpty DEF Same
  <2> QED BY <1>4, <2>1
<1> DEFINE c == AnyOf(s)
           t == s \ {c}
<1>6. c \in s /\ c \in D
  BY <1>4, <1>5, AnyOfIn
<1>7. Same(t)
  BY <1>3, <1>4, <1>6
<1>8. /\ SumFunctionOnSet(f, s) = f[c] + SumFunctionOnSet(f, t)
      /\ SumFunctionOnSet(h, s) = h[c] + SumFunctionOnSet(h, t)
  BY <1>4, <1>5, TotalStep
<1>9. h[c] = f[c]
  BY <1>6
<1> HIDE DEF c, t
<1>10. SumFunctionOnSet(h, t) = SumFunctionOnSet(f, t)
  BY <1>7 DEF Same
<1>11. SumFunctionOnSet(h, s) = SumFunctionOnSet(f, s)
  BY <1>8, <1>9, <1>10
<1> QED BY <1>4, <1>11 DEF Same

\* A function changed at one point.
LEMMA TotalChange ==
  ASSUME NEW f, NEW h, NEW D, IsFiniteSet(D), NEW a \in D,
         \A x \in D : f[x] \in Int /\ h[x] \in Int,
         \A x \in D \ {a} : h[x] = f[x]
  PROVE  SumFunctionOnSet(h, D) = SumFunctionOnSet(f, D) - f[a] + h[a]
<1> DEFINE C == D \ {a}
<1>1. C \subseteq D /\ IsFiniteSet(C)
  BY FS_Subset
<1>2. SumFunctionOnSet(h, D) = h[a] + SumFunctionOnSet(h, C)
  BY TotalOut
<1>3. SumFunctionOnSet(f, D) = f[a] + SumFunctionOnSet(f, C)
  BY TotalOut
<1>4. \A x \in C : h[x] = f[x] /\ f[x] \in Int
  OBVIOUS
<1> HIDE DEF C
<1>5. SumFunctionOnSet(h, C) = SumFunctionOnSet(f, C)
  BY <1>1, <1>4, TotalSame
<1>6. SumFunctionOnSet(f, C) \in Int
  BY <1>1, <1>4, TotalInt
<1> QED BY <1>2, <1>3, <1>5, <1>6

\* A sum over a sequence's indices, one further.
LEMMA TotalNext ==
  ASSUME NEW f, NEW n \in Nat, \A i \in 1..(n + 1) : f[i] \in Int
  PROVE  SumFunctionOnSet(f, 1..(n + 1)) = SumFunctionOnSet(f, 1..n) + f[n + 1]
<1>1. n + 1 \in 1..(n + 1) /\ (1..(n + 1)) \ {n + 1} = 1..n
  OBVIOUS
<1>2. IsFiniteSet(1..(n + 1)) /\ IsFiniteSet(1..n)
  BY FS_Interval
<1>3. \A i \in 1..n : f[i] \in Int
  OBVIOUS
<1>4. SumFunctionOnSet(f, 1..n) \in Int
  BY <1>2, <1>3, TotalInt
<1>5. SumFunctionOnSet(f, 1..(n + 1)) = f[n + 1] + SumFunctionOnSet(f, (1..(n + 1)) \ {n + 1})
  BY <1>1, <1>2, TotalOut
<1>6. SumFunctionOnSet(f, 1..(n + 1)) = f[n + 1] + SumFunctionOnSet(f, 1..n)
  BY <1>1, <1>5
<1>7. f[n + 1] \in Int
  OBVIOUS
<1> QED BY <1>4, <1>6, <1>7

\* A nonempty set of numbers has a least element.
LEMMA LeastNat ==
  ASSUME NEW T \in SUBSET Nat, T # {}
  PROVE  \E m \in T : \A k \in T : m <= k
<1>1. \E m \in T : \A k \in T : ~(<<k, m>> \in OpToRel(<, Nat))
  BY NatLessThanWellFounded, WFMin, Zenon
<1>2. \A m, k \in Nat : ~(<<k, m>> \in OpToRel(<, Nat)) => m <= k
  BY DEF OpToRel
<1> QED BY <1>1, <1>2

\* A sequence with one entry taken out.
LEMMA TotalWithout ==
  ASSUME NEW f, NEW h, NEW n \in Nat, NEW p \in 1..n,
         \A i \in 1..n : f[i] \in Int,
         \A i \in 1..(n - 1) : h[i] = IF i < p THEN f[i] ELSE f[i + 1]
  PROVE  SumFunctionOnSet(h, 1..(n - 1)) = SumFunctionOnSet(f, 1..n) - f[p]
<1> DEFINE Less(m) == SumFunctionOnSet(h, 1..(m - 1)) = SumFunctionOnSet(f, 1..m) - f[p]
           T == {m \in p..n : ~Less(m)}
<1>1. SUFFICES ASSUME T # {} PROVE FALSE
  BY n \in p..n
<1>2. \E m \in T : \A k \in T : m <= k
  <2>1. T \in SUBSET Nat
    OBVIOUS
  <2> HIDE DEF T
  <2> QED BY <1>1, <2>1, LeastNat
<1>3. PICK m \in T : \A k \in T : m <= k
  BY <1>2
<1> HIDE DEF Less
<1>4. m \in p..n /\ ~Less(m) /\ m - 1 \in Nat
  BY <1>3
<1>5. \A i \in 1..m : f[i] \in Int
  BY <1>4
<1>6. SumFunctionOnSet(f, 1..m) = SumFunctionOnSet(f, 1..(m - 1)) + f[m]
  <2> DEFINE q == m - 1
  <2>1. q \in Nat /\ m = q + 1
    BY <1>4
  <2> HIDE DEF q
  <2>2. \A i \in 1..(q + 1) : f[i] \in Int
    BY <1>5, <2>1
  <2>3. SumFunctionOnSet(f, 1..(q + 1)) = SumFunctionOnSet(f, 1..q) + f[q + 1]
    BY <2>1, <2>2, TotalNext
  <2> QED BY <2>1, <2>3 DEF q
<1>7. IsFiniteSet(1..(m - 1)) /\ IsFiniteSet(1..m)
  BY <1>4, FS_Interval
<1>8. SumFunctionOnSet(f, 1..(m - 1)) \in Int
  <2>1. \A i \in 1..(m - 1) : f[i] \in Int
    BY <1>4, <1>5
  <2> QED BY <1>7, <2>1, TotalInt
<1>9. f[m] \in Int /\ f[p] \in Int
  BY <1>4
<1>10. CASE m = p
  <2>1. \A i \in 1..(m - 1) : h[i] = f[i]
    BY <1>4, <1>10
  <2>2. SumFunctionOnSet(h, 1..(m - 1)) = SumFunctionOnSet(f, 1..(m - 1))
    BY <1>7, <2>1, TotalSame
  <2>3. SumFunctionOnSet(h, 1..(m - 1)) = SumFunctionOnSet(f, 1..m) - f[p]
    BY <1>6, <1>8, <1>9, <1>10, <2>2
  <2> QED BY <1>4, <2>3 DEF Less
<1>11. CASE m # p
  <2> DEFINE q == m - 2
  <2>1. q \in Nat /\ m - 1 = q + 1 /\ m - 1 \in p..n
    BY <1>4, <1>11
  <2>2. Less(m - 1)
    BY <1>3, <2>1, <1>4
  <2>3. SumFunctionOnSet(h, 1..q) = SumFunctionOnSet(f, 1..(m - 1)) - f[p]
    <3>1. (m - 1) - 1 = q
      BY <1>4
    <3> QED BY <2>2, <3>1 DEF Less
  <2>4. h[q + 1] = f[m]
    BY <1>4, <1>11, <2>1
  <2>5. \A i \in 1..(q + 1) : h[i] \in Int
    BY <1>4, <2>1
  <2> HIDE DEF q
  <2>6. SumFunctionOnSet(h, 1..(q + 1)) = SumFunctionOnSet(h, 1..q) + h[q + 1]
    BY <2>1, <2>5, TotalNext
  <2>7. SumFunctionOnSet(h, 1..(m - 1)) = SumFunctionOnSet(f, 1..m) - f[p]
    BY <1>6, <1>8, <1>9, <2>1, <2>3, <2>4, <2>6
  <2> QED BY <1>4, <2>7 DEF Less
<1> QED BY <1>10, <1>11

\* A sum of natural numbers is one.
LEMMA TotalNat ==
  ASSUME NEW f, NEW D, IsFiniteSet(D), \A x \in D : f[x] \in Nat
  PROVE  SumFunctionOnSet(f, D) \in Nat
<1> DEFINE T == {s \in SUBSET D : SumFunctionOnSet(f, s) \notin Nat}
<1>1. SUFFICES ASSUME T # {} PROVE FALSE
  BY D \in SUBSET D
<1>2. \E s \in T : \A t \in T : t \subseteq s => t = s
  <2>1. T \in SUBSET (SUBSET D)
    OBVIOUS
  <2> HIDE DEF T
  <2> QED BY <1>1, <2>1, LeastSubset
<1>3. PICK s \in T : \A t \in T : t \subseteq s => t = s
  BY <1>2
<1>4. s \subseteq D /\ SumFunctionOnSet(f, s) \notin Nat
  BY <1>3
<1>5. s # {}
  BY <1>4, TotalEmpty
<1>6. IsFiniteSet(s)
  BY <1>4, FS_Subset
<1> DEFINE t == s \ {AnyOf(s)}
<1>7. AnyOf(s) \in s /\ t \subseteq s /\ t # s /\ t \in SUBSET D
  BY <1>4, <1>5, AnyOfIn
<1>8. SumFunctionOnSet(f, t) \in Nat
  BY <1>3, <1>7
<1>9. SumFunctionOnSet(f, s) = f[AnyOf(s)] + SumFunctionOnSet(f, t)
  BY <1>5, <1>6, TotalStep
<1>10. f[AnyOf(s)] \in Nat
  BY <1>4, <1>7
<1> HIDE DEF t
<1> QED BY <1>4, <1>8, <1>9, <1>10

\* A sum of natural numbers over more elements is no smaller.
LEMMA TotalSub ==
  ASSUME NEW f, NEW D, IsFiniteSet(D), \A x \in D : f[x] \in Nat, NEW C, C \subseteq D
  PROVE  SumFunctionOnSet(f, C) <= SumFunctionOnSet(f, D)
<1> DEFINE Over(s) == SumFunctionOnSet(f, C) <= SumFunctionOnSet(f, s)
           T == {s \in SUBSET D : C \subseteq s /\ ~Over(s)}
<1>1. SUFFICES ASSUME T # {} PROVE FALSE
  BY D \in SUBSET D
<1>2. \E s \in T : \A t \in T : t \subseteq s => t = s
  <2>1. T \in SUBSET (SUBSET D)
    OBVIOUS
  <2> HIDE DEF T
  <2> QED BY <1>1, <2>1, LeastSubset
<1>3. PICK s \in T : \A t \in T : t \subseteq s => t = s
  BY <1>2
<1> HIDE DEF Over
<1>4. s \subseteq D /\ C \subseteq s /\ ~Over(s) /\ IsFiniteSet(s) /\ IsFiniteSet(C)
  BY <1>3, FS_Subset
<1>5. SumFunctionOnSet(f, C) \in Nat
  BY <1>4, TotalNat
<1>6. s # C
  <2>1. Over(C)
    BY <1>5 DEF Over
  <2> QED BY <1>4, <2>1
<1>7. PICK a \in s : a \notin C
  BY <1>4, <1>6
<1> DEFINE t == s \ {a}
<1>8. C \subseteq t /\ t \subseteq D /\ t # s /\ IsFiniteSet(t)
  BY <1>4, <1>7, FS_Subset
<1>9. Over(t)
  BY <1>3, <1>8
<1>10. \A x \in s : f[x] \in Int
  BY <1>4
<1>11. SumFunctionOnSet(f, s) = f[a] + SumFunctionOnSet(f, t)
  BY <1>4, <1>7, <1>10, TotalOut
<1> HIDE DEF t
<1>12. SumFunctionOnSet(f, t) \in Nat /\ f[a] \in Nat
  BY <1>4, <1>7, <1>8, TotalNat
<1>13. SumFunctionOnSet(f, C) <= SumFunctionOnSet(f, t)
  BY <1>9 DEF Over
<1>14. SumFunctionOnSet(f, C) <= SumFunctionOnSet(f, s)
  BY <1>5, <1>11, <1>12, <1>13
<1> QED BY <1>4, <1>14 DEF Over

\* g holds what f has after its first a of a + b terms.
Splits(f, a, g, b) ==
  /\ a \in Nat /\ b \in Nat
  /\ \A i \in 1..(a + b) : f[i] \in Int
  /\ \A i \in 1..b : g[i] = f[a + i]

\* A sum over a sequence's indices splits where the sequence does.
LEMMA TotalConcat ==
  ASSUME NEW f, NEW a, NEW g, NEW b, Splits(f, a, g, b)
  PROVE  SumFunctionOnSet(f, 1..(a + b)) = SumFunctionOnSet(f, 1..a) + SumFunctionOnSet(g, 1..b)
<1> USE DEF Splits
<1> DEFINE Split(m) == SumFunctionOnSet(f, 1..(a + m)) = SumFunctionOnSet(f, 1..a) + SumFunctionOnSet(g, 1..m)
           T == {m \in 0..b : ~Split(m)}
<1>1. SUFFICES ASSUME T # {} PROVE FALSE
  BY b \in 0..b
<1>2. \E m \in T : \A k \in T : m <= k
  <2>1. T \in SUBSET Nat
    OBVIOUS
  <2> HIDE DEF T
  <2> QED BY <1>1, <2>1, LeastNat
<1>3. PICK m \in T : \A k \in T : m <= k
  BY <1>2
<1> HIDE DEF Split
<1>4. m \in 0..b /\ ~Split(m)
  BY <1>3
<1>5. \A k \in 0..b : IsFiniteSet(1..k) /\ IsFiniteSet(1..a) /\ IsFiniteSet(1..(a + k))
  BY FS_Interval
<1>6. SumFunctionOnSet(f, 1..a) \in Int
  <2>1. \A i \in 1..a : f[i] \in Int
    OBVIOUS
  <2>2. IsFiniteSet(1..a)
    BY FS_Interval
  <2> QED BY <2>1, <2>2, TotalInt
<1>7. m # 0
  <2> SUFFICES ASSUME m = 0 PROVE FALSE
    OBVIOUS
  <2>1. 1..0 = {} /\ a + 0 = a
    OBVIOUS
  <2>2. SumFunctionOnSet(g, 1..0) = 0
    BY <2>1, TotalEmpty
  <2>3. Split(0)
    BY <1>6, <2>1, <2>2 DEF Split
  <2> QED BY <1>4, <2>3
<1> DEFINE q == m - 1
<1>8. q \in Nat /\ m = q + 1 /\ q \in 0..b /\ a + q \in Nat /\ (a + q) + 1 = a + m
  BY <1>4, <1>7
<1>9. Split(q)
  BY <1>3, <1>8
<1> HIDE DEF q, T
<1>10. SumFunctionOnSet(f, 1..(a + q)) = SumFunctionOnSet(f, 1..a) + SumFunctionOnSet(g, 1..q)
  BY <1>9 DEF Split
<1>11. \A i \in 1..((a + q) + 1) : f[i] \in Int
  BY <1>4, <1>8
<1>12. SumFunctionOnSet(f, 1..((a + q) + 1)) = SumFunctionOnSet(f, 1..(a + q)) + f[(a + q) + 1]
  BY <1>8, <1>11, TotalNext
<1>13. \A i \in 1..(q + 1) : g[i] \in Int
  BY <1>4, <1>8
<1>14. SumFunctionOnSet(g, 1..(q + 1)) = SumFunctionOnSet(g, 1..q) + g[q + 1]
  BY <1>8, <1>13, TotalNext
<1>15. g[q + 1] = f[(a + q) + 1] /\ g[q + 1] \in Int
  <2>1. q + 1 \in 1..b /\ q + 1 \in 1..(q + 1) /\ a + (q + 1) = (a + q) + 1
    BY <1>4, <1>8
  <2>2. g[q + 1] = f[a + (q + 1)]
    BY <2>1
  <2> QED BY <1>13, <2>1, <2>2
<1>16. SumFunctionOnSet(g, 1..q) \in Int
  <2>1. \A i \in 1..q : g[i] \in Int
    BY <1>8, <1>13
  <2>2. IsFiniteSet(1..q)
    BY <1>8, FS_Interval
  <2> QED BY <2>1, <2>2, TotalInt
<1>17. SumFunctionOnSet(f, 1..(a + m)) = SumFunctionOnSet(f, 1..a) + SumFunctionOnSet(g, 1..m)
  <2>1. SumFunctionOnSet(f, 1..(a + m)) = SumFunctionOnSet(f, 1..(a + q)) + f[(a + q) + 1]
    BY <1>8, <1>12
  <2>2. SumFunctionOnSet(g, 1..m) = SumFunctionOnSet(g, 1..q) + g[q + 1]
    BY <1>8, <1>14
  <2>3. \A x, y, z \in Int : (x + y) + z = x + (y + z)
    OBVIOUS
  <2> QED BY <1>6, <1>10, <1>15, <1>16, <2>1, <2>2, <2>3
<1> QED BY <1>4, <1>17 DEF Split

\* f has the weight w gives to each element of the sequence s of n, which has none twice.
Reads(f, n, s, w) ==
  /\ n \in Nat
  /\ \A i \in 1..n : f[i] = w[s[i]] /\ f[i] \in Int
  /\ \A i, j \in 1..n : s[i] = s[j] => i = j

\* A sequence without repetition: the sum over its places is the sum over its
\* elements.
LEMMA TotalOfRange ==
  ASSUME NEW f, NEW n, NEW s, NEW w, Reads(f, n, s, w)
  PROVE  SumFunctionOnSet(f, 1..n) = SumFunctionOnSet(w, {s[i] : i \in 1..n})
<1> USE DEF Reads
<1> DEFINE R(m) == {s[i] : i \in 1..m}
           Same(m) == SumFunctionOnSet(f, 1..m) = SumFunctionOnSet(w, R(m))
           T == {m \in 0..n : ~Same(m)}
<1>1. SUFFICES ASSUME T # {} PROVE FALSE
  BY n \in 0..n
<1>2. \E m \in T : \A k \in T : m <= k
  <2>1. T \in SUBSET Nat
    OBVIOUS
  <2> HIDE DEF T
  <2> QED BY <1>1, <2>1, LeastNat
<1>3. PICK m \in T : \A k \in T : m <= k
  BY <1>2
<1> HIDE DEF Same
<1>4. m \in 0..n /\ ~Same(m)
  BY <1>3
<1>5. m # 0
  <2>1. 1..0 = {} /\ R(0) = {}
    OBVIOUS
  <2>2. Same(0)
    BY <2>1, TotalEmpty DEF Same
  <2> QED BY <1>4, <2>2
<1> DEFINE q == m - 1
<1>6. q \in Nat /\ m = q + 1 /\ q \in 0..n
  BY <1>4, <1>5
<1>7. Same(q)
  BY <1>3, <1>6
<1> HIDE DEF q, T
<1>8. \A i \in 1..(q + 1) : f[i] \in Int
  BY <1>4, <1>6
<1>9. SumFunctionOnSet(f, 1..(q + 1)) = SumFunctionOnSet(f, 1..q) + f[q + 1]
  BY <1>6, <1>8, TotalNext
<1>10. s[m] \in R(m) /\ R(m) \ {s[m]} = R(q)
  <2>1. \A i \in 1..q : i \in 1..n /\ i # m /\ i \in 1..m
    BY <1>4, <1>6
  <2>2. m \in 1..n /\ m \in 1..m /\ \A i \in 1..m : i \in 1..q \/ i = m
    BY <1>4, <1>5, <1>6
  <2>3. \A i \in 1..q : s[i] # s[m]
    BY <2>1, <2>2
  <2> QED BY <2>1, <2>2, <2>3
<1>11. IsFiniteSet(R(m))
  <2> DEFINE h == [i \in 1..m |-> s[i]]
  <2>1. h \in Surjection(1..m, R(m))
    BY DEF Surjection
  <2>2. IsFiniteSet(1..m)
    BY <1>4, FS_Interval
  <2> HIDE DEF h, R
  <2> QED BY <2>1, <2>2, FS_Surjection
<1>12. \A x \in R(m) : w[x] \in Int
  <2>1. \A i \in 1..m : w[s[i]] \in Int
    BY <1>4
  <2> QED BY <2>1
<1>13. f[m] = w[s[m]] /\ f[m] \in Int
  BY <1>4, <1>5
<1> HIDE DEF R
<1>14. SumFunctionOnSet(w, R(m)) = w[s[m]] + SumFunctionOnSet(w, R(m) \ {s[m]})
  BY <1>10, <1>11, <1>12, TotalOut
<1>15. SumFunctionOnSet(f, 1..q) = SumFunctionOnSet(w, R(q))
  BY <1>7 DEF Same
<1>16. SumFunctionOnSet(f, 1..q) \in Int
  <2>1. \A i \in 1..q : f[i] \in Int
    BY <1>6, <1>8
  <2>2. IsFiniteSet(1..q)
    BY <1>6, FS_Interval
  <2> QED BY <2>1, <2>2, TotalInt
<1>17. SumFunctionOnSet(f, 1..m) = SumFunctionOnSet(w, R(m))
  <2>1. SumFunctionOnSet(f, 1..m) = SumFunctionOnSet(f, 1..q) + f[m]
    BY <1>6, <1>9
  <2>2. SumFunctionOnSet(w, R(m)) = f[m] + SumFunctionOnSet(f, 1..q)
    BY <1>10, <1>13, <1>14, <1>15
  <2> QED BY <1>13, <1>16, <2>1, <2>2
<1> QED BY <1>4, <1>17 DEF Same
=============================================================================
