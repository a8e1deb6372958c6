----------------------------- MODULE QueueLemmas -----------------------------
(***************************************************************************)
(* Facts about the sequences CommandPoller keeps commands in: what the     *)
(* operations on the Vec do to the set of its elements, to their           *)
(* distinctness and to the concatenation of two of them.                   *)
(***************************************************************************)
EXTENDS Integers, Sequences, SequencesExt, SequenceTheorems, TLAPS

Distinct(s) == \A i, j \in DOMAIN s : s[i] = s[j] => i = j

(* A sequence of bounded length is a sequence. *)
LEMMA BoundedSeqIsSeq ==
    ASSUME NEW S, NEW n \in Nat, NEW s \in BoundedSeq(S, n)
    PROVE  s \in Seq(S)
<1>1. PICK m \in 0..n : s \in [1..m -> S]
  BY DEF BoundedSeq, SeqOf
<1>2. m \in Nat
  OBVIOUS
<1>3. QED
  BY <1>1, <1>2, SeqDef

(* Pushing an element adds it to the set. *)
LEMMA SetOfAppend ==
    ASSUME NEW S, NEW s \in Seq(S), NEW e \in S
    PROVE  /\ Append(s, e) \in Seq(S)
           /\ ToSet(Append(s, e)) = ToSet(s) \cup {e}
<1>1. /\ Append(s, e) \in Seq(S)
      /\ DOMAIN Append(s, e) = 1..(Len(s) + 1)
      /\ DOMAIN s = 1..Len(s) /\ Len(s) \in Nat
      /\ \A i \in 1..Len(s) : Append(s, e)[i] = s[i]
      /\ Append(s, e)[Len(s) + 1] = e
  BY AppendProperties, LenProperties
<1>2. QED
  BY <1>1 DEF ToSet

(* The first element and the others make up the set. *)
LEMMA SetOfTail ==
    ASSUME NEW S, NEW s \in Seq(S), s # <<>>
    PROVE  /\ Head(s) \in S
           /\ Tail(s) \in Seq(S)
           /\ ToSet(s) = ToSet(Tail(s)) \cup {Head(s)}
<1>1. /\ Tail(s) \in Seq(S) /\ Head(s) \in S
      /\ Len(Tail(s)) = Len(s) - 1
      /\ \A i \in 1..Len(Tail(s)) : Tail(s)[i] = s[i+1]
  BY HeadTailProperties
<1>2. /\ DOMAIN s = 1..Len(s) /\ Len(s) \in Nat \ {0}
      /\ DOMAIN Tail(s) = 1..(Len(s) - 1)
  BY <1>1, LenProperties, EmptySeq
<1>3. Head(s) = s[1]
  OBVIOUS
<1>4. ToSet(s) \subseteq ToSet(Tail(s)) \cup {Head(s)}
  <2> SUFFICES ASSUME NEW i \in 1..Len(s), i # 1
               PROVE  s[i] \in ToSet(Tail(s))
    BY <1>2, <1>3 DEF ToSet
  <2>1. i - 1 \in DOMAIN Tail(s) /\ Tail(s)[i-1] = s[i]
    BY <1>1, <1>2
  <2>2. QED
    BY <2>1 DEF ToSet
<1>5. ToSet(Tail(s)) \cup {Head(s)} \subseteq ToSet(s)
  BY <1>1, <1>2, <1>3 DEF ToSet
<1>6. QED
  BY <1>1, <1>4, <1>5

(* What RemoveAt returns, position by position. *)
LEMMA RemoveAtElements ==
    ASSUME NEW S, NEW s \in Seq(S), NEW k \in DOMAIN s
    PROVE  /\ RemoveAt(s, k) \in Seq(S)
           /\ Len(RemoveAt(s, k)) = Len(s) - 1
           /\ \A i \in 1..(Len(s) - 1) :
                 RemoveAt(s, k)[i] = IF i < k THEN s[i] ELSE s[i+1]
<1> DEFINE a == SubSeq(s, 1, k-1)
           b == SubSeq(s, k+1, Len(s))
<1>1. Len(s) \in Nat /\ k \in 1..Len(s) /\ \A i \in 1..Len(s) : s[i] \in S
  BY LenProperties, ElementOfSeq
<1>2. /\ a \in Seq(S) /\ Len(a) = k - 1
      /\ \A i \in 1..(k-1) : a[i] = s[i]
  <2>1. \A i \in 1..(k-1) : s[i] \in S
    BY <1>1
  <2>2. 1 \in Int /\ k - 1 \in Int
    BY <1>1
  <2>3. /\ a \in Seq(S) /\ Len(a) = IF 1 <= k-1 THEN (k-1) - 1 + 1 ELSE 0
        /\ \A i \in 1..((k-1) - 1 + 1) : a[i] = s[1 + i - 1]
    BY <2>1, <2>2, SubSeqProperties
  <2>4. QED
    BY <1>1, <2>3
<1>3. /\ b \in Seq(S) /\ Len(b) = Len(s) - k
      /\ \A i \in 1..(Len(s) - k) : b[i] = s[k+i]
  <2>1. \A i \in (k+1)..Len(s) : s[i] \in S
    BY <1>1
  <2>2. k + 1 \in Int /\ Len(s) \in Int
    BY <1>1
  <2>3. /\ b \in Seq(S) /\ Len(b) = IF k+1 <= Len(s) THEN Len(s) - (k+1) + 1 ELSE 0
        /\ \A i \in 1..(Len(s) - (k+1) + 1) : b[i] = s[(k+1) + i - 1]
    BY <2>1, <2>2, SubSeqProperties
  <2>4. QED
    BY <1>1, <2>3
<1>4. /\ a \o b \in Seq(S)
      /\ Len(a \o b) = Len(a) + Len(b)
      /\ \A i \in 1..(Len(a) + Len(b)) :
            (a \o b)[i] = IF i <= Len(a) THEN a[i] ELSE b[i - Len(a)]
  <2> HIDE DEF a, b
  <2> QED BY <1>2, <1>3, ConcatProperties
<1>5. RemoveAt(s, k) = a \o b
  BY DEF RemoveAt
<1> HIDE DEF a, b
<1>6. Len(a) + Len(b) = Len(s) - 1
  BY <1>1, <1>2, <1>3
<1>7. ASSUME NEW i \in 1..(Len(s) - 1)
      PROVE  (a \o b)[i] = IF i < k THEN s[i] ELSE s[i+1]
  <2>1. CASE i < k
    <3>1. i \in 1..(Len(a) + Len(b)) /\ i <= Len(a) /\ i \in 1..(k-1)
      BY <1>1, <1>2, <1>3, <2>1
    <3>2. (a \o b)[i] = a[i] /\ a[i] = s[i]
      BY <1>2, <1>4, <3>1
    <3>3. QED
      BY <2>1, <3>2
  <2>2. CASE i >= k
    <3>1. /\ i \in 1..(Len(a) + Len(b)) /\ ~(i <= Len(a))
          /\ i - Len(a) = i - (k-1)
      BY <1>1, <1>2, <1>3, <2>2
    <3>2. (a \o b)[i] = b[i - (k-1)]
      BY <1>4, <3>1
    <3>3. i - (k-1) \in 1..(Len(s) - k) /\ k + (i - (k-1)) = i + 1 /\ ~(i < k)
      BY <1>1, <2>2
    <3>4. b[i - (k-1)] = s[i+1]
      BY <1>3, <3>3
    <3>5. QED
      BY <3>2, <3>3, <3>4
  <2>3. i < k \/ i >= k
    BY <1>1
  <2>4. QED
    BY <2>1, <2>2, <2>3
<1>8. QED
  BY <1>4, <1>5, <1>6, <1>7

(* Taking the element at k out removes at most that element from the set. *)
LEMMA SetOfRemoveAt ==
    ASSUME NEW S, NEW s \in Seq(S), NEW k \in DOMAIN s
    PROVE  /\ RemoveAt(s, k) \in Seq(S)
           /\ ToSet(s) = ToSet(RemoveAt(s, k)) \cup {s[k]}
<1> DEFINE r == RemoveAt(s, k)
<1>1. /\ r \in Seq(S) /\ Len(r) = Len(s) - 1
      /\ \A i \in 1..(Len(s) - 1) : r[i] = IF i < k THEN s[i] ELSE s[i+1]
  BY RemoveAtElements
<1>2. Len(s) \in Nat /\ DOMAIN s = 1..Len(s) /\ DOMAIN r = 1..(Len(s) - 1)
  BY <1>1, LenProperties
<1> HIDE DEF r
<1>3. ToSet(s) \subseteq ToSet(r) \cup {s[k]}
  <2> SUFFICES ASSUME NEW i \in 1..Len(s), i # k
               PROVE  s[i] \in ToSet(r)
    BY <1>2 DEF ToSet
  <2>1. CASE i < k
    <3>1. i \in DOMAIN r /\ r[i] = s[i]
      BY <1>1, <1>2, <2>1
    <3>2. QED
      BY <3>1 DEF ToSet
  <2>2. CASE i > k
    <3>1. i - 1 \in DOMAIN r /\ r[i-1] = s[i]
      BY <1>1, <1>2, <2>2
    <3>2. QED
      BY <3>1 DEF ToSet
  <2>3. QED
    BY <1>2, <2>1, <2>2
<1>4. ToSet(r) \cup {s[k]} \subseteq ToSet(s)
  <2>1. ASSUME NEW i \in 1..(Len(s) - 1) PROVE r[i] \in ToSet(s)
    BY <1>1, <1>2 DEF ToSet
  <2>2. QED
    BY <1>2, <2>1 DEF ToSet
<1>5. QED
  BY <1>1, <1>3, <1>4 DEF r

(* Appending a new element keeps a sequence free of repetitions. *)
LEMMA DistinctAppend ==
    ASSUME NEW S, NEW s \in Seq(S), NEW e \in S,
           Distinct(s), e \notin ToSet(s)
    PROVE  Distinct(Append(s, e))
<1>1. /\ DOMAIN Append(s, e) = 1..(Len(s) + 1)
      /\ DOMAIN s = 1..Len(s) /\ Len(s) \in Nat
      /\ \A i \in 1..Len(s) : Append(s, e)[i] = s[i]
      /\ Append(s, e)[Len(s) + 1] = e
  BY AppendProperties, LenProperties
<1>2. \A i \in 1..Len(s) : s[i] # e
  BY <1>1 DEF ToSet
<1>3. QED
  BY <1>1, <1>2 DEF Distinct

(* The first of distinct elements does not come again. *)
LEMMA DistinctTail ==
    ASSUME NEW S, NEW s \in Seq(S), s # <<>>, Distinct(s)
    PROVE  Distinct(Tail(s)) /\ Head(s) \notin ToSet(Tail(s))
<1>1. /\ Len(s) \in Nat \ {0} /\ DOMAIN s = 1..Len(s)
      /\ DOMAIN Tail(s) = 1..(Len(s) - 1)
      /\ \A i \in 1..(Len(s) - 1) : Tail(s)[i] = s[i+1]
  BY HeadTailProperties, LenProperties, EmptySeq
<1>2. Head(s) = s[1]
  OBVIOUS
<1>3. Distinct(Tail(s))
  <2> SUFFICES ASSUME NEW i \in 1..(Len(s) - 1), NEW j \in 1..(Len(s) - 1),
                      Tail(s)[i] = Tail(s)[j]
               PROVE  i = j
    BY <1>1 DEF Distinct
  <2>1. i + 1 \in DOMAIN s /\ j + 1 \in DOMAIN s /\ s[i+1] = s[j+1]
    BY <1>1
  <2>2. i + 1 = j + 1
    BY <2>1 DEF Distinct
  <2>3. QED
    BY <2>2
<1>4. ASSUME NEW i \in 1..(Len(s) - 1) PROVE Tail(s)[i] # s[1]
  <2>1. i + 1 \in DOMAIN s /\ 1 \in DOMAIN s /\ i + 1 # 1
    BY <1>1
  <2>2. s[i+1] # s[1]
    BY <2>1 DEF Distinct
  <2>3. QED
    BY <1>1, <2>2
<1>5. QED
  BY <1>1, <1>2, <1>3, <1>4 DEF ToSet

(* An element taken out of distinct ones is gone. *)
LEMMA DistinctRemoveAt ==
    ASSUME NEW S, NEW s \in Seq(S), NEW k \in DOMAIN s, Distinct(s)
    PROVE  Distinct(RemoveAt(s, k)) /\ s[k] \notin ToSet(RemoveAt(s, k))
<1> DEFINE r == RemoveAt(s, k)
           from(i) == IF i < k THEN i ELSE i + 1
<1>1. /\ r \in Seq(S) /\ Len(r) = Len(s) - 1
      /\ \A i \in 1..(Len(s) - 1) : r[i] = IF i < k THEN s[i] ELSE s[i+1]
  BY RemoveAtElements
<1>2. Len(s) \in Nat /\ DOMAIN s = 1..Len(s) /\ DOMAIN r = 1..(Len(s) - 1)
  BY <1>1, LenProperties
<1>3. ASSUME NEW i \in DOMAIN r
      PROVE  from(i) \in DOMAIN s /\ from(i) # k /\ r[i] = s[from(i)]
  BY <1>1, <1>2
<1>4. ASSUME NEW i \in DOMAIN r, NEW j \in DOMAIN r, from(i) = from(j)
      PROVE  i = j
  BY <1>2, <1>4
<1> HIDE DEF r, from
<1>5. Distinct(r)
  <2> SUFFICES ASSUME NEW i \in DOMAIN r, NEW j \in DOMAIN r, r[i] = r[j]
               PROVE  i = j
    BY DEF Distinct
  <2>1. from(i) = from(j)
    BY <1>3 DEF Distinct
  <2>2. QED
    BY <1>4, <2>1
<1>6. s[k] \notin ToSet(r)
  BY <1>3 DEF Distinct, ToSet
<1>7. QED
  BY <1>5, <1>6 DEF r

(* The elements of a concatenation. *)
LEMMA SetOfConcat ==
    ASSUME NEW S, NEW s \in Seq(S), NEW t \in Seq(S)
    PROVE  s \o t \in Seq(S) /\ ToSet(s \o t) = ToSet(s) \cup ToSet(t)
<1>1. /\ s \o t \in Seq(S)
      /\ DOMAIN (s \o t) = 1..(Len(s) + Len(t))
      /\ \A i \in 1..(Len(s) + Len(t)) :
            (s \o t)[i] = IF i <= Len(s) THEN s[i] ELSE t[i - Len(s)]
      /\ Len(s) \in Nat /\ Len(t) \in Nat
      /\ DOMAIN s = 1..Len(s) /\ DOMAIN t = 1..Len(t)
  BY ConcatProperties, LenProperties
<1>2. ToSet(s \o t) \subseteq ToSet(s) \cup ToSet(t)
  <2> SUFFICES ASSUME NEW i \in 1..(Len(s) + Len(t))
               PROVE  (s \o t)[i] \in ToSet(s) \cup ToSet(t)
    BY <1>1 DEF ToSet
  <2>1. CASE i <= Len(s)
    BY <1>1, <2>1 DEF ToSet
  <2>2. CASE i > Len(s)
    <3>1. i - Len(s) \in DOMAIN t /\ (s \o t)[i] = t[i - Len(s)]
      BY <1>1, <2>2
    <3>2. QED
      BY <3>1 DEF ToSet
  <2>3. QED
    BY <1>1, <2>1, <2>2
<1>3. ToSet(s) \subseteq ToSet(s \o t)
  <2> SUFFICES ASSUME NEW i \in 1..Len(s) PROVE s[i] \in ToSet(s \o t)
    BY <1>1 DEF ToSet
  <2>1. i \in DOMAIN (s \o t) /\ (s \o t)[i] = s[i]
    BY <1>1
  <2>2. QED
    BY <2>1 DEF ToSet
<1>4. ToSet(t) \subseteq ToSet(s \o t)
  <2> SUFFICES ASSUME NEW i \in 1..Len(t) PROVE t[i] \in ToSet(s \o t)
    BY <1>1 DEF ToSet
  <2>1. Len(s) + i \in DOMAIN (s \o t) /\ (s \o t)[Len(s) + i] = t[i]
    BY <1>1
  <2>2. QED
    BY <2>1 DEF ToSet
<1>5. QED
  BY <1>1, <1>2, <1>3, <1>4

(* Two sequences without repetitions or common elements, one after the other. *)
LEMMA DistinctConcat ==
    ASSUME NEW S, NEW s \in Seq(S), NEW t \in Seq(S),
           Distinct(s), Distinct(t), ToSet(s) \cap ToSet(t) = {}
    PROVE  Distinct(s \o t)
<1>1. /\ DOMAIN (s \o t) = 1..(Len(s) + Len(t))
      /\ \A i \in 1..(Len(s) + Len(t)) :
            (s \o t)[i] = IF i <= Len(s) THEN s[i] ELSE t[i - Len(s)]
      /\ Len(s) \in Nat /\ Len(t) \in Nat
      /\ DOMAIN s = 1..Len(s) /\ DOMAIN t = 1..Len(t)
  BY ConcatProperties, LenProperties
<1>2. ASSUME NEW i \in DOMAIN s, NEW j \in DOMAIN t PROVE s[i] # t[j]
  BY DEF ToSet
<1> SUFFICES ASSUME NEW i \in DOMAIN (s \o t), NEW j \in DOMAIN (s \o t),
                    (s \o t)[i] = (s \o t)[j]
             PROVE  i = j
  BY DEF Distinct
<1>3. CASE i <= Len(s) /\ j <= Len(s)
  BY <1>1, <1>3 DEF Distinct
<1>4. CASE i > Len(s) /\ j > Len(s)
  <2>1. /\ i - Len(s) \in DOMAIN t /\ j - Len(s) \in DOMAIN t
        /\ t[i - Len(s)] = t[j - Len(s)]
    BY <1>1, <1>4
  <2>2. i - Len(s) = j - Len(s)
    BY <2>1 DEF Distinct
  <2>3. QED
    BY <1>1, <2>2
<1>5. CASE i <= Len(s) /\ j > Len(s)
  <2>1. i \in DOMAIN s /\ j - Len(s) \in DOMAIN t /\ s[i] = t[j - Len(s)]
    BY <1>1, <1>5
  <2>2. QED
    BY <1>2, <2>1
<1>6. CASE i > Len(s) /\ j <= Len(s)
  <2>1. j \in DOMAIN s /\ i - Len(s) \in DOMAIN t /\ s[j] = t[i - Len(s)]
    BY <1>1, <1>6
  <2>2. QED
    BY <1>2, <2>1
<1>7. QED
  BY <1>1, <1>3, <1>4, <1>5, <1>6

(* Moving the head of the second list to the end of the first changes      *)
(* nothing in the concatenation.                                           *)
LEMMA MoveHead ==
    ASSUME NEW S, NEW s \in Seq(S), NEW t \in Seq(S), t # <<>>
    PROVE  Append(s, Head(t)) \o Tail(t) = s \o t
<1> DEFINE p == Append(s, Head(t))
           q == Tail(t)
<1>1. /\ Head(t) \in S /\ q \in Seq(S) /\ Len(q) = Len(t) - 1
      /\ \A i \in 1..Len(q) : q[i] = t[i+1]
      /\ Head(t) = t[1]
  BY HeadTailProperties
<1>2. /\ p \in Seq(S) /\ Len(p) = Len(s) + 1
      /\ \A i \in 1..Len(s) : p[i] = s[i]
      /\ p[Len(s) + 1] = t[1]
  BY <1>1, AppendProperties
<1>3. Len(s) \in Nat /\ Len(t) \in Nat \ {0}
  BY LenProperties, EmptySeq
<1> HIDE DEF p, q
<1>4. /\ p \o q \in Seq(S) /\ Len(p \o q) = Len(p) + Len(q)
      /\ \A i \in 1..(Len(p) + Len(q)) :
            (p \o q)[i] = IF i <= Len(p) THEN p[i] ELSE q[i - Len(p)]
  BY <1>1, <1>2, ConcatProperties
<1>5. /\ s \o t \in Seq(S) /\ Len(s \o t) = Len(s) + Len(t)
      /\ \A i \in 1..(Len(s) + Len(t)) :
            (s \o t)[i] = IF i <= Len(s) THEN s[i] ELSE t[i - Len(s)]
  BY ConcatProperties
<1>6. Len(p \o q) = Len(s \o t) /\ Len(p) + Len(q) = Len(s) + Len(t)
  BY <1>1, <1>2, <1>3, <1>4, <1>5
<1>7. ASSUME NEW i \in 1..Len(p \o q) PROVE (p \o q)[i] = (s \o t)[i]
  <2>1. i \in 1..(Len(p) + Len(q)) /\ i \in 1..(Len(s) + Len(t)) /\ i \in Int
    BY <1>4, <1>5, <1>6
  <2>2. CASE i <= Len(s)
    <3>1. i <= Len(p) /\ i \in 1..Len(s)
      BY <1>2, <1>3, <2>1, <2>2
    <3>2. (p \o q)[i] = p[i] /\ (s \o t)[i] = s[i]
      BY <1>4, <1>5, <2>1, <2>2, <3>1
    <3>3. QED
      BY <1>2, <3>1, <3>2
  <2>3. CASE i = Len(s) + 1
    <3>1. i <= Len(p) /\ ~(i <= Len(s)) /\ i - Len(s) = 1
      BY <1>2, <1>3, <2>3
    <3>2. (p \o q)[i] = p[i] /\ (s \o t)[i] = t[i - Len(s)]
      BY <1>4, <1>5, <2>1, <3>1
    <3>3. QED
      BY <1>2, <2>3, <3>1, <3>2
  <2>4. CASE i > Len(s) + 1
    <3>1. /\ ~(i <= Len(p)) /\ ~(i <= Len(s))
          /\ i - Len(p) \in 1..Len(q) /\ (i - Len(p)) + 1 = i - Len(s)
      BY <1>1, <1>2, <1>3, <2>1, <2>4
    <3>2. (p \o q)[i] = q[i - Len(p)] /\ (s \o t)[i] = t[i - Len(s)]
      BY <1>4, <1>5, <2>1, <3>1
    <3>3. q[i - Len(p)] = t[(i - Len(p)) + 1]
      BY <1>1, <3>1
    <3>4. QED
      BY <3>1, <3>2, <3>3
  <2>5. i <= Len(s) \/ i = Len(s) + 1 \/ i > Len(s) + 1
    BY <1>3, <2>1
  <2>6. QED
    BY <2>2, <2>3, <2>4, <2>5
<1>8. p \o q = s \o t
  BY <1>4, <1>5, <1>6, <1>7, SeqEqual
<1>9. QED
  BY <1>8 DEF p, q

(* Dropping the head of the second list takes one element out of the       *)
(* concatenation.                                                          *)
LEMMA DropHead ==
    ASSUME NEW S, NEW s \in Seq(S), NEW t \in Seq(S), t # <<>>
    PROVE  /\ Len(s) + 1 \in DOMAIN (s \o t)
           /\ s \o Tail(t) = RemoveAt(s \o t, Len(s) + 1)
<1> DEFINE q == Tail(t)
           w == s \o t
           k == Len(s) + 1
           r == RemoveAt(w, k)
<1>1. /\ q \in Seq(S) /\ Len(q) = Len(t) - 1
      /\ \A i \in 1..Len(q) : q[i] = t[i+1]
  BY HeadTailProperties
<1>2. Len(s) \in Nat /\ Len(t) \in Nat \ {0}
  BY LenProperties, EmptySeq
<1>3. /\ w \in Seq(S) /\ Len(w) = Len(s) + Len(t)
      /\ \A i \in 1..(Len(s) + Len(t)) :
            w[i] = IF i <= Len(s) THEN s[i] ELSE t[i - Len(s)]
  BY ConcatProperties
<1>4. k \in DOMAIN w
  BY <1>2, <1>3, LenProperties
<1> HIDE DEF w, q
<1>5. /\ s \o q \in Seq(S) /\ Len(s \o q) = Len(s) + Len(q)
      /\ \A i \in 1..(Len(s) + Len(q)) :
            (s \o q)[i] = IF i <= Len(s) THEN s[i] ELSE q[i - Len(s)]
  BY <1>1, ConcatProperties
<1>6. /\ r \in Seq(S) /\ Len(r) = Len(w) - 1
      /\ \A i \in 1..(Len(w) - 1) : r[i] = IF i < k THEN w[i] ELSE w[i+1]
  BY <1>3, <1>4, RemoveAtElements
<1> HIDE DEF r
<1>7. Len(s \o q) = Len(r)
  BY <1>1, <1>2, <1>3, <1>5, <1>6
<1>8. ASSUME NEW i \in 1..Len(s \o q) PROVE (s \o q)[i] = r[i]
  <2>1. i \in 1..(Len(s) + Len(q)) /\ i \in 1..(Len(w) - 1) /\ i \in Int
    BY <1>1, <1>2, <1>3, <1>5
  <2>2. CASE i <= Len(s)
    <3>1. i < k /\ i \in 1..(Len(s) + Len(t))
      BY <1>1, <1>2, <2>1, <2>2
    <3>2. (s \o q)[i] = s[i] /\ r[i] = w[i] /\ w[i] = s[i]
      BY <1>3, <1>5, <1>6, <2>1, <2>2, <3>1
    <3>3. QED
      BY <3>2
  <2>3. CASE i > Len(s)
    <3>1. /\ ~(i <= Len(s)) /\ ~(i < k) /\ ~(i + 1 <= Len(s))
          /\ i + 1 \in 1..(Len(s) + Len(t))
          /\ i - Len(s) \in 1..Len(q)
          /\ (i - Len(s)) + 1 = (i + 1) - Len(s)
      BY <1>1, <1>2, <2>1, <2>3
    <3>2. (s \o q)[i] = q[i - Len(s)] /\ r[i] = w[i+1] /\ w[i+1] = t[(i+1) - Len(s)]
      BY <1>3, <1>5, <1>6, <2>1, <3>1
    <3>3. q[i - Len(s)] = t[(i - Len(s)) + 1]
      BY <1>1, <3>1
    <3>4. QED
      BY <3>1, <3>2, <3>3
  <2>4. i <= Len(s) \/ i > Len(s)
    BY <1>2, <2>1
  <2>5. QED
    BY <2>2, <2>3, <2>4
<1>9. s \o q = r
  BY <1>5, <1>6, <1>7, <1>8, SeqEqual
<1>10. QED
  BY <1>4, <1>9 DEF q, r, w

==============================================================================
