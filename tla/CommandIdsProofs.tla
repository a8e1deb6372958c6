-------------------------- MODULE CommandIdsProofs --------------------------
(***************************************************************************)
(* Theorems about CommandIds, for text of any length and ids of any number *)
(* of bytes.  Each loop is first given its equations; what it computes is  *)
(* then proved by induction over its rounds.                               *)
(***************************************************************************)
EXTENDS CommandIds, Induction, TLAPS

(* What the loop over the text carries. *)
Reading == [count : Nat, high : 0..15, ok : BOOLEAN, output : Packed]

Start == [count |-> 0, high |-> 0, ok |-> TRUE, output |-> [i \in 0..(Width - 1) |-> 0]]

(* A digit is a number below 16. *)
LEMMA NibbleType == \A b \in Byte : IsHex(b) => Nibble(b) \in 0..15
  BY DEF Byte, IsHex, Nibble

(* What is written for a number below 16 is a digit, of that number.       *)
LEMMA NibbleOfDigit ==
    \A n \in 0..15 : /\ HexDigit(n) \in Byte /\ HexDigit(n) # Hyphen
                     /\ IsHex(HexDigit(n)) /\ Nibble(HexDigit(n)) = n
  BY DEF Byte, HexDigit, IsHex, Nibble, Hyphen

(* A byte is made of two digits. *)
LEMMA Halves ==
    ASSUME NEW v \in Byte
    PROVE  /\ v \div 16 \in 0..15 /\ v % 16 \in 0..15
           /\ v = 16 * (v \div 16) + (v % 16)
<1>1. v \div 16 \in 0..15 /\ v % 16 \in 0..15
  BY DEF Byte
<1>2. v = 16 * (v \div 16) + (v % 16)
  BY DEF Byte
<1> QED
  BY <1>1, <1>2

(* Two digits make a byte. *)
LEMMA Whole == \A x, y \in 0..15 : 16 * x + y \in Byte
  BY DEF Byte

(* Numbers are even or odd. *)
LEMMA EvenOrOdd ==
    ASSUME NEW n \in Nat
    PROVE  /\ n \div 2 \in Nat /\ n % 2 \in 0..1
           /\ n = 2 * (n \div 2) + (n % 2)
<1>1. n \div 2 \in Nat /\ n % 2 \in 0..1
  OBVIOUS
<1>2. n = 2 * (n \div 2) + (n % 2)
  OBVIOUS
<1> QED
  BY <1>1, <1>2

(* One byte of text takes what the loop carries to such. *)
LEMMA TakeType ==
    ASSUME NEW acc \in Reading, NEW b \in Byte PROVE Take(acc, b) \in Reading
<1>1. CASE ~acc.ok \/ b = Hyphen
  BY <1>1 DEF Take
<1>2. CASE ~(~acc.ok \/ b = Hyphen) /\ ~IsHex(b)
  BY <1>2 DEF Take, Reading
<1>3. CASE ~(~acc.ok \/ b = Hyphen) /\ IsHex(b)
  <2>1. Nibble(b) \in 0..15
    BY <1>3, NibbleType
  <2>2. CASE acc.count % 2 = 0
    <3> DEFINE v == Nibble(b)
    <3>1. Take(acc, b) = [acc EXCEPT !.high = v, !.count = acc.count + 1]
      BY <1>3, <2>2 DEF Take, Reading
    <3>2. v \in 0..15 /\ acc.count + 1 \in Nat
      BY <2>1 DEF Reading
    <3> HIDE DEF v
    <3> QED
      BY <3>1, <3>2 DEF Reading
  <2>3. CASE acc.count % 2 # 0 /\ acc.count \div 2 >= Width
    BY <1>3, <2>3 DEF Take, Reading
  <2>4. CASE acc.count % 2 # 0 /\ ~(acc.count \div 2 >= Width)
    <3> DEFINE i == acc.count \div 2
               v == 16 * acc.high + Nibble(b)
    <3>1. i \in 0..(Width - 1) /\ v \in Byte
      BY <2>1, <2>4, Whole, EvenOrOdd, IdAssumption DEF Reading
    <3>2. Take(acc, b) = [acc EXCEPT !.output = [acc.output EXCEPT ![i] = v],
                                     !.count = acc.count + 1]
      BY <1>3, <2>4 DEF Take, Reading
    <3> DEFINE o == [acc.output EXCEPT ![i] = v]
    <3> HIDE DEF i, v
    <3>3. o \in Packed
      BY <3>1 DEF Reading, Packed
    <3>4. Take(acc, b) = [acc EXCEPT !.output = o, !.count = acc.count + 1]
      BY <3>2
    <3>5. acc.count + 1 \in Nat
      BY DEF Reading
    <3> HIDE DEF o
    <3> QED
      BY <3>3, <3>4, <3>5 DEF Reading
  <2> QED
    BY <2>2, <2>3, <2>4
<1> QED
  BY <1>1, <1>2, <1>3

(* Of a byte, its two digits are written, behind a hyphen at some places.  *)
LEMMA PutType ==
    ASSUME NEW text \in Text, NEW id \in Packed, NEW i \in 0..(Width - 1)
    PROVE  Put(text, id, i) \in Text
<1> DEFINE start == IF i \in Breaks THEN Append(text, Hyphen) ELSE text
           x == HexDigit(id[i] \div 16)
           y == HexDigit(id[i] % 16)
<1>1. x \in Byte /\ y \in Byte
  BY Halves, NibbleOfDigit DEF Packed
<1>2. start \in Text
  BY DEF Text, Byte, Hyphen
<1>3. Put(text, id, i) = Append(Append(start, x), y)
  BY DEF Put
<1> HIDE DEF start, x, y
<1> QED
  BY <1>1, <1>2, <1>3 DEF Text

(* The equations of the loop in parse_uuid_compact_bytes. *)
LEMMA PackingDef ==
    ASSUME NEW text \in Text
    PROVE  /\ Packing(text) \in [0..Len(text) -> Reading]
           /\ Packing(text)[0] = Start
           /\ \A k \in 1..Len(text) : Packing(text)[k] = Take(Packing(text)[k - 1], text[k])
<1> DEFINE N == Len(text)
           step == [k \in 1..N |-> [a \in Reading |-> Take(a, text[k])]]
           Is(f) == f = [k \in 0..N |-> IF k = 0 THEN Start ELSE Take(f[k - 1], text[k])]
           e == Packing(text)
<1>1. N \in Nat /\ Start \in Reading /\ \A k \in 1..N : text[k] \in Byte
  <2>1. [i \in 0..(Width - 1) |-> 0] \in Packed
    BY DEF Packed, Byte
  <2>2. Start \in Reading
    BY <2>1 DEF Start, Reading
  <2> QED
    BY <2>2 DEF Text
<1>2. PICK f \in [0..N -> Reading] :
         f[0] = Start /\ \A k \in 1..N : f[k] = Take(f[k - 1], text[k])
  <2>1. step \in [1..N -> [Reading -> Reading]]
    BY <1>1, TakeType
  <2>2. PICK f \in [0..N -> Reading] :
           f[0] = Start /\ \A k \in 1..N : f[k] = step[k][f[k - 1]]
    <3> HIDE DEF N, step
    <3> QED
      BY <1>1, <2>1, LoopRuns
  <2>3. ASSUME NEW k \in 1..N PROVE f[k] = Take(f[k - 1], text[k])
    <3>1. f[k - 1] \in Reading
      BY <1>1
    <3> QED
      BY <2>2, <3>1
  <2> QED
    BY <2>2, <2>3
<1>3. Is(f)
  <2> HIDE DEF N
  <2> QED
    BY <1>1, <1>2
<1>4. Is(e)
  <2>1. e = CHOOSE g : Is(g)
    BY Zenon DEF Packing, Start
  <2> HIDE DEF Is, e
  <2> QED
    BY <1>3, <2>1
<1> HIDE DEF e, N
<1>5. /\ e = [k \in 0..N |-> e[k]] /\ e[0] = Start
      /\ \A k \in 1..N : e[k] = Take(e[k - 1], text[k])
  <2> DEFINE G == [k \in 0..N |-> IF k = 0 THEN Start ELSE Take(e[k - 1], text[k])]
  <2>1. /\ G = [k \in 0..N |-> G[k]] /\ G[0] = Start
        /\ \A k \in 1..N : G[k] = Take(e[k - 1], text[k])
    BY <1>1
  <2>2. e = G
    BY <1>4
  <2> HIDE DEF G
  <2> QED
    BY <2>1, <2>2
<1>6. \A k \in 1..N : e[k - 1] \in Reading => e[k] \in Reading
  BY <1>1, <1>5, TakeType
<1>7. \A k \in 0..N : e[k] \in Reading
  BY <1>1, <1>5, <1>6, LoopTyped
<1> QED
  BY <1>5, <1>7 DEF e, N

(* What a text's digits are appended to, one byte of it at a time. *)
Digit(ds, b) == IF b = Hyphen THEN ds ELSE Append(ds, Nibble(b))

(* The equations of the digits of a text. *)
LEMMA DigitsDef ==
    ASSUME NEW text \in Text
    PROVE  /\ Digits(text) \in [0..Len(text) -> Seq(Int)]
           /\ Digits(text)[0] = <<>>
           /\ \A k \in 1..Len(text) : Digits(text)[k] = Digit(Digits(text)[k - 1], text[k])
<1> DEFINE N == Len(text)
           step == [k \in 1..N |-> [a \in Seq(Int) |-> Digit(a, text[k])]]
           Is(f) == f = [k \in 0..N |->
                           IF k = 0 THEN <<>>
                           ELSE IF text[k] = Hyphen THEN f[k - 1]
                                                    ELSE Append(f[k - 1], Nibble(text[k]))]
           e == Digits(text)
           A == Seq(Int)
           base == <<>>
<1>1. N \in Nat /\ <<>> \in Seq(Int) /\ \A k \in 1..N : text[k] \in Byte
  BY DEF Text
<1>2. \A ds \in Seq(Int), b \in Byte : Digit(ds, b) \in Seq(Int)
  BY DEF Digit, Nibble, Byte
<1>3. PICK f \in [0..N -> Seq(Int)] :
         f[0] = <<>> /\ \A k \in 1..N : f[k] = Digit(f[k - 1], text[k])
  <2>1. step \in [1..N -> [Seq(Int) -> Seq(Int)]]
    BY <1>1, <1>2
  <2>2. PICK f \in [0..N -> Seq(Int)] :
           f[0] = <<>> /\ \A k \in 1..N : f[k] = step[k][f[k - 1]]
    <3>1. N \in Nat /\ base \in A /\ step \in [1..N -> [A -> A]]
      BY <1>1, <2>1
    <3>2. \E f \in [0..N -> A] : f[0] = base /\ \A k \in 1..N : f[k] = step[k][f[k - 1]]
      <4> HIDE DEF N, step, A, base
      <4> QED
        BY <3>1, LoopRuns
    <3> QED
      BY <3>2
  <2>3. ASSUME NEW k \in 1..N PROVE f[k] = Digit(f[k - 1], text[k])
    <3>1. f[k - 1] \in Seq(Int)
      BY <1>1
    <3> QED
      BY <2>2, <3>1
  <2> QED
    BY <2>2, <2>3
<1>4. Is(f)
  <2>1. \A k \in 1..N : f[k] = IF text[k] = Hyphen THEN f[k - 1]
                                                   ELSE Append(f[k - 1], Nibble(text[k]))
    BY <1>3 DEF Digit
  <2>2. f = [k \in 0..N |-> f[k]] /\ f[0] = <<>>
    BY <1>3
  <2>3. \A k \in 0..N : k = 0 \/ k \in 1..N
    BY <1>1
  <2> HIDE DEF N
  <2> QED
    BY <2>1, <2>2, <2>3, Zenon
<1>5. Is(e)
  <2>1. e = CHOOSE g : Is(g)
    BY Zenon DEF Digits
  <2> HIDE DEF Is, e
  <2> QED
    BY <1>4, <2>1
<1> HIDE DEF e, N
<1>6. /\ e = [k \in 0..N |-> e[k]] /\ e[0] = <<>>
      /\ \A k \in 1..N : e[k] = Digit(e[k - 1], text[k])
  <2> DEFINE G == [k \in 0..N |-> IF k = 0 THEN <<>> ELSE Digit(e[k - 1], text[k])]
  <2>1. /\ G = [k \in 0..N |-> G[k]] /\ G[0] = <<>>
        /\ \A k \in 1..N : G[k] = Digit(e[k - 1], text[k])
    BY <1>1
  <2>2. e = G
    BY <1>5 DEF Digit
  <2> HIDE DEF G
  <2> QED
    BY <2>1, <2>2
<1>7. \A k \in 1..N : e[k - 1] \in Seq(Int) => e[k] \in Seq(Int)
  BY <1>1, <1>2, <1>6
<1>8. \A k \in 0..N : e[k] \in Seq(Int)
  BY <1>1, <1>6, <1>7, LoopTyped
<1> QED
  BY <1>6, <1>8 DEF e, N

(* The equations of the loop in expand_command_id. *)
LEMMA ExpandingDef ==
    ASSUME NEW id \in Packed
    PROVE  /\ Expanding(id) \in [0..Width -> Text]
           /\ Expanding(id)[0] = <<>>
           /\ \A k \in 1..Width : Expanding(id)[k] = Put(Expanding(id)[k - 1], id, k - 1)
<1> DEFINE N == Width
           step == [k \in 1..N |-> [a \in Text |-> Put(a, id, k - 1)]]
           Is(f) == f = [k \in 0..N |-> IF k = 0 THEN <<>> ELSE Put(f[k - 1], id, k - 1)]
           e == Expanding(id)
           base == <<>>
<1>1. N \in Nat /\ <<>> \in Text
  BY IdAssumption DEF Text
<1>2. ASSUME NEW t \in Text, NEW k \in 1..N PROVE Put(t, id, k - 1) \in Text
  <2>1. k - 1 \in 0..(Width - 1)
    BY IdAssumption
  <2> QED
    BY <2>1, PutType
<1>3. PICK f \in [0..N -> Text] :
         f[0] = <<>> /\ \A k \in 1..N : f[k] = Put(f[k - 1], id, k - 1)
  <2>1. step \in [1..N -> [Text -> Text]]
    BY <1>1, <1>2
  <2>2. PICK f \in [0..N -> Text] :
           f[0] = <<>> /\ \A k \in 1..N : f[k] = step[k][f[k - 1]]
    <3>1. N \in Nat /\ base \in Text /\ step \in [1..N -> [Text -> Text]]
      BY <1>1, <2>1
    <3>2. \E f \in [0..N -> Text] : f[0] = base /\ \A k \in 1..N : f[k] = step[k][f[k - 1]]
      <4> HIDE DEF N, step, base
      <4> QED
        BY <3>1, LoopRuns
    <3> QED
      BY <3>2
  <2>3. ASSUME NEW k \in 1..N PROVE f[k] = Put(f[k - 1], id, k - 1)
    <3>1. f[k - 1] \in Text
      BY <1>1
    <3> QED
      BY <2>2, <3>1
  <2> QED
    BY <2>2, <2>3
<1>4. Is(f)
  <2> HIDE DEF N
  <2> QED
    BY <1>1, <1>3
<1>5. Is(e)
  <2>1. e = CHOOSE g : Is(g)
    BY Zenon DEF Expanding
  <2> HIDE DEF Is, e
  <2> QED
    BY <1>4, <2>1
<1> HIDE DEF e, N
<1>6. /\ e = [k \in 0..N |-> e[k]] /\ e[0] = <<>>
      /\ \A k \in 1..N : e[k] = Put(e[k - 1], id, k - 1)
  <2> DEFINE G == [k \in 0..N |-> IF k = 0 THEN <<>> ELSE Put(e[k - 1], id, k - 1)]
  <2>1. /\ G = [k \in 0..N |-> G[k]] /\ G[0] = <<>>
        /\ \A k \in 1..N : G[k] = Put(e[k - 1], id, k - 1)
    BY <1>1
  <2>2. e = G
    BY <1>5
  <2> HIDE DEF G
  <2> QED
    BY <2>1, <2>2
<1>7. \A k \in 1..N : e[k - 1] \in Text => e[k] \in Text
  BY <1>2, <1>6
<1>8. \A k \in 0..N : e[k] \in Text
  BY <1>1, <1>6, <1>7, LoopTyped
<1> QED
  BY <1>6, <1>8 DEF e, N

----------------------------------------------------------------------------
(* Packing *)

(* The halves of a number and of the next one. *)
LEMMA NextHalf ==
    ASSUME NEW n \in Nat
    PROVE  /\ n % 2 = 0 => (n + 1) \div 2 = n \div 2 /\ (n + 1) % 2 = 1
           /\ n % 2 # 0 => (n + 1) \div 2 = (n \div 2) + 1 /\ (n + 1) % 2 = 0
<1>1. n + 1 \in Nat
  OBVIOUS
<1> DEFINE q == n \div 2
           r == n % 2
           s == (n + 1) \div 2
           t == (n + 1) % 2
<1>2. q \in Nat /\ r \in 0..1 /\ n = 2 * q + r
  BY EvenOrOdd
<1>3. s \in Nat /\ t \in 0..1 /\ n + 1 = 2 * s + t
  BY <1>1, EvenOrOdd
<1> HIDE DEF q, r, s, t
<1>4. (r = 0 => s = q /\ t = 1) /\ (r # 0 => s = q + 1 /\ t = 0)
  BY <1>2, <1>3
<1> QED
  BY <1>4 DEF q, r, s, t

(* As long as nothing is wrong, the loop has counted the digits so far,    *)
(* holds the bytes that two digits each have completed and, of a byte that *)
(* is not complete, its first digit.                                       *)
Agree(acc, ds) ==
    /\ acc.count = Len(ds)
    /\ acc.count \div 2 <= Width
    /\ \A j \in 0..(Width - 1) :
          j < acc.count \div 2 => acc.output[j] = 16 * ds[2 * j + 1] + ds[2 * j + 2]
    /\ acc.count % 2 # 0 => acc.high = ds[acc.count]

(* A further digit keeps this so, unless it is one too many.               *)
LEMMA TakeAgrees ==
    ASSUME NEW acc \in Reading, NEW ds \in Seq(Int), NEW b \in Byte,
           acc.ok, Agree(acc, ds), IsHex(b), b # Hyphen
    PROVE  /\ Take(acc, b).ok => Agree(Take(acc, b), Append(ds, Nibble(b)))
           /\ ~Take(acc, b).ok => Len(Append(ds, Nibble(b))) > 2 * Width
<1> DEFINE n == acc.count
           q == n \div 2
           v == Nibble(b)
           es == Append(ds, v)
           new == Take(acc, b)
<1>1. /\ n \in Nat /\ q \in Nat /\ v \in Int /\ n = Len(ds) /\ q <= Width
      /\ n % 2 \in 0..1 /\ n = 2 * q + (n % 2)
  <2>1. n \in Nat /\ v \in Int
    BY DEF Reading, Nibble, Byte
  <2>2. q \in Nat /\ n % 2 \in 0..1 /\ n = 2 * q + (n % 2)
    BY <2>1, EvenOrOdd
  <2> QED
    BY <2>1, <2>2 DEF Agree
<1>2. /\ es \in Seq(Int) /\ Len(es) = n + 1 /\ es[n + 1] = v
      /\ \A i \in 1..n : es[i] = ds[i]
  <2> HIDE DEF v
  <2> QED
    BY <1>1
<1>3. \A j \in 0..(Width - 1) : j < q => acc.output[j] = 16 * ds[2 * j + 1] + ds[2 * j + 2]
  BY DEF Agree
<1>4. \A j \in 0..(Width - 1) : j < q => acc.output[j] = 16 * es[2 * j + 1] + es[2 * j + 2]
  <2> SUFFICES ASSUME NEW j \in 0..(Width - 1), j < q
               PROVE  acc.output[j] = 16 * es[2 * j + 1] + es[2 * j + 2]
    OBVIOUS
  <2> HIDE DEF es, q
  <2>1. 2 * j + 1 \in 1..n /\ 2 * j + 2 \in 1..n
    <3> HIDE DEF n
    <3> QED
      BY <1>1, IdAssumption DEF q
  <2> QED
    BY <1>2, <1>3, <2>1
<1>5. CASE n % 2 = 0
  <2>1. new = [acc EXCEPT !.high = v, !.count = n + 1]
    BY <1>5 DEF Take
  <2>2. new.ok /\ new.high = v /\ new.count = n + 1 /\ new.output = acc.output
    BY <2>1 DEF Reading
  <2>3. (n + 1) \div 2 = q
    BY <1>1, <1>5, NextHalf
  <2> HIDE DEF n, q, v, es, new
  <2>4. Agree(new, es)
    BY <1>1, <1>2, <1>4, <2>2, <2>3 DEF Agree
  <2> QED
    BY <2>2, <2>4 DEF n, q, v, es, new
<1>6. CASE n % 2 # 0 /\ q >= Width
  <2>1. new = [acc EXCEPT !.ok = FALSE]
    BY <1>6 DEF Take
  <2>2. ~new.ok
    BY <2>1 DEF Reading
  <2>3. n + 1 > 2 * Width
    <3> HIDE DEF n, q
    <3> QED
      BY <1>1, <1>6, IdAssumption
  <2> HIDE DEF n, q, v, es, new
  <2> QED
    BY <1>2, <2>2, <2>3 DEF n, q, v, es, new
<1>7. CASE n % 2 # 0 /\ ~(q >= Width)
  <2> DEFINE w == 16 * acc.high + v
  <2>1. new = [acc EXCEPT !.output = [acc.output EXCEPT ![q] = w], !.count = n + 1]
    BY <1>7 DEF Take
  <2>2. new.ok /\ new.count = n + 1 /\ new.output = [acc.output EXCEPT ![q] = w]
    BY <2>1 DEF Reading
  <2>3. (n + 1) \div 2 = q + 1 /\ (n + 1) % 2 = 0
    BY <1>1, <1>7, NextHalf
  <2>4. acc.high = ds[n]
    BY <1>7 DEF Agree
  <2>5. DOMAIN acc.output = 0..(Width - 1)
    BY DEF Reading, Packed
  <2>6. n = 2 * q + 1 /\ q \in 0..(Width - 1) /\ n \in 1..n
    <3> HIDE DEF n, q
    <3> QED
      BY <1>1, <1>7, IdAssumption
  <2>7. w = 16 * es[2 * q + 1] + es[2 * q + 2]
    <3>1. es[n] = ds[n] /\ n + 1 = 2 * q + 2
      BY <1>1, <1>2, <2>6
    <3> HIDE DEF n, q, es, v
    <3> QED
      BY <1>2, <2>4, <2>6, <3>1 DEF w
  <2> HIDE DEF n, q, v, es, new, w
  <2>8. ASSUME NEW j \in 0..(Width - 1), j < q + 1
        PROVE  new.output[j] = 16 * es[2 * j + 1] + es[2 * j + 2]
    <3>1. CASE j = q
      BY <2>2, <2>5, <2>6, <2>7, <3>1
    <3>2. CASE j # q
      <4>1. j < q
        BY <1>1, <2>8, <3>2, IdAssumption
      <4> QED
        BY <1>4, <2>2, <2>5, <3>2, <4>1
    <3> QED
      BY <3>1, <3>2
  <2>9. Agree(new, es)
    <3>1. new.count \div 2 = q + 1 /\ new.count % 2 = 0 /\ q + 1 <= Width
      BY <2>2, <2>3, <2>6, IdAssumption
    <3> QED
      BY <1>2, <2>2, <2>8, <3>1 DEF Agree
  <2> QED
    BY <2>2, <2>9 DEF n, q, v, es, new
<1> QED
  BY <1>5, <1>6, <1>7

(* The first k bytes of a text are hyphens and digits. *)
Clean(text, k) == \A i \in 1..k : text[i] = Hyphen \/ IsHex(text[i])

(* What the loop has found out about the text after k bytes of it. *)
Found(text, k) ==
    LET acc == Packing(text)[k] ds == Digits(text)[k]
    IN  /\ acc.ok => Clean(text, k) /\ Agree(acc, ds)
        /\ ~acc.ok => ~Clean(text, k) \/ Len(ds) > 2 * Width

(* One more byte. *)
LEMMA FoundNext ==
    ASSUME NEW text \in Text, NEW k \in 1..Len(text), Found(text, k - 1)
    PROVE  Found(text, k)
<1> DEFINE acc == Packing(text)[k - 1]
           ds == Digits(text)[k - 1]
           b == text[k]
           new == Packing(text)[k]
           es == Digits(text)[k]
<1>1. /\ acc \in Reading /\ ds \in Seq(Int) /\ b \in Byte
      /\ new = Take(acc, b) /\ es = Digit(ds, b) /\ k \in Nat /\ k - 1 \in 0..Len(text)
  <2>1. k - 1 \in 0..Len(text) /\ k \in Nat /\ b \in Byte
    BY DEF Text
  <2>2. acc \in Reading /\ new = Take(acc, b)
    BY <2>1, PackingDef
  <2>3. ds \in Seq(Int) /\ es = Digit(ds, b)
    BY <2>1, DigitsDef
  <2> QED
    BY <2>1, <2>2, <2>3
<1>2. /\ acc.ok => Clean(text, k - 1) /\ Agree(acc, ds)
      /\ ~acc.ok => ~Clean(text, k - 1) \/ Len(ds) > 2 * Width
  BY DEF Found
<1>3. Clean(text, k) <=> Clean(text, k - 1) /\ (b = Hyphen \/ IsHex(b))
  BY <1>1 DEF Clean
<1>4. Nibble(b) \in Int
  <2> HIDE DEF b
  <2> QED
    BY <1>1 DEF Nibble, Byte
<1>5. Len(ds) \in Nat /\ Len(es) \in Nat /\ Len(es) >= Len(ds)
  <2> DEFINE v == Nibble(b)
  <2>1. es = ds \/ es = Append(ds, v)
    BY <1>1 DEF Digit
  <2> HIDE DEF ds, es, v
  <2> QED
    BY <1>1, <1>4, <2>1 DEF v
<1> HIDE DEF acc, ds, b, new, es
<1>6. /\ new.ok => Clean(text, k) /\ Agree(new, es)
      /\ ~new.ok => ~Clean(text, k) \/ Len(es) > 2 * Width
  <2>1. CASE ~acc.ok
    BY <1>1, <1>2, <1>3, <1>5, <2>1, IdAssumption DEF Take
  <2>2. CASE acc.ok /\ b = Hyphen
    BY <1>1, <1>2, <1>3, <2>2 DEF Take, Digit
  <2>3. CASE acc.ok /\ b # Hyphen /\ ~IsHex(b)
    <3>1. new = [acc EXCEPT !.ok = FALSE]
      BY <1>1, <2>3 DEF Take
    <3>2. ~new.ok
      BY <1>1, <3>1 DEF Reading
    <3> QED
      BY <1>3, <2>3, <3>2
  <2>4. CASE acc.ok /\ b # Hyphen /\ IsHex(b)
    <3>1. es = Append(ds, Nibble(b)) /\ Agree(acc, ds)
      BY <1>1, <1>2, <2>4 DEF Digit
    <3>2. /\ new.ok => Agree(new, es)
          /\ ~new.ok => Len(es) > 2 * Width
      BY <1>1, <2>4, <3>1, TakeAgrees
    <3> QED
      BY <1>2, <1>3, <2>4, <3>2
  <2> QED
    BY <2>1, <2>2, <2>3, <2>4
<1> QED
  BY <1>6 DEF Found, new, es

(* So it is for the whole text. *)
LEMMA FoundAll == \A text \in Text : Found(text, Len(text))
<1> SUFFICES ASSUME NEW text \in Text PROVE Found(text, Len(text))
  OBVIOUS
<1> DEFINE N == Len(text)
           S == {k \in 0..N : Found(text, k)}
<1>1. N \in Nat
  BY DEF Text
<1>2. Found(text, 0)
  <2> DEFINE acc == Packing(text)[0]
             ds == Digits(text)[0]
  <2>1. acc = Start /\ ds = <<>>
    BY PackingDef, DigitsDef
  <2>2. acc.ok /\ acc.count = 0 /\ Len(ds) = 0
    BY <2>1 DEF Start
  <2>3. Clean(text, 0)
    BY DEF Clean
  <2>4. 0 \div 2 = 0 /\ 0 % 2 = 0
    OBVIOUS
  <2> HIDE DEF acc, ds
  <2>5. Agree(acc, ds)
    BY <2>2, <2>4, IdAssumption DEF Agree
  <2> QED
    BY <2>2, <2>3, <2>5 DEF Found, acc, ds
<1>3. ASSUME NEW k \in 0..(N - 1), k \in S PROVE k + 1 \in S
  <2>1. k + 1 \in 1..N /\ (k + 1) - 1 = k
    BY <1>1
  <2> QED
    BY <1>3, <2>1, FoundNext
<1>4. 0..N \subseteq S
  <2>1. 0 \in S
    BY <1>1, <1>2
  <2> HIDE DEF S
  <2> QED
    BY <1>1, <1>3, <2>1, UpTo
<1> QED
  BY <1>1, <1>4

(* parse_uuid_compact_bytes accepts exactly the texts of 2 * Width digits  *)
(* with hyphens anywhere, and each byte it writes consists of the two      *)
(* digits at its place (ble.rs:788-826).                                   *)
THEOREM PackingCorrect == \A text \in Text : UuidIs(text) /\ PackIs(text)
<1> SUFFICES ASSUME NEW text \in Text PROVE UuidIs(text) /\ PackIs(text)
  OBVIOUS
<1> DEFINE acc == Packing(text)[Len(text)]
           ds == Digits(text)[Len(text)]
<1>1. /\ acc.ok => Clean(text, Len(text)) /\ Agree(acc, ds)
      /\ ~acc.ok => ~Clean(text, Len(text)) \/ Len(ds) > 2 * Width
  BY FoundAll DEF Found
<1>2. acc \in Reading /\ Len(ds) \in Nat
  <2>1. Len(text) \in Nat
    BY DEF Text
  <2>2. acc \in Reading
    BY <2>1, PackingDef
  <2>3. ds \in Seq(Int)
    BY <2>1, DigitsDef
  <2> QED
    BY <2>2, <2>3
<1>3. UuidIs(text)
  <2>1. IsUuid(text) <=> acc.ok /\ acc.count = 2 * Width
    BY DEF IsUuid
  <2>2. UuidIs(text) <=> (IsUuid(text) <=> Clean(text, Len(text)) /\ Len(ds) = 2 * Width)
    BY DEF UuidIs, Clean, AllDigits
  <2> HIDE DEF acc, ds
  <2> QED
    BY <1>1, <1>2, <2>1, <2>2, IdAssumption DEF Agree
<1>4. PackIs(text)
  <2> SUFFICES ASSUME IsUuid(text)
               PROVE  acc.output = [i \in 0..(Width - 1) |-> 16 * ds[2 * i + 1] + ds[2 * i + 2]]
    BY DEF PackIs, Pack, AllDigits
  <2>1. acc.ok /\ acc.count = 2 * Width
    BY DEF IsUuid
  <2>2. (2 * Width) \div 2 = Width
    BY IdAssumption
  <2> HIDE DEF acc, ds
  <2>3. \A j \in 0..(Width - 1) : acc.output[j] = 16 * ds[2 * j + 1] + ds[2 * j + 2]
    BY <1>1, <2>1, <2>2, IdAssumption DEF Agree
  <2>4. acc.output = [i \in 0..(Width - 1) |-> acc.output[i]]
    BY <1>2 DEF Reading, Packed
  <2> QED
    BY <2>3, <2>4, Zenon
<1> QED
  BY <1>3, <1>4

----------------------------------------------------------------------------
(* Expanding, and packing again *)

(* What the loop has read of a text is not changed by what follows it. *)
LEMMA PackingPrefix ==
    ASSUME NEW text \in Text, NEW b \in Byte
    PROVE  /\ Append(text, b) \in Text
           /\ Packing(Append(text, b))[Len(Append(text, b))]
                = Take(Packing(text)[Len(text)], b)
<1> DEFINE N == Len(text)
           more == Append(text, b)
           e == Packing(text)
           f == Packing(more)
           S == {k \in 0..N : f[k] = e[k]}
<1>1. /\ N \in Nat /\ more \in Text /\ Len(more) = N + 1 /\ more[N + 1] = b
      /\ \A k \in 1..N : more[k] = text[k]
  BY DEF Text
<1>2. e[0] = Start /\ \A k \in 1..N : e[k] = Take(e[k - 1], text[k])
  BY PackingDef
<1>3. f[0] = Start /\ \A k \in 1..(N + 1) : f[k] = Take(f[k - 1], more[k])
  <2> HIDE DEF N, more
  <2>1. f[0] = Start /\ \A k \in 1..Len(more) : f[k] = Take(f[k - 1], more[k])
    BY <1>1, PackingDef
  <2> QED
    BY <1>1, <2>1
<1> HIDE DEF N, more, e, f
<1>4. 0 \in S
  BY <1>1, <1>2, <1>3
<1>5. ASSUME NEW k \in 0..(N - 1), k \in S PROVE k + 1 \in S
  <2>1. k + 1 \in 1..N /\ k + 1 \in 1..(N + 1) /\ (k + 1) - 1 = k /\ k + 1 \in 0..N
    BY <1>1
  <2>2. f[k + 1] = Take(f[k], text[k + 1]) /\ e[k + 1] = Take(e[k], text[k + 1])
    BY <1>1, <1>2, <1>3, <2>1
  <2> QED
    BY <1>5, <2>1, <2>2
<1>6. N \in S
  <2>1. 0..N \subseteq S
    <3> HIDE DEF S
    <3> QED
      BY <1>1, <1>4, <1>5, UpTo
  <2> QED
    BY <1>1, <2>1
<1>7. f[N + 1] = Take(f[N], b)
  <2>1. N + 1 \in 1..(N + 1) /\ (N + 1) - 1 = N
    BY <1>1
  <2> QED
    BY <1>1, <1>3, <2>1
<1> QED
  BY <1>1, <1>6, <1>7 DEF N, more, e, f

(* What the loop has read at the end of a text. *)
End(text) == Packing(text)[Len(text)]

(* Of a text that expand_command_id has written k bytes to, packing reads  *)
(* these bytes.                                                            *)
Written(id, k) ==
    LET acc == End(Expanding(id)[k])
    IN  acc.ok /\ acc.count = 2 * k /\ \A j \in 0..(k - 1) : acc.output[j] = id[j]

(* One more byte. *)
LEMMA WrittenNext ==
    ASSUME NEW id \in Packed, NEW k \in 0..(Width - 1), Written(id, k)
    PROVE  Written(id, k + 1)
<1> DEFINE text == Expanding(id)[k]
           more == Expanding(id)[k + 1]
           start == IF k \in Breaks THEN Append(text, Hyphen) ELSE text
           high == id[k] \div 16
           low == id[k] % 16
           x == HexDigit(high)
           y == HexDigit(low)
           acc == End(text)
<1>1. k \in Nat /\ k + 1 \in 1..Width /\ k \in 0..Width /\ (k + 1) - 1 = k
  BY IdAssumption
<1>2. text \in Text /\ more = Append(Append(start, x), y)
  BY <1>1, ExpandingDef DEF Put
<1>3. /\ high \in 0..15 /\ low \in 0..15 /\ id[k] = 16 * high + low
  <2>1. id[k] \in Byte
    BY DEF Packed
  <2> QED
    BY <2>1, Halves
<1>4. /\ x \in Byte /\ x # Hyphen /\ IsHex(x) /\ Nibble(x) = high
      /\ y \in Byte /\ y # Hyphen /\ IsHex(y) /\ Nibble(y) = low
  BY <1>3, NibbleOfDigit
<1>5. acc \in Reading /\ acc.ok /\ acc.count = 2 * k /\ \A j \in 0..(k - 1) : acc.output[j] = id[j]
  <2>1. acc \in Reading
    <3>1. Len(text) \in 0..Len(text)
      BY <1>2 DEF Text
    <3> QED
      BY <1>2, <3>1, PackingDef DEF End
  <2> QED
    BY <2>1 DEF Written
<1>6. start \in Text /\ End(start) = acc
  <2>1. CASE k \in Breaks
    <3>1. Hyphen \in Byte
      BY DEF Hyphen, Byte
    <3>2. Take(acc, Hyphen) = acc
      BY DEF Take
    <3> QED
      BY <1>2, <2>1, <3>1, <3>2, PackingPrefix DEF End
  <2>2. CASE k \notin Breaks
    BY <1>2, <2>2
  <2> QED
    BY <2>1, <2>2
<1> DEFINE mid == Append(start, x)
<1> HIDE DEF text, more, start, high, low, x, y, acc
<1>7. mid \in Text /\ End(mid) = Take(acc, x)
  BY <1>4, <1>6, PackingPrefix DEF End
<1>8. more \in Text /\ End(more) = Take(End(mid), y)
  <2> HIDE DEF mid
  <2> QED
    BY <1>2, <1>4, <1>7, PackingPrefix DEF End, mid
<1> HIDE DEF mid
<1> DEFINE one == End(mid)
           two == End(more)
<1>9. /\ one.ok /\ one.count = 2 * k + 1 /\ one.high = high /\ one.output = acc.output
  <2>1. (2 * k) % 2 = 0
    BY <1>1
  <2>2. one = [acc EXCEPT !.high = high, !.count = 2 * k + 1]
    BY <1>4, <1>5, <1>7, <2>1 DEF Take
  <2> QED
    BY <1>5, <2>2 DEF Reading
<1>10. two.ok /\ two.count = 2 * (k + 1) /\ two.output = [acc.output EXCEPT ![k] = id[k]]
  <2>1. (2 * k + 1) % 2 = 1 /\ (2 * k + 1) \div 2 = k
    <3>1. (2 * k + 1) % 2 = 1
      BY <1>1
    <3>2. (2 * k + 1) \div 2 = k
      BY <1>1
    <3> QED
      BY <3>1, <3>2
  <2>2. ~(k >= Width) /\ (2 * k + 1) + 1 = 2 * (k + 1)
    BY <1>1, IdAssumption
  <2>3. one \in Reading
    BY <1>4, <1>5, <1>7, TakeType
  <2> DEFINE i == one.count \div 2
             v == 16 * one.high + Nibble(y)
  <2>4. i = k /\ v = id[k] /\ one.count % 2 = 1 /\ one.count + 1 = 2 * (k + 1)
    <3> HIDE DEF one
    <3> QED
      BY <1>3, <1>4, <1>9, <2>1, <2>2
  <2>5. two = Take(one, y)
    BY <1>8
  <2> HIDE DEF one, two
  <2>6. two = [one EXCEPT !.output = [one.output EXCEPT ![i] = v], !.count = one.count + 1]
    <3>1. one.ok /\ y # Hyphen /\ IsHex(y) /\ one.count % 2 # 0 /\ ~(i >= Width)
      BY <1>4, <1>9, <2>2, <2>4
    <3> QED
      BY <2>5, <3>1, Zenon DEF Take
  <2> HIDE DEF i, v
  <2>7. two = [one EXCEPT !.output = [acc.output EXCEPT ![k] = id[k]], !.count = 2 * (k + 1)]
    BY <1>9, <2>4, <2>6
  <2> QED
    BY <1>9, <2>3, <2>7 DEF Reading
<1>11. \A j \in 0..k : two.output[j] = id[j]
  <2>1. DOMAIN acc.output = 0..(Width - 1)
    BY <1>5 DEF Reading, Packed
  <2> SUFFICES ASSUME NEW j \in 0..k PROVE two.output[j] = id[j]
    OBVIOUS
  <2>2. j \in 0..(Width - 1) /\ (j = k \/ j \in 0..(k - 1))
    BY IdAssumption
  <2> QED
    BY <1>5, <1>10, <2>1, <2>2
<1> QED
  BY <1>1, <1>10, <1>11 DEF Written, more

(* A probe's report names the command it was given: expand_command_id      *)
(* makes a UUID of any bytes, and packing that gives the bytes again       *)
(* (polling.rs:451-472, ble.rs:788-826).                                   *)
THEOREM ComesBackCorrect == \A id \in Packed : ComesBack(id)
<1> SUFFICES ASSUME NEW id \in Packed PROVE ComesBack(id)
  OBVIOUS
<1> DEFINE S == {k \in 0..Width : Written(id, k)}
<1>1. Written(id, 0)
  <2>1. Expanding(id)[0] = <<>> /\ <<>> \in Text /\ Len(<<>>) = 0
    BY ExpandingDef DEF Text
  <2>2. End(<<>>) = Start
    BY <2>1, PackingDef DEF End
  <2> QED
    BY <2>1, <2>2 DEF Written, Start
<1>2. ASSUME NEW k \in 0..(Width - 1), k \in S PROVE k + 1 \in S
  <2>1. k + 1 \in 0..Width
    BY IdAssumption
  <2> QED
    BY <1>2, <2>1, WrittenNext
<1>3. Written(id, Width)
  <2>1. 0 \in S
    BY <1>1, IdAssumption
  <2>2. 0..Width \subseteq S
    <3> HIDE DEF S
    <3> QED
      BY <1>2, <2>1, UpTo, IdAssumption
  <2> QED
    BY <2>2, IdAssumption
<1>4. IsUuid(Expand(id))
  BY <1>3 DEF Written, End, IsUuid, Expand
<1>5. Pack(Expand(id)) = id
  <2> DEFINE out == Pack(Expand(id))
  <2>1. Expand(id) \in Text
    BY ExpandingDef, IdAssumption DEF Expand
  <2>2. out \in Packed
    <3>1. Len(Expand(id)) \in 0..Len(Expand(id))
      BY <2>1 DEF Text
    <3> QED
      BY <2>1, <3>1, PackingDef DEF Pack, Reading
  <2>3. \A j \in 0..(Width - 1) : out[j] = id[j]
    BY <1>3 DEF Written, End, Pack, Expand
  <2> HIDE DEF out
  <2>4. out = [j \in 0..(Width - 1) |-> out[j]] /\ id = [j \in 0..(Width - 1) |-> id[j]]
    BY <2>2 DEF Packed
  <2> QED
    BY <2>3, <2>4, Zenon DEF out
<1> QED
  BY <1>4, <1>5 DEF ComesBack

(* The spelling under which the hub reports a result is itself a UUID of   *)
(* the command's bytes, and spelling it again changes nothing; so two      *)
(* commands are reported under one id only if their UUIDs have the same    *)
(* bytes (CommandPoller's Canonical).                                      *)
THEOREM SpellingCorrect ==
    \A a, b \in {text \in Text : IsUuid(text)} :
        /\ IsUuid(Expand(Pack(a))) /\ Expand(Pack(Expand(Pack(a)))) = Expand(Pack(a))
        /\ Expand(Pack(a)) = Expand(Pack(b)) <=> Pack(a) = Pack(b)
<1>1. \A text \in Text : Pack(text) \in Packed
  <2> SUFFICES ASSUME NEW text \in Text PROVE Pack(text) \in Packed
    OBVIOUS
  <2>1. Len(text) \in 0..Len(text)
    BY DEF Text
  <2> QED
    BY <2>1, PackingDef DEF Pack, Reading
<1>2. \A text \in Text : IsUuid(Expand(Pack(text))) /\ Pack(Expand(Pack(text))) = Pack(text)
  BY <1>1, ComesBackCorrect DEF ComesBack
<1> QED
  BY <1>2, Zenon
=============================================================================
