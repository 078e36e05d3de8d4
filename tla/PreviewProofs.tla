----------------------------- MODULE PreviewProofs -----------------------------
(* Previews, for every payload and every length: first what induction is used     *)
(* for, on numbers, on recursive functions and on sequences.                     *)
EXTENDS Preview, SequenceTheorems, WellFoundedInduction, TLAPS

-------------------------------------------------------------------------------
(* Induction.                                                                  *)

\* A set of numbers has a least one.
LEMMA LeastNumber ==
  ASSUME NEW S \in SUBSET Nat, S # {}
  PROVE  \E m \in S : \A n \in S : m <= n
  <1> DEFINE Less == {p \in Nat \X Nat : p[1] < p[2]}
  <1>1. IsWellFoundedOn(Less, Nat)
    BY NatLessThanWellFounded DEF OpToRel
  <1>2. PICK m \in S : \A n \in S : <<n, m>> \notin Less
    <2> HIDE DEF Less
    <2> QED BY <1>1, WFMin
  <1>3. ASSUME NEW n \in S PROVE m <= n
    <2>1. <<n, m>> \in Nat \X Nat /\ <<n, m>>[1] = n /\ <<n, m>>[2] = m
      OBVIOUS
    <2>2. ~(n < m)
      BY <1>2, <2>1
    <2> QED BY <2>2
  <1> QED BY <1>3

\* The set of the numbers that have a property is all of them.
LEMMA Induction ==
  ASSUME NEW n \in Nat, NEW T, 0 \in T, \A i \in 1 .. n : i - 1 \in T => i \in T
  PROVE  \A i \in 0 .. n : i \in T
  <1> DEFINE Out == {i \in 0 .. n : i \notin T}
  <1> SUFFICES ASSUME Out # {} PROVE FALSE
    OBVIOUS
  <1>1. PICK m \in Out : \A i \in Out : m <= i
    <2>1. Out \in SUBSET Nat
      OBVIOUS
    <2> HIDE DEF Out
    <2> QED BY <2>1, LeastNumber
  <1>2. m \in 1 .. n /\ m - 1 \notin Out /\ m - 1 \in 0 .. n
    BY <1>1
  <1>3. m - 1 \in T
    BY <1>2
  <1> QED BY <1>1, <1>2, <1>3

\* The functions with a first value b and a step from each value to the next.
Steps(n, S) == [1 .. n -> [S -> S]]

Runs(n, S, b, G) == {f \in [0 .. n -> S] : f[0] = b /\ \A i \in 1 .. n : f[i] = G[i][f[i - 1]]}

\* There is one.
LEMMA Recursion ==
  ASSUME NEW n \in Nat, NEW S, NEW b \in S, NEW G \in Steps(n, S)
  PROVE  Runs(n, S, b, G) # {}
  <1> USE DEF Steps
  <1> DEFINE Defined(f, k) == /\ f \in [0 .. k -> S] /\ f[0] = b
                              /\ \A i \in 1 .. k : f[i] = G[i][f[i - 1]]
             T == {k \in 0 .. n : \E f : Defined(f, k)}
  <1>1. 0 \in T
    <2>1. PICK f : f = [i \in 0 .. 0 |-> b]
      OBVIOUS
    <2>2. f \in [0 .. 0 -> S] /\ f[0] = b
      BY <2>1
    <2>3. 1 .. 0 = {}
      OBVIOUS
    <2>4. Defined(f, 0)
      BY <2>2, <2>3
    <2> QED BY <2>4
  <1>2. ASSUME NEW k \in 1 .. n, k - 1 \in T PROVE k \in T
    <2>1. PICK f : Defined(f, k - 1)
      BY <1>2
    <2>0. PICK g : g = [i \in 0 .. k |-> IF i = k THEN G[k][f[k - 1]] ELSE f[i]]
      OBVIOUS
    <2>2. f[k - 1] \in S /\ G[k][f[k - 1]] \in S
      BY <2>1
    <2>3. g \in [0 .. k -> S] /\ g[0] = b
      BY <2>0, <2>1, <2>2
    <2>4. ASSUME NEW i \in 1 .. k PROVE g[i] = G[i][g[i - 1]]
      <3>1. CASE i = k
        <4>1. k \in 0 .. k /\ k - 1 \in 0 .. k /\ k - 1 # k
          OBVIOUS
        <4>2. g[k] = G[k][f[k - 1]] /\ g[k - 1] = f[k - 1]
          BY <2>0, <4>1
        <4> QED BY <3>1, <4>2
      <3>2. CASE i # k
        <4>1. i \in 1 .. k - 1 /\ i - 1 \in 0 .. k /\ i - 1 # k
          BY <3>2
        <4>2. g[i] = f[i] /\ g[i - 1] = f[i - 1]
          BY <2>0, <3>2, <4>1
        <4> QED BY <2>1, <4>1, <4>2
      <3> QED BY <3>1, <3>2
    <2>5. Defined(g, k)
      BY <2>3, <2>4
    <2> QED BY <2>5
  <1>3. n \in T
    <2> HIDE DEF T
    <2>1. \A i \in 0 .. n : i \in T
      BY <1>1, <1>2, Induction
    <2> QED BY <2>1
  <1> QED BY <1>3 DEF Runs

-------------------------------------------------------------------------------
(* The loop of generate_text_preview.                                          *)

LEMMA Rounds ==
  ASSUME NEW data, Len(data) \in Nat, NEW room, NEW S, NoText \in S,
         \A i \in 1 .. Len(data) : \A t \in S : Round(data, i, t, room) \in S
  PROVE  \E text : /\ text = [i \in 0 .. Len(data) |-> IF i = 0 THEN NoText ELSE Round(data, i, text[i - 1], room)]
                   /\ \A i \in 0 .. Len(data) : text[i] \in S
                   /\ Text(data, room) = text[Len(data)].out
  <1> DEFINE Loop(t) == t = [i \in 0 .. Len(data) |-> IF i = 0 THEN NoText ELSE Round(data, i, t[i - 1], room)]
  <1>1. PICK G : G = [i \in 1 .. Len(data) |-> [t \in S |-> Round(data, i, t, room)]]
    OBVIOUS
  <1>2. G \in Steps(Len(data), S)
    BY <1>1 DEF Steps
  <1>3. PICK f \in Runs(Len(data), S, NoText, G) : TRUE
    BY <1>2, Recursion
  <1>4. \A i \in 1 .. Len(data) : G[i][f[i - 1]] = Round(data, i, f[i - 1], room)
    <2> SUFFICES ASSUME NEW i \in 1 .. Len(data) PROVE G[i][f[i - 1]] = Round(data, i, f[i - 1], room)
      OBVIOUS
    <2>1. f[i - 1] \in S
      BY <1>3 DEF Runs
    <2> QED BY <1>1, <2>1
  <1>5. Loop(f)
    BY <1>3, <1>4 DEF Runs
  <1>6. PICK text : text = CHOOSE t : Loop(t)
    OBVIOUS
  <1>7. Loop(text)
    BY <1>5, <1>6
  <1>8. Text(data, room) = text[Len(data)].out
    BY <1>6 DEF Text
  <1>9. \A i \in 0 .. Len(data) : text[i] \in S
    <2> DEFINE T == {i \in 0 .. Len(data) : text[i] \in S}
    <2>1. 0 \in T
      BY <1>7
    <2>2. ASSUME NEW i \in 1 .. Len(data), i - 1 \in T PROVE i \in T
      BY <1>7, <2>2
    <2> HIDE DEF T
    <2>3. \A i \in 0 .. Len(data) : i \in T
      BY <2>1, <2>2, Induction
    <2> QED BY <2>3 DEF T
  <1> QED BY <1>7, <1>8, <1>9

-------------------------------------------------------------------------------
(* Characters.                                                                 *)

\* The value of a sequence is put together from left to right.
LEMMA CodePoints ==
  ASSUME NEW seq \in Seq(Byte), Len(seq) \in 2 .. 4
  PROVE  /\ Len(seq) = 2 => CodePoint(seq) = LeadBits(seq[1]) * 64 + (seq[2] % 64)
         /\ Len(seq) = 3 => CodePoint(seq) = (LeadBits(seq[1]) * 64 + (seq[2] % 64)) * 64 + (seq[3] % 64)
         /\ Len(seq) = 4 => CodePoint(seq) = ((LeadBits(seq[1]) * 64 + (seq[2] % 64)) * 64 + (seq[3] % 64)) * 64
                                           + (seq[4] % 64)
  <1> DEFINE Sum(g) == g = [i \in 1 .. Len(seq) |-> IF i = 1 THEN LeadBits(seq[1]) ELSE g[i - 1] * 64 + (seq[i] % 64)]
             a == LeadBits(seq[1])
             b == a * 64 + (seq[2] % 64)
             c == b * 64 + (seq[3] % 64)
             d == c * 64 + (seq[4] % 64)
  <1>1. PICK f : f = [i \in 1 .. Len(seq) |-> IF i = 1 THEN a ELSE IF i = 2 THEN b ELSE IF i = 3 THEN c ELSE d]
    OBVIOUS
  <1> HIDE DEF Sum
  <1>2. Sum(f)
    <2>1. ASSUME NEW i \in 1 .. Len(seq), i # 1 PROVE f[i] = f[i - 1] * 64 + (seq[i] % 64)
      <3>0. PICK n \in 2 .. 4 : n = Len(seq)
        OBVIOUS
      <3>1. i \in {2, 3, 4} /\ i - 1 \in 1 .. Len(seq)
        BY <2>1, <3>0
      <3>2. CASE i = 2
        BY <1>1, <3>1, <3>2
      <3>3. CASE i = 3
        BY <1>1, <3>1, <3>3
      <3>4. CASE i = 4
        BY <1>1, <3>1, <3>4
      <3> QED BY <3>1, <3>2, <3>3, <3>4
    <2>2. f = [i \in 1 .. Len(seq) |-> IF i = 1 THEN LeadBits(seq[1]) ELSE f[i - 1] * 64 + (seq[i] % 64)]
      BY <1>1, <2>1
    <2> QED BY <2>2 DEF Sum
  <1>3. PICK g : g = CHOOSE h : Sum(h)
    OBVIOUS
  <1>4. Sum(g)
    BY <1>2, <1>3
  <1>5. CodePoint(seq) = g[Len(seq)]
    BY <1>3 DEF CodePoint, Sum
  <1>6. g[1] = a /\ \A i \in 2 .. Len(seq) : g[i] = g[i - 1] * 64 + (seq[i] % 64)
    BY <1>4 DEF Sum
  <1>7. g[2] = b
    BY <1>6
  <1>8. Len(seq) \in {3, 4} => g[3] = c
    BY <1>6, <1>7
  <1>9. Len(seq) = 4 => g[4] = d
    BY <1>6, <1>8
  <1> QED BY <1>5, <1>7, <1>8, <1>9

\* Which lead bytes announce how many bytes, and what their bits stand for.
LEMMA Leads ==
  ASSUME NEW c \in 0 .. 255
  PROVE  /\ SeqLen(c) = 2 <=> c \in 192 .. 223
         /\ SeqLen(c) = 3 <=> c \in 224 .. 239
         /\ SeqLen(c) = 4 <=> c \in 240 .. 247
         /\ SeqLen(c) \in {0, 2, 3, 4}
         /\ c \in 192 .. 223 => LeadBits(c) = c - 192
         /\ c \in 224 .. 239 => LeadBits(c) = c - 224
         /\ c \in 240 .. 247 => LeadBits(c) = c - 240
  <1>1. /\ SeqLen(c) = 2 <=> c \in 192 .. 223
        /\ SeqLen(c) = 3 <=> c \in 224 .. 239
        /\ SeqLen(c) = 4 <=> c \in 240 .. 247
        /\ SeqLen(c) \in {0, 2, 3, 4}
    BY DEF SeqLen
  <1>2. /\ c \in 192 .. 223 => c % 32 = c - 192
        /\ c \in 224 .. 239 => c % 16 = c - 224
        /\ c \in 240 .. 247 => c % 8 = c - 240
    OBVIOUS
  <1> QED BY <1>1, <1>2 DEF LeadBits

LEMMA Ranges ==
  ASSUME NEW p \in Nat
  PROVE  /\ ValidRange(2, p) <=> p >= 128 /\ p <= 2047
         /\ ValidRange(3, p) <=> p >= 2048 /\ p <= 65535 /\ (p < 55296 \/ p > 57343)
         /\ ValidRange(4, p) <=> p >= 65536 /\ p <= 1114111
  <1>1. ValidRange(2, p) <=> p >= 128 /\ p <= 2047
    BY DEF ValidRange, Smallest, Largest
  <1>2. ValidRange(3, p) <=> p >= 2048 /\ p <= 65535 /\ (p < 55296 \/ p > 57343)
    BY SMTT(20) DEF ValidRange, Smallest, Largest
  <1>3. ValidRange(4, p) <=> p >= 65536 /\ p <= 1114111
    BY DEF ValidRange, Smallest, Largest
  <1> QED BY <1>1, <1>2, <1>3

\* Overlong forms, surrogates and what is beyond the last code point are the bytes that
\* table 3-7 leaves out.
LEMMA TwoBytes ==
  ASSUME NEW h \in 0 .. 255, NEW x \in 0 .. 255
  PROVE  h \in Lead(2) /\ x \in Follows(h) <=>
           SeqLen(h) = 2 /\ IsContinuation(x) /\ ValidRange(2, LeadBits(h) * 64 + (x % 64))
  <1>1. h \in Lead(2) /\ x \in Follows(h) <=> h \in 194 .. 223 /\ x \in 128 .. 191
    BY DEF Lead, Follows
  <1>2. ASSUME h \in 192 .. 223, x \in 128 .. 191
        PROVE  LeadBits(h) * 64 + (x % 64) = (h - 192) * 64 + (x - 128)
    <2>1. x % 64 = x - 128
      BY <1>2
    <2> QED BY <1>2, <2>1, Leads
  <1>3. ASSUME h \in 192 .. 223, IsContinuation(x)
        PROVE  ValidRange(2, LeadBits(h) * 64 + (x % 64)) <=>
                 h >= 194
    <2>1. PICK p \in Nat : p = (h - 192) * 64 + (x - 128)
      BY <1>3 DEF IsContinuation
    <2>2. p = LeadBits(h) * 64 + (x % 64)
      BY <1>2, <1>3, <2>1 DEF IsContinuation
    <2>3. ValidRange(2, p) <=> p >= 128 /\ p <= 2047
      BY Ranges
    <2>4. (p >= 128 /\ p <= 2047) <=> h >= 194
      BY <1>3, <2>1 DEF IsContinuation
    <2> QED BY <2>2, <2>3, <2>4
  <1>4. SeqLen(h) = 2 <=> h \in 192 .. 223
    BY Leads
  <1> QED BY <1>1, <1>2, <1>3, <1>4 DEF IsContinuation

LEMMA ThreeBytes ==
  ASSUME NEW h \in 0 .. 255, NEW x \in 0 .. 255, NEW y \in 0 .. 255
  PROVE  h \in Lead(3) /\ x \in Follows(h) /\ y \in 128 .. 191 <=>
           /\ SeqLen(h) = 3 /\ IsContinuation(x) /\ IsContinuation(y)
           /\ ValidRange(3, (LeadBits(h) * 64 + (x % 64)) * 64 + (y % 64))
  <1>1. h \in Lead(3) /\ x \in Follows(h) <=>
          /\ h \in 224 .. 239 /\ x \in 128 .. 191
          /\ h = 224 => x >= 160
          /\ h = 237 => x <= 159
    <2>1. h \in Lead(3) <=> h \in 224 .. 239
      BY DEF Lead
    <2>2. ASSUME h \in 224 .. 239
          PROVE  x \in Follows(h) <=> x \in 128 .. 191 /\ (h = 224 => x >= 160) /\ (h = 237 => x <= 159)
      BY <2>2 DEF Follows
    <2> QED BY <2>1, <2>2
  <1>2. ASSUME h \in 224 .. 239, x \in 128 .. 191, y \in 128 .. 191
        PROVE  (LeadBits(h) * 64 + (x % 64)) * 64 + (y % 64) = ((h - 224) * 64 + (x - 128)) * 64 + (y - 128)
    <2>1. x % 64 = x - 128 /\ y % 64 = y - 128
      BY <1>2
    <2> QED BY <1>2, <2>1, Leads
  <1>3. ASSUME h \in 224 .. 239, IsContinuation(x) /\ IsContinuation(y)
        PROVE  ValidRange(3, (LeadBits(h) * 64 + (x % 64)) * 64 + (y % 64)) <=>
                 (h = 224 => x >= 160) /\ (h = 237 => x <= 159)
    <2>1. PICK p \in Nat : p = ((h - 224) * 64 + (x - 128)) * 64 + (y - 128)
      BY <1>3 DEF IsContinuation
    <2>2. p = (LeadBits(h) * 64 + (x % 64)) * 64 + (y % 64)
      BY <1>2, <1>3, <2>1 DEF IsContinuation
    <2>3. ValidRange(3, p) <=> p >= 2048 /\ p <= 65535 /\ (p < 55296 \/ p > 57343)
      BY Ranges
    <2>4. (p >= 2048 /\ p <= 65535 /\ (p < 55296 \/ p > 57343)) <=> (h = 224 => x >= 160) /\ (h = 237 => x <= 159)
      BY <1>3, <2>1 DEF IsContinuation
    <2> QED BY <2>2, <2>3, <2>4
  <1>4. SeqLen(h) = 3 <=> h \in 224 .. 239
    BY Leads
  <1> QED BY <1>1, <1>2, <1>3, <1>4 DEF IsContinuation

LEMMA FourBytes ==
  ASSUME NEW h \in 0 .. 255, NEW x \in 0 .. 255, NEW y \in 0 .. 255, NEW z \in 0 .. 255
  PROVE  h \in Lead(4) /\ x \in Follows(h) /\ y \in 128 .. 191 /\ z \in 128 .. 191 <=>
           /\ SeqLen(h) = 4 /\ IsContinuation(x) /\ IsContinuation(y) /\ IsContinuation(z)
           /\ ValidRange(4, ((LeadBits(h) * 64 + (x % 64)) * 64 + (y % 64)) * 64 + (z % 64))
  <1>1. h \in Lead(4) /\ x \in Follows(h) <=>
          /\ h \in 240 .. 244 /\ x \in 128 .. 191
          /\ h = 240 => x >= 144
          /\ h = 244 => x <= 143
    <2>1. h \in Lead(4) <=> h \in 240 .. 244
      BY DEF Lead
    <2>2. ASSUME h \in 240 .. 244
          PROVE  x \in Follows(h) <=> x \in 128 .. 191 /\ (h = 240 => x >= 144) /\ (h = 244 => x <= 143)
      BY <2>2 DEF Follows
    <2> QED BY <2>1, <2>2
  <1>2. ASSUME h \in 240 .. 247, x \in 128 .. 191, y \in 128 .. 191, z \in 128 .. 191
        PROVE  ((LeadBits(h) * 64 + (x % 64)) * 64 + (y % 64)) * 64 + (z % 64)
                 = (((h - 240) * 64 + (x - 128)) * 64 + (y - 128)) * 64 + (z - 128)
    <2>1. x % 64 = x - 128 /\ y % 64 = y - 128 /\ z % 64 = z - 128
      BY <1>2
    <2> QED BY <1>2, <2>1, Leads
  <1>3. ASSUME h \in 240 .. 247, IsContinuation(x) /\ IsContinuation(y) /\ IsContinuation(z)
        PROVE  ValidRange(4, ((LeadBits(h) * 64 + (x % 64)) * 64 + (y % 64)) * 64 + (z % 64)) <=>
                 h <= 244 /\ (h = 240 => x >= 144) /\ (h = 244 => x <= 143)
    <2>1. PICK p \in Nat : p = (((h - 240) * 64 + (x - 128)) * 64 + (y - 128)) * 64 + (z - 128)
      BY <1>3 DEF IsContinuation
    <2>2. p = ((LeadBits(h) * 64 + (x % 64)) * 64 + (y % 64)) * 64 + (z % 64)
      BY <1>2, <1>3, <2>1 DEF IsContinuation
    <2>3. ValidRange(4, p) <=> p >= 65536 /\ p <= 1114111
      BY Ranges
    <2>4. (p >= 65536 /\ p <= 1114111) <=> h <= 244 /\ (h = 240 => x >= 144) /\ (h = 244 => x <= 143)
      BY <1>3, <2>1 DEF IsContinuation
    <2> QED BY <2>2, <2>3, <2>4
  <1>4. SeqLen(h) = 4 <=> h \in 240 .. 247
    BY Leads
  <1> QED BY <1>1, <1>2, <1>3, <1>4 DEF IsContinuation

\* The decoder accepts the sequences that are characters, and no others.
LEMMA ValidSequences ==
  ASSUME NEW seq \in Seq(Byte), Len(seq) \in 2 .. 4
  PROVE  IsCharacter(seq) <=> SeqLen(seq[1]) = Len(seq) /\ ValidSequence(seq)
  <1>1. Len(seq) \in {2, 3, 4} /\ Head(seq) = seq[1] /\ \A i \in 1 .. Len(seq) : seq[i] \in 0 .. 255
    <2>1. Len(seq) \in {2, 3, 4}
      OBVIOUS
    <2>2. \A i \in 1 .. Len(seq) : seq[i] \in Byte
      OBVIOUS
    <2>3. Head(seq) = seq[1]
      OBVIOUS
    <2> QED BY <2>1, <2>2, <2>3 DEF Byte
  <1>2. CASE Len(seq) = 2
    <2>1. PICK h, x : h = seq[1] /\ x = seq[2]
      OBVIOUS
    <2>0. h \in 0 .. 255 /\ x \in 0 .. 255
      BY <1>1, <1>2, <2>1
    <2>2. IsCharacter(seq) <=> h \in Lead(2) /\ x \in Follows(h)
      BY <1>1, <1>2, <2>0, <2>1 DEF IsCharacter
    <2>3. ValidSequence(seq) <=> IsContinuation(x) /\ ValidRange(2, LeadBits(h) * 64 + (x % 64))
      BY <1>2, <2>0, <2>1, CodePoints DEF ValidSequence
    <2> QED BY <1>2, <2>0, <2>1, <2>2, <2>3, TwoBytes, ZenonT(40)
  <1>3. CASE Len(seq) = 3
    <2>1. PICK h, x, y : h = seq[1] /\ x = seq[2] /\ y = seq[3]
      OBVIOUS
    <2>0. h \in 0 .. 255 /\ x \in 0 .. 255 /\ y \in 0 .. 255
      BY <1>1, <1>3, <2>1
    <2>2. IsCharacter(seq) <=> h \in Lead(3) /\ x \in Follows(h) /\ y \in 128 .. 191
      BY <1>1, <1>3, <2>0, <2>1 DEF IsCharacter
    <2>3. ValidSequence(seq) <=> /\ IsContinuation(x) /\ IsContinuation(y)
                                /\ ValidRange(3, (LeadBits(h) * 64 + (x % 64)) * 64 + (y % 64))
      BY <1>3, <2>0, <2>1, CodePoints DEF ValidSequence
    <2>4. h \in Lead(3) /\ x \in Follows(h) /\ y \in 128 .. 191 <=>
            /\ SeqLen(h) = 3 /\ IsContinuation(x) /\ IsContinuation(y)
            /\ ValidRange(3, (LeadBits(h) * 64 + (x % 64)) * 64 + (y % 64))
      BY <2>0, ThreeBytes, Zenon
    <2> QED BY <1>3, <2>1, <2>2, <2>3, <2>4
  <1>4. CASE Len(seq) = 4
    <2>1. PICK h, x, y, z : h = seq[1] /\ x = seq[2] /\ y = seq[3] /\ z = seq[4]
      OBVIOUS
    <2>0. h \in 0 .. 255 /\ x \in 0 .. 255 /\ y \in 0 .. 255 /\ z \in 0 .. 255
      BY <1>1, <1>4, <2>1
    <2>2. IsCharacter(seq) <=> h \in Lead(4) /\ x \in Follows(h) /\ y \in 128 .. 191 /\ z \in 128 .. 191
      BY <1>1, <1>4, <2>0, <2>1 DEF IsCharacter
    <2>3. ValidSequence(seq) <=> /\ IsContinuation(x) /\ IsContinuation(y) /\ IsContinuation(z)
                                /\ ValidRange(4, ((LeadBits(h) * 64 + (x % 64)) * 64 + (y % 64)) * 64 + (z % 64))
      BY <1>4, <2>0, <2>1, CodePoints DEF ValidSequence
    <2>4. h \in Lead(4) /\ x \in Follows(h) /\ y \in 128 .. 191 /\ z \in 128 .. 191 <=>
            /\ SeqLen(h) = 4 /\ IsContinuation(x) /\ IsContinuation(y) /\ IsContinuation(z)
            /\ ValidRange(4, ((LeadBits(h) * 64 + (x % 64)) * 64 + (y % 64)) * 64 + (z % 64))
      BY <2>0, FourBytes, ZenonT(40)
    <2> QED BY <1>4, <2>1, <2>2, <2>3, <2>4
  <1> QED BY <1>1, <1>2, <1>3, <1>4

-------------------------------------------------------------------------------
(* One round.                                                                  *)

Progress == [out : Seq(Byte), space : BOOLEAN, next : Nat]

\* A round that does nothing, and a sequence that is not all there or does not fit.
Skips(data, i, t, room) == i < t.next \/ Len(t.out) >= room

TooLong(data, i, n, t, room) == i + n - 1 > Len(data) \/ Len(t.out) + n > room

\* The kinds of byte.
LEMMA Kinds ==
  ASSUME NEW c \in Byte
  PROVE  /\ IsControl(c) \/ c \in 33 .. 126 \/ (c \in 128 .. 255 /\ SeqLen(c) = 0) \/ c \in 192 .. 247
         /\ IsControl(c) => c \notin 33 .. 126 /\ ~(c > 127) /\ c \notin 192 .. 247
         /\ c \in 33 .. 126 => ~IsControl(c) /\ ~(c > 127) /\ c \notin 192 .. 247
         /\ c \in 128 .. 255 => ~IsControl(c) /\ c \notin 33 .. 126 /\ c > 127
         /\ c \in 192 .. 247 => c \in 128 .. 255
         /\ IsControl(c) <=> c <= 32 \/ c = 127
         /\ IsBlank(c) <=> c \in Blanks
         /\ c \in 192 .. 247 <=> SeqLen(c) > 0
         /\ c \in 192 .. 247 => SeqLen(c) \in 2 .. 4 /\ SeqLen(c) # 0
  <1>0. c \in 0 .. 255
    BY DEF Byte
  <1>1. PICK n \in {0, 2, 3, 4} : n = SeqLen(c)
    BY <1>0, Leads
  <1>2. c \in 192 .. 247 <=> n > 0
    BY <1>0, <1>1, Leads
  <1>3. IsControl(c) <=> c <= 32 \/ c = 127
    BY <1>0 DEF IsControl, Space
  <1>4. IsBlank(c) <=> c \in Blanks
    BY <1>0 DEF IsBlank, Blanks
  <1>5. c \in 192 .. 247 => n \in 2 .. 4 /\ n # 0
    BY <1>0, <1>1, <1>2
  <1> QED BY <1>0, <1>1, <1>2, <1>3, <1>4, <1>5

\* The alternatives exclude each other.
RoundCase(data, i, t, room, c, n, r) ==
  \/ IsControl(c) /\ (t.space \/ c \notin Blanks) /\ r = t
  \/ IsControl(c) /\ c \in Blanks /\ ~t.space /\ r = Put(t, <<Space>>, TRUE, t.next)
  \/ c \in 33 .. 126 /\ r = Put(t, <<c>>, FALSE, t.next)
  \/ c \in 128 .. 255 /\ n = 0 /\ r = Put(t, <<Question>>, t.space, t.next)
  \/ c \in 192 .. 247 /\ TooLong(data, i, n, t, room) /\ r = Put(t, <<Question>>, FALSE, Len(data) + 1)
  \/ /\ c \in 192 .. 247 /\ ~TooLong(data, i, n, t, room)
     /\ ValidSequence(Slice(data, i, n)) /\ r = Put(t, Slice(data, i, n), FALSE, i + n)
  \/ /\ c \in 192 .. 247 /\ ~TooLong(data, i, n, t, room)
     /\ ~ValidSequence(Slice(data, i, n)) /\ r = Put(t, <<Question>>, FALSE, t.next)

LEMMA RoundCases ==
  ASSUME NEW data, NEW i, data[i] \in Byte, NEW t, NEW room, ~Skips(data, i, t, room)
  PROVE  RoundCase(data, i, t, room, data[i], SeqLen(data[i]), Round(data, i, t, room))
  <1>9. PICK c, n, r : data[i] = c /\ SeqLen(c) = n /\ Round(data, i, t, room) = r
    OBVIOUS
  <1> SUFFICES RoundCase(data, i, t, room, c, n, r)
    BY <1>9
  <1> USE DEF RoundCase
  <1>0. ~(i < t.next \/ Len(t.out) >= room)
    BY DEF Skips
  <1>1. /\ IsControl(c) \/ c \in 33 .. 126 \/ (c \in 128 .. 255 /\ n = 0) \/ c \in 192 .. 247
        /\ IsControl(c) => c \notin 33 .. 126 /\ ~(c > 127) /\ c \notin 192 .. 247
        /\ c \in 33 .. 126 => ~IsControl(c) /\ ~(c > 127) /\ c \notin 192 .. 247
        /\ c \in 128 .. 255 => ~IsControl(c) /\ c \notin 33 .. 126 /\ c > 127
        /\ c \in 192 .. 247 => c \in 128 .. 255
        /\ IsBlank(c) <=> c \in Blanks
        /\ c \in 192 .. 247 <=> n > 0
        /\ c \in 192 .. 247 => n # 0
    BY <1>9, Kinds
  <1>2. CASE IsControl(c)
    <2>1. c \notin 33 .. 126 /\ ~(c > 127) /\ ~(n > 0)
      BY <1>1, <1>2, Zenon
    <2>2. r = IF IsBlank(c) /\ ~t.space THEN Put(t, <<Space>>, TRUE, t.next) ELSE t
      BY <1>0, <1>9, <1>2, <2>1 DEF Round
    <2>3. CASE IsBlank(c) /\ ~t.space
      <3>1. r = Put(t, <<Space>>, TRUE, t.next)
        BY <2>2, <2>3, Zenon
      <3> QED BY <1>1, <1>2, <2>3, <3>1, Zenon
    <2>4. CASE ~(IsBlank(c) /\ ~t.space)
      <3>1. r = t
        BY <2>2, <2>4, Zenon
      <3> QED BY <1>1, <1>2, <2>4, <3>1, Zenon
    <2> QED BY <2>3, <2>4
  <1>3. CASE c \in 33 .. 126
    <2>1. ~IsControl(c) /\ ~(c > 127) /\ ~(n > 0)
      BY <1>1, <1>3, Zenon
    <2>2. r = Put(t, <<c>>, FALSE, t.next)
      BY <1>0, <1>9, <1>3, <2>1 DEF Round
    <2> QED BY <1>3, <2>2, Zenon
  <1>4. CASE c \in 128 .. 255 /\ n = 0
    <2>1. ~IsControl(c) /\ c \notin 33 .. 126 /\ c > 127
      BY <1>1, <1>4, Zenon
    <2>3. n = 0 /\ ~(n > 0)
      BY <1>4
    <2>4. /\ data[i] > 127 /\ data[i] \notin 33 .. 126 /\ ~IsControl(data[i])
          /\ SeqLen(data[i]) = 0 /\ ~(SeqLen(data[i]) > 0)
      BY <1>9, <2>1, <2>3, Zenon
    <2>2. Round(data, i, t, room) = Put(t, <<Question>>, t.space, t.next)
      BY <1>0, <2>4 DEF Round
    <2> QED BY <1>4, <1>9, <2>2, Zenon
  <1>5. CASE c \in 192 .. 247 /\ TooLong(data, i, n, t, room)
    <2>1. ~IsControl(c) /\ c \notin 33 .. 126 /\ n # 0 /\ n > 0
      BY <1>1, <1>5, Zenon
    <2>2. /\ ~IsControl(data[i]) /\ data[i] \notin 33 .. 126 /\ SeqLen(data[i]) # 0 /\ SeqLen(data[i]) > 0
          /\ i + SeqLen(data[i]) - 1 > Len(data) \/ Len(t.out) + SeqLen(data[i]) > room
      <3>1. TooLong(data, i, SeqLen(data[i]), t, room)
        BY <1>5, <1>9, Zenon
      <3> QED BY <1>9, <2>1, <3>1, Zenon DEF TooLong
    <2>3. Round(data, i, t, room) = Put(t, <<Question>>, FALSE, Len(data) + 1)
      BY <1>0, <2>2 DEF Round
    <2> QED BY <1>5, <1>9, <2>3, Zenon
  <1>6. CASE c \in 192 .. 247 /\ ~TooLong(data, i, n, t, room)
    <2>1. ~IsControl(c) /\ c \notin 33 .. 126 /\ n # 0
      BY <1>1, <1>6, Zenon
    <2>2. r = IF ValidSequence(Slice(data, i, n)) THEN Put(t, Slice(data, i, n), FALSE, i + n)
              ELSE Put(t, <<Question>>, FALSE, t.next)
      BY <1>0, <1>9, <1>6, <2>1, ZenonT(40) DEF Round, TooLong
    <2> QED BY <1>6, <2>2, Zenon
  <1> QED BY <1>1, <1>2, <1>3, <1>4, <1>5, <1>6, Zenon

-------------------------------------------------------------------------------
(* Readable text.                                                              *)

LEMMA Slices ==
  ASSUME NEW S, NEW s \in Seq(S), NEW i \in Nat \ {0}, NEW n \in Nat, i + n - 1 <= Len(s)
  PROVE  /\ Slice(s, i, n) \in Seq(S) /\ Len(Slice(s, i, n)) = n
         /\ \A k \in 1 .. n : Slice(s, i, n)[k] = s[i + k - 1]
  <1>1. \A k \in i .. i + n - 1 : s[k] \in S
    BY ElementOfSeq
  <1>2. i \in Int /\ i + n - 1 \in Int /\ (i + n - 1) - i + 1 = n
    OBVIOUS
  <1>3. Len(SubSeq(s, i, i + n - 1)) = IF i <= i + n - 1 THEN n ELSE 0
    BY <1>1, <1>2, SubSeqProperties
  <1> QED BY <1>1, <1>2, <1>3, SubSeqProperties DEF Slice

\* Sequences that agree on a range have the same slice there.
Agree(s, i, u, j, n) == \A k \in 1 .. n : s[i + k - 1] = u[j + k - 1]

LEMMA SameSlice ==
  ASSUME NEW s \in Seq(Byte), NEW u \in Seq(Byte), NEW i \in Nat \ {0}, NEW j \in Nat \ {0}, NEW n \in Nat,
         i + n - 1 <= Len(s), j + n - 1 <= Len(u), Agree(s, i, u, j, n)
  PROVE  Slice(s, i, n) = Slice(u, j, n)
  <1>1. PICK a, b : a = Slice(s, i, n) /\ b = Slice(u, j, n)
    OBVIOUS
  <1>2. a \in Seq(Byte) /\ Len(a) = n /\ \A k \in 1 .. n : a[k] = s[i + k - 1]
    BY <1>1, Slices, SMTT(20)
  <1>3. b \in Seq(Byte) /\ Len(b) = n /\ \A k \in 1 .. n : b[k] = u[j + k - 1]
    BY <1>1, Slices, SMTT(20)
  <1>4. a = b
    BY <1>2, <1>3, SeqEqual DEF Agree
  <1> QED BY <1>1, <1>4

\* A readable text with one more printable character is readable.
LEMMA ReadableMore ==
  ASSUME NEW s \in Seq(Byte), Readable(s), NEW c \in Seq(Byte), IsCharacter(c), \A k \in 1 .. Len(c) : Printable(c[k])
  PROVE  Readable(s \o c)
  <1>1. PICK starts \in SUBSET (1 .. Len(s)) : Characters(s, starts)
    BY DEF Readable, WellFormed
  <1>2. PICK u \in Seq(Byte) : u = s \o c
    BY ConcatProperties
  <1>3. PICK l \in Nat, n \in 1 .. 4 : l = Len(s) /\ n = Len(c)
    BY LenProperties DEF IsCharacter
  <1>4. /\ Len(u) = l + n
        /\ \A k \in 1 .. l : u[k] = s[k]
        /\ \A k \in 1 .. n : u[l + k] = c[k]
    <2>1. Len(u) = l + n
      BY <1>2, <1>3, ConcatProperties
    <2>2. \A k \in 1 .. l + n : u[k] = IF k <= l THEN s[k] ELSE c[k - l]
      BY <1>2, <1>3, ConcatProperties
    <2>3. ASSUME NEW k \in 1 .. n PROVE u[l + k] = c[k]
      <3>1. l + k \in 1 .. l + n /\ ~(l + k <= l) /\ (l + k) - l = k
        OBVIOUS
      <3> QED BY <2>2, <3>1
    <2>4. ASSUME NEW k \in 1 .. l PROVE u[k] = s[k]
      <3>1. k \in 1 .. l + n /\ k <= l
        OBVIOUS
      <3> QED BY <2>2, <3>1
    <2> QED BY <2>1, <2>3, <2>4
  <1>5. PICK more : more = starts \cup {l + 1}
    OBVIOUS
  <1>6. more \in SUBSET (1 .. Len(u))
    <2> SUFFICES ASSUME NEW i \in more PROVE i \in 1 .. Len(u)
      OBVIOUS
    <2>1. i \in 1 .. l \/ i = l + 1
      BY <1>1, <1>3, <1>5
    <2> QED BY <1>4, <2>1
  <1>7. 1 \in more \cup {Len(u) + 1}
    BY <1>1, <1>3, <1>5 DEF Characters
  <1>8. ASSUME NEW i \in more
        PROVE  \E m \in 1 .. 4 : i + m \in more \cup {Len(u) + 1} /\ IsCharacter(Slice(u, i, m))
    <2>1. CASE i \in starts
      <3>1. PICK m \in 1 .. 4 : i + m \in starts \cup {Len(s) + 1} /\ IsCharacter(Slice(s, i, m))
        BY <1>1, <2>1 DEF Characters
      <3>2. i \in Nat \ {0} /\ i + m - 1 <= Len(s)
        BY <1>1, <2>1, <3>1, <1>3
      <3>3. Slice(u, i, m) = Slice(s, i, m)
        <4>1. Agree(u, i, s, i, m)
          BY <1>3, <1>4, <3>2 DEF Agree
        <4>2. i + m - 1 <= Len(u)
          BY <1>3, <1>4, <3>2
        <4>3. m \in Nat
          OBVIOUS
        <4> QED BY <3>2, <4>1, <4>2, <4>3, SameSlice
      <3> QED BY <1>3, <1>5, <3>1, <3>3
    <2>2. CASE i = l + 1
      <3>1. Slice(u, l + 1, n) = c
        <4>1. Agree(u, l + 1, c, 1, n)
          <5> SUFFICES ASSUME NEW k \in 1 .. n PROVE u[(l + 1) + k - 1] = c[1 + k - 1]
            BY DEF Agree
          <5>1. (l + 1) + k - 1 = l + k /\ 1 + k - 1 = k
            OBVIOUS
          <5> QED BY <1>4, <5>1
        <4>2. l + 1 \in Nat \ {0} /\ (l + 1) + n - 1 <= Len(u) /\ 1 + n - 1 <= Len(c) /\ 1 \in Nat \ {0} /\ n \in Nat
          BY <1>3, <1>4
        <4>3. Slice(u, l + 1, n) = Slice(c, 1, n)
          BY <4>1, <4>2, SameSlice
        <4>4. Slice(c, 1, n) = c
          BY <1>3, SubSeqFull DEF Slice
        <4> QED BY <4>3, <4>4
      <3>2. i + n \in more \cup {Len(u) + 1}
        BY <1>4, <2>2
      <3> QED BY <2>2, <3>1, <3>2
    <2> QED BY <1>5, <2>1, <2>2
  <1>9. WellFormed(u)
    BY <1>6, <1>7, <1>8 DEF WellFormed, Characters
  <1>10. \A k \in DOMAIN u : Printable(u[k])
    <2>1. DOMAIN u = 1 .. l + n /\ DOMAIN s = 1 .. l
      BY <1>3, <1>4, LenProperties
    <2>2. ASSUME NEW k \in 1 .. l + n PROVE Printable(u[k])
      <3>1. CASE k <= l
        <4>1. k \in 1 .. l
          BY <3>1
        <4>2. Printable(s[k])
          BY <2>1, <4>1, Zenon DEF Readable
        <4> QED BY <1>4, <4>1, <4>2
      <3>2. CASE k > l
        <4>1. k - l \in 1 .. n /\ l + (k - l) = k
          BY <3>2
        <4> QED BY <1>3, <1>4, <4>1
      <3> QED BY <3>1, <3>2
    <2> QED BY <2>1, <2>2
  <1> QED BY <1>2, <1>9, <1>10 DEF Readable

\* A byte of ASCII is a character.
LEMMA AsciiCharacter ==
  ASSUME NEW b \in 0 .. 127
  PROVE  /\ <<b>> \in Seq(Byte) /\ Len(<<b>>) = 1 /\ IsCharacter(<<b>>)
         /\ b \in 32 .. 126 => \A k \in 1 .. Len(<<b>>) : Printable(<<b>>[k])
  <1>1. PICK s : s = <<b>>
    OBVIOUS
  <1>2. s \in Seq(Byte) /\ Len(s) = 1 /\ s[1] = b /\ Head(s) = b
    BY <1>1 DEF Byte
  <1>3. IsCharacter(s)
    <2>1. b \in Lead(1)
      BY DEF Lead
    <2> QED BY <1>2, <2>1 DEF IsCharacter
  <1>4. ASSUME b \in 32 .. 126 PROVE \A k \in 1 .. Len(s) : Printable(s[k])
    <2>1. Printable(b)
      BY <1>4 DEF Printable, Space
    <2> QED BY <1>2, <2>1
  <1> QED BY <1>1, <1>2, <1>3, <1>4

\* A sequence the decoder accepts is a character, and has no control characters.
LEMMA SequenceCharacter ==
  ASSUME NEW seq \in Seq(Byte), Len(seq) \in 2 .. 4, SeqLen(seq[1]) = Len(seq), ValidSequence(seq)
  PROVE  IsCharacter(seq) /\ \A k \in 1 .. Len(seq) : seq[k] >= 128 /\ Printable(seq[k])
  <1>1. IsCharacter(seq)
    BY ValidSequences
  <1>2. ASSUME NEW b \in 128 .. 255 PROVE b >= 128 /\ Printable(b)
    BY DEF Printable, Space
  <1>3. ASSUME NEW k \in 1 .. Len(seq) PROVE seq[k] \in 128 .. 255
    <2>0. Len(seq) \in {2, 3, 4}
      OBVIOUS
    <2>1. PICK b \in Byte : seq[k] = b
      OBVIOUS
    <2>2. CASE k = 1
      <3>1. SeqLen(b) > 0
        <4>1. SeqLen(b) = Len(seq)
          BY <2>1, <2>2
        <4> QED BY <2>0, <4>1
      <3>2. b \in 192 .. 247
        BY <3>1, Kinds
      <3>3. b \in 128 .. 255
        BY <3>2
      <3> QED BY <2>1, <3>3
    <2>3. CASE k # 1
      <3>1. k \in 2 .. Len(seq)
        BY <2>3
      <3>2. IsContinuation(b)
        BY <2>1, <3>1 DEF ValidSequence
      <3>3. b \in 128 .. 255
        BY <3>2 DEF IsContinuation
      <3> QED BY <2>1, <3>3
    <2> QED BY <2>2, <2>3
  <1>4. ASSUME NEW k \in 1 .. Len(seq) PROVE seq[k] >= 128 /\ Printable(seq[k])
    BY <1>2, <1>3, Zenon
  <1> QED BY <1>1, <1>4

\* What is put out is readable and no longer than there is room.
Good(room) == {t \in Progress : Len(t.out) <= room /\ Readable(t.out)}

LEMMA PutGood ==
  ASSUME NEW room \in Nat, NEW t \in Good(room), NEW c \in Seq(Byte),
         IsCharacter(c), \A k \in 1 .. Len(c) : Printable(c[k]),
         Len(t.out) + Len(c) <= room, NEW b \in BOOLEAN, NEW m \in Nat
  PROVE  Put(t, c, b, m) \in Good(room)
  <1>1. t.out \in Seq(Byte) /\ Readable(t.out)
    BY DEF Good, Progress
  <1>2. PICK u : u = t.out \o c
    OBVIOUS
  <1>3. u \in Seq(Byte) /\ Len(u) <= room /\ Readable(u)
    BY <1>1, <1>2, ConcatProperties, ReadableMore
  <1> QED BY <1>2, <1>3 DEF Put, Good, Progress

LEMMA RoundGood ==
  ASSUME NEW data \in Seq(Byte), NEW i \in 1 .. Len(data), NEW room \in Nat, NEW t \in Good(room)
  PROVE  Round(data, i, t, room) \in Good(room)
  <1>1. PICK c, n, r : data[i] = c /\ SeqLen(c) = n /\ Round(data, i, t, room) = r
    OBVIOUS
  <1>2. c \in Byte /\ Len(data) \in Nat /\ i \in Nat \ {0}
    BY <1>1
  <1>3. t \in Progress /\ t.space \in BOOLEAN /\ t.next \in Nat /\ Len(t.out) \in Nat
    BY DEF Good, Progress
  <1>4. CASE Skips(data, i, t, room)
    BY <1>1, <1>4 DEF Round, Skips
  <1>5. CASE ~Skips(data, i, t, room)
    <2>1. RoundCase(data, i, t, room, c, n, r)
      BY <1>1, <1>2, <1>5, RoundCases
    <2>2. Len(t.out) + 1 <= room
      BY <1>2, <1>3, <1>5 DEF Skips
    <2>3. ASSUME NEW b \in 32 .. 126, NEW blank \in BOOLEAN, NEW m \in Nat PROVE Put(t, <<b>>, blank, m) \in Good(room)
      <3>1. b \in 0 .. 127
        OBVIOUS
      <3>2. /\ <<b>> \in Seq(Byte) /\ Len(<<b>>) = 1 /\ IsCharacter(<<b>>)
            /\ \A k \in 1 .. Len(<<b>>) : Printable(<<b>>[k])
        BY <3>1, AsciiCharacter
      <3>3. Len(t.out) + Len(<<b>>) <= room
        BY <2>2
      <3> QED BY <3>2, <3>3, PutGood, Zenon
    <2>4. Space \in 32 .. 126 /\ Question \in 32 .. 126 /\ Len(data) + 1 \in Nat
      BY <1>2 DEF Space, Question
    <2>5. CASE /\ c \in 192 .. 247 /\ ~TooLong(data, i, n, t, room)
               /\ ValidSequence(Slice(data, i, n)) /\ r = Put(t, Slice(data, i, n), FALSE, i + n)
      <3>1. n \in 2 .. 4
        BY <1>1, <1>2, <2>5, Kinds
      <3>2. i + n - 1 <= Len(data) /\ Len(t.out) + n <= room
        BY <1>2, <1>3, <2>5, <3>1 DEF TooLong
      <3>3. PICK seq : seq = Slice(data, i, n)
        OBVIOUS
      <3>4. seq \in Seq(Byte) /\ Len(seq) = n /\ \A k \in 1 .. n : seq[k] = data[i + k - 1]
        <4>1. n \in Nat
          BY <3>1
        <4>2. /\ Slice(data, i, n) \in Seq(Byte) /\ Len(Slice(data, i, n)) = n
              /\ \A k \in 1 .. n : Slice(data, i, n)[k] = data[i + k - 1]
          BY <1>2, <3>2, <4>1, Slices, ZenonT(40)
        <4> QED BY <3>3, <4>2
      <3>5. seq[1] = c
        <4>1. 1 \in 1 .. n /\ i + 1 - 1 = i
          BY <3>1
        <4> QED BY <1>1, <3>4, <4>1
      <3>6. IsCharacter(seq) /\ \A k \in 1 .. Len(seq) : Printable(seq[k])
        BY <1>1, <2>5, <3>1, <3>3, <3>4, <3>5, SequenceCharacter
      <3>7. Len(t.out) + Len(seq) <= room /\ i + n \in Nat /\ FALSE \in BOOLEAN
        BY <3>1, <3>2, <3>4
      <3>8. Put(t, seq, FALSE, i + n) \in Good(room)
        BY <3>4, <3>6, <3>7, PutGood, Zenon
      <3> QED BY <1>1, <2>5, <3>3, <3>8
    <2>6. c \in 33 .. 126 => c \in 32 .. 126
      OBVIOUS
    <2> QED BY <1>1, <1>3, <2>1, <2>3, <2>4, <2>5, <2>6 DEF RoundCase
  <1> QED BY <1>4, <1>5

LEMMA TextSteps ==
  ASSUME NEW data \in Seq(Byte), NEW room \in Nat
  PROVE  \E text : /\ text[0] = NoText /\ Text(data, room) = text[Len(data)].out
                   /\ \A i \in 0 .. Len(data) : text[i] \in Good(room) /\ text[i] \in Progress
                   /\ \A i \in 1 .. Len(data) : text[i] = Round(data, i, text[i - 1], room)
  <1>1. NoText \in Good(room)
    <2>1. Characters(<< >>, {})
      BY DEF Characters
    <2>2. Readable(<< >>)
      BY <2>1 DEF Readable, WellFormed
    <2> QED BY <2>2 DEF NoText, Good, Progress
  <1>2. Len(data) \in Nat
    BY LenProperties
  <1>3. PICK text : /\ text = [i \in 0 .. Len(data) |-> IF i = 0 THEN NoText ELSE Round(data, i, text[i - 1], room)]
                    /\ \A i \in 0 .. Len(data) : text[i] \in Good(room)
                    /\ Text(data, room) = text[Len(data)].out
    BY <1>1, <1>2, RoundGood, Rounds
  <1>4. Good(room) \subseteq Progress
    BY DEF Good
  <1>5. 0 \in 0 .. Len(data) /\ \A i \in 1 .. Len(data) : i \in 0 .. Len(data) /\ i # 0
    BY <1>2
  <1>6. text[0] = NoText /\ \A i \in 1 .. Len(data) : text[i] = Round(data, i, text[i - 1], room)
    BY <1>3, <1>5
  <1> QED BY <1>3, <1>4, <1>6

\* Whatever the payload is, the preview fits its column and is readable.
THEOREM TextReadable ==
  ASSUME NEW data \in Seq(Byte), NEW size \in Nat \ {0}
  PROVE  /\ TextPreview(data, size) \in Seq(Byte)
         /\ Len(TextPreview(data, size)) < size
         /\ Readable(TextPreview(data, size))
  <1>1. PICK room \in Nat : room = size - 1
    OBVIOUS
  <1>2. PICK text : Text(data, room) = text[Len(data)].out /\ \A i \in 0 .. Len(data) : text[i] \in Good(room)
    BY TextSteps
  <1>3. Len(data) \in 0 .. Len(data)
    BY LenProperties
  <1>4. text[Len(data)] \in Good(room)
    BY <1>2, <1>3
  <1> QED BY <1>1, <1>2, <1>4 DEF TextPreview, Good, Progress

-------------------------------------------------------------------------------
(* Words.                                                                      *)

\* A text at whose end a word begins.
EndsBlank(s) == s = << >> \/ s[Len(s)] \in Blanks

LEMMA WordStepType ==
  ASSUME NEW before \in Seq(Seq(Byte)), NEW blank \in BOOLEAN, NEW b \in Byte
  PROVE  WordStep(before, blank, b) \in Seq(Seq(Byte))
  <1>1. <<b>> \in Seq(Byte)
    OBVIOUS
  <1>2. Append(before, <<b>>) \in Seq(Seq(Byte))
    BY <1>1, AppendProperties
  <1>3. PICK l \in Nat : l = Len(before)
    BY LenProperties
  <1>4. [before EXCEPT ![l] = Append(before[l], b)] \in Seq(Seq(Byte))
    <2>1. CASE l = 0
      <3>1. before = << >>
        BY <1>3, <2>1, EmptySeq
      <3>2. PICK after : after = [before EXCEPT ![l] = Append(before[l], b)]
        OBVIOUS
      <3>3. after = before
        BY <2>1, <3>1, <3>2
      <3> QED BY <3>2, <3>3
    <2>2. CASE l # 0
      <3>1. l \in 1 .. Len(before) /\ before[l] \in Seq(Byte)
        BY <1>3, <2>2, ElementOfSeq
      <3>2. Append(before[l], b) \in Seq(Byte)
        BY <3>1, AppendProperties
      <3> QED BY <3>1, <3>2, ExceptSeq
    <2> QED BY <2>1, <2>2
  <1> QED BY <1>2, <1>3, <1>4 DEF WordStep

\* What WordsOf goes through.
IsWords(s, words) ==
  /\ words[0] = << >>
  /\ \A i \in 1 .. Len(s) : /\ words[i - 1] \in Seq(Seq(Byte))
                            /\ words[i] = WordStep(words[i - 1], i = 1 \/ s[i - 1] \in Blanks, s[i])
  /\ words[Len(s)] = WordsOf(s)

LEMMA Words ==
  ASSUME NEW s \in Seq(Byte)
  PROVE  \E words : IsWords(s, words)
  <1> DEFINE Step(t) == t = [i \in 0 .. Len(s) |->
                               IF i = 0 THEN << >> ELSE WordStep(t[i - 1], i = 1 \/ s[i - 1] \in Blanks, s[i])]
  <1> PICK l \in Nat : l = Len(s)
    BY LenProperties
  <1>0. PICK S : S = Seq(Seq(Byte)) /\ l = Len(s)
    OBVIOUS
  <1>1. PICK G : G = [i \in 1 .. l |-> [t \in S |-> WordStep(t, i = 1 \/ s[i - 1] \in Blanks, s[i])]]
    OBVIOUS
  <1>2. ASSUME NEW i \in 1 .. l, NEW t \in S PROVE WordStep(t, i = 1 \/ s[i - 1] \in Blanks, s[i]) \in S
    <2>1. s[i] \in Byte /\ (i = 1 \/ s[i - 1] \in Blanks) \in BOOLEAN
      BY <1>0
    <2> QED BY <1>0, <2>1, WordStepType
  <1>3. << >> \in S
    BY <1>0
  <1>4. PICK f \in Runs(l, S, << >>, G) : TRUE
    <2>1. G \in Steps(l, S)
      BY <1>1, <1>2 DEF Steps
    <2> QED BY <1>3, <2>1, Recursion
  <1>5. \A i \in 1 .. l : f[i - 1] \in S /\ f[i] = WordStep(f[i - 1], i = 1 \/ s[i - 1] \in Blanks, s[i])
    <2> SUFFICES ASSUME NEW i \in 1 .. l
                 PROVE  f[i - 1] \in S /\ f[i] = WordStep(f[i - 1], i = 1 \/ s[i - 1] \in Blanks, s[i])
      OBVIOUS
    <2>1. f[i - 1] \in S /\ f[i] = G[i][f[i - 1]]
      BY <1>4 DEF Runs
    <2> QED BY <1>1, <2>1
  <1>6. Step(f)
    <2>1. f \in [0 .. l -> S] /\ f[0] = << >>
      BY <1>4 DEF Runs
    <2>2. f = [i \in 0 .. l |-> IF i = 0 THEN << >> ELSE WordStep(f[i - 1], i = 1 \/ s[i - 1] \in Blanks, s[i])]
      BY <1>5, <2>1
    <2> QED BY <1>0, <2>2
  <1>7. PICK words : words = CHOOSE t : Step(t)
    OBVIOUS
  <1>8. Step(words)
    BY <1>6, <1>7
  <1>9. WordsOf(s) = words[Len(s)]
    BY <1>7 DEF WordsOf
  <1>10. /\ words[0] = << >>
         /\ \A i \in 1 .. l : words[i] = WordStep(words[i - 1], i = 1 \/ s[i - 1] \in Blanks, s[i])
    BY <1>0, <1>8
  <1>11. \A i \in 0 .. l : words[i] \in S
    <2>1. PICK T : T = {i \in 0 .. l : words[i] \in S}
      OBVIOUS
    <2>2. 0 \in T
      BY <1>3, <1>10, <2>1
    <2>3. ASSUME NEW i \in 1 .. l, i - 1 \in T PROVE i \in T
      BY <1>2, <1>10, <2>1, <2>3
    <2>4. \A i \in 0 .. l : i \in T
      BY <2>2, <2>3, Induction
    <2> QED BY <2>1, <2>4
  <1> QED BY <1>0, <1>9, <1>10, <1>11 DEF IsWords

\* One more byte, one more step.
LEMMA WordsOfAppend ==
  ASSUME NEW s \in Seq(Byte), NEW b \in Byte
  PROVE  WordsOf(Append(s, b)) = WordStep(WordsOf(s), EndsBlank(s), b)
  <1>0. PICK u, l : u = Append(s, b) /\ l = Len(s)
    OBVIOUS
  <1>1. /\ u \in Seq(Byte) /\ l \in Nat /\ u = Append(s, b) /\ l = Len(s) /\ Len(u) = l + 1
        /\ (\A i \in 1 .. l : u[i] = s[i]) /\ u[l + 1] = b
    BY <1>0, AppendProperties, LenProperties
  <1>2. PICK v : IsWords(s, v)
    BY Words
  <1>3. PICK w : IsWords(u, w)
    BY <1>1, Words
  <1> DEFINE T == {i \in 0 .. l : v[i] = w[i]}
  <1>4. 0 \in T
    <2>1. v[0] = w[0]
      BY <1>2, <1>3 DEF IsWords
    <2> QED BY <1>1, <2>1
  <1>5. ASSUME NEW i \in 1 .. l, i - 1 \in T PROVE i \in T
    <2>1. i \in 1 .. Len(s) /\ i \in 1 .. Len(u) /\ (i = 1 \/ i - 1 \in 1 .. l)
      BY <1>1
    <2>2. u[i] = s[i] /\ (i = 1 \/ u[i - 1] = s[i - 1])
      BY <1>1, <2>1
    <2>3. v[i] = WordStep(v[i - 1], i = 1 \/ s[i - 1] \in Blanks, s[i])
      BY <1>2, <2>1 DEF IsWords
    <2>4. w[i] = WordStep(w[i - 1], i = 1 \/ u[i - 1] \in Blanks, u[i])
      BY <1>3, <2>1 DEF IsWords
    <2>5. (i = 1 \/ s[i - 1] \in Blanks) = (i = 1 \/ u[i - 1] \in Blanks)
      BY <2>2
    <2>6. v[i - 1] = w[i - 1]
      BY <1>5
    <2>7. v[i] = w[i]
      BY <2>2, <2>3, <2>4, <2>5, <2>6
    <2> QED BY <2>7
  <1>6. \A i \in 0 .. l : i \in T
    <2> HIDE DEF T
    <2> QED BY <1>1, <1>4, <1>5, Induction
  <1>7. v[l] = w[l] /\ v[l] = WordsOf(s)
    BY <1>1, <1>2, <1>6 DEF IsWords
  <1>8. w[l + 1] = WordStep(w[l], l + 1 = 1 \/ u[l] \in Blanks, b) /\ w[l + 1] = WordsOf(u)
    <2>1. l + 1 \in 1 .. Len(u) /\ (l + 1) - 1 = l
      BY <1>1
    <2> QED BY <1>1, <1>3, <2>1 DEF IsWords
  <1>9. (l + 1 = 1 \/ u[l] \in Blanks) = EndsBlank(s)
    <2>1. l = 0 <=> s = << >>
      BY <1>1, EmptySeq
    <2>2. l # 0 => u[l] = s[l]
      BY <1>1
    <2> QED BY <1>1, <2>1, <2>2 DEF EndsBlank
  <1> QED BY <1>1, <1>7, <1>8, <1>9

-------------------------------------------------------------------------------
(* Well-formed text.                                                           *)

\* What a round does where a character of n bytes begins.
CharacterRound(data, i, t, room, n, r) ==
  \/ n = 1 /\ data[i] \in Blanks /\ t.space /\ r = t
  \/ n = 1 /\ data[i] \in Blanks /\ ~t.space /\ r = Put(t, <<Space>>, TRUE, t.next)
  \/ n = 1 /\ data[i] \in 33 .. 126 /\ r = Put(t, <<data[i]>>, FALSE, t.next)
  \/ n > 1 /\ Len(t.out) + n > room /\ r = Put(t, <<Question>>, FALSE, Len(data) + 1)
  \/ n > 1 /\ Len(t.out) + n <= room /\ r = Put(t, Slice(data, i, n), FALSE, i + n)

LEMMA CharacterRounds ==
  ASSUME NEW data \in Seq(Byte), NEW i \in 1 .. Len(data), NEW n \in 1 .. 4, i + n - 1 <= Len(data),
         IsCharacter(Slice(data, i, n)), Printable(data[i]) \/ data[i] \in Blanks,
         NEW room \in Nat, NEW t \in Progress, ~Skips(data, i, t, room)
  PROVE  CharacterRound(data, i, t, room, n, Round(data, i, t, room))
  <1>1. PICK c, m, r : data[i] = c /\ SeqLen(c) = m /\ Round(data, i, t, room) = r
    OBVIOUS
  <1>2. c \in Byte
    BY <1>1
  <1>3. RoundCase(data, i, t, room, c, m, r)
    BY <1>1, <1>2, RoundCases
  <1>4. PICK seq : seq = Slice(data, i, n)
    OBVIOUS
  <1>5. seq \in Seq(Byte) /\ Len(seq) = n /\ seq[1] = c /\ IsCharacter(seq) /\ Head(seq) = seq[1]
    <2>1. i \in Nat \ {0} /\ n \in Nat
      OBVIOUS
    <2>2. Slice(data, i, n) \in Seq(Byte) /\ Len(Slice(data, i, n)) = n
      BY <2>1, Slices
    <2>3. \A k \in 1 .. n : Slice(data, i, n)[k] = data[i + k - 1]
      BY <2>1, Slices
    <2>4. 1 \in 1 .. n /\ i + 1 - 1 = i
      OBVIOUS
    <2>5. seq[1] = c
      BY <1>1, <1>4, <2>3, <2>4
    <2>6. Head(seq) = seq[1]
      BY <1>4, <2>1, <2>2
    <2> QED BY <1>4, <2>2, <2>5, <2>6
  <1>6. CASE n = 1
    <2>1. c \in 0 .. 127
      BY <1>5, <1>6 DEF IsCharacter, Lead
    <2>2. c \in Blanks \/ c \in 33 .. 126
      <3>1. Printable(c) \/ c \in Blanks
        BY <1>1
      <3> QED BY <2>1, <3>1 DEF Printable, Blanks, Space
    <2>3. ~(c \in 128 .. 255) /\ ~(c \in 192 .. 247)
      BY <2>1, SMTT(20)
    <2>4. c \in Blanks => IsControl(c) /\ c \notin 33 .. 126
      BY DEF Blanks, IsControl, Space
    <2>5. c \in 33 .. 126 => ~IsControl(c) /\ c \notin Blanks
      BY DEF Blanks, IsControl, Space
    <2> QED BY <1>1, <1>3, <1>6, <2>2, <2>3, <2>4, <2>5, Zenon DEF RoundCase, CharacterRound
  <1>7. CASE n > 1
    <2>1. Len(seq) \in 2 .. 4
      BY <1>5, <1>7
    <2>2. m = n /\ ValidSequence(Slice(data, i, n))
      BY <1>1, <1>4, <1>5, <2>1, ValidSequences
    <2>3. m > 0 /\ m # 0
      BY <1>7, <2>2
    <2>4. c \in 192 .. 247 /\ ~IsControl(c) /\ c \notin 33 .. 126
      BY <1>1, <1>2, <2>3, Kinds
    <2>5. TooLong(data, i, m, t, room) <=> Len(t.out) + n > room
      BY <2>2 DEF TooLong
    <2>6. \/ Len(t.out) + n > room /\ r = Put(t, <<Question>>, FALSE, Len(data) + 1)
          \/ ~(Len(t.out) + n > room) /\ r = Put(t, Slice(data, i, n), FALSE, i + n)
      BY <1>3, <2>2, <2>3, <2>4, <2>5, Zenon DEF RoundCase
    <2>7. Len(t.out) \in Nat
      BY DEF Progress
    <2>8. ~(Len(t.out) + n > room) => Len(t.out) + n <= room
      BY <2>7
    <2> QED BY <1>1, <1>7, <2>6, <2>8, Zenon DEF CharacterRound
  <1> QED BY <1>6, <1>7

LEMMA Bytes == /\ \A b \in Byte : b \in Nat
               /\ \A b \in 33 .. 126 : b \notin Blanks
  BY DEF Byte, Blanks, Space

\* Texts that read the same, also when they go on in the same way.
SameWords(s, u) == WordsOf(s) = WordsOf(u) /\ (EndsBlank(s) <=> EndsBlank(u))

LEMMA EndsBlankAppend ==
  ASSUME NEW s \in Seq(Byte), NEW b \in Byte
  PROVE  Append(s, b) \in Seq(Byte) /\ (EndsBlank(Append(s, b)) <=> b \in Blanks)
  <1>1. PICK u : u = Append(s, b)
    OBVIOUS
  <1>2. u \in Seq(Byte) /\ Len(u) = Len(s) + 1 /\ u[Len(u)] = b /\ Len(s) \in Nat
    BY <1>1, AppendProperties, LenProperties
  <1>3. u # << >>
    BY <1>2, EmptySeq
  <1> QED BY <1>1, <1>2, <1>3 DEF EndsBlank

LEMMA SameWordsByte ==
  ASSUME NEW s \in Seq(Byte), NEW u \in Seq(Byte), SameWords(s, u), NEW b \in Byte
  PROVE  SameWords(Append(s, b), Append(u, b))
  <1>1. WordsOf(Append(s, b)) = WordStep(WordsOf(s), EndsBlank(s), b)
    BY WordsOfAppend
  <1>2. WordsOf(Append(u, b)) = WordStep(WordsOf(u), EndsBlank(u), b)
    BY WordsOfAppend
  <1>3. EndsBlank(s) = EndsBlank(u)
    BY DEF SameWords, EndsBlank
  <1>4. WordStep(WordsOf(s), EndsBlank(s), b) = WordStep(WordsOf(u), EndsBlank(u), b)
    BY <1>3 DEF SameWords
  <1> QED BY <1>1, <1>2, <1>4, EndsBlankAppend DEF SameWords

LEMMA SameWordsBlanks ==
  ASSUME NEW s \in Seq(Byte), NEW u \in Seq(Byte), SameWords(s, u), NEW b \in Blanks, NEW d \in Blanks
  PROVE  /\ SameWords(Append(s, b), Append(u, d))
         /\ EndsBlank(s) => SameWords(s, Append(u, d))
  <1>1. b \in Byte /\ d \in Byte
    BY DEF Blanks, Byte, Space
  <1>2. WordsOf(Append(s, b)) = WordStep(WordsOf(s), EndsBlank(s), b)
    BY <1>1, WordsOfAppend
  <1>3. WordsOf(Append(u, d)) = WordStep(WordsOf(u), EndsBlank(u), d)
    BY <1>1, WordsOfAppend
  <1>4. WordsOf(Append(s, b)) = WordsOf(s) /\ WordsOf(Append(u, d)) = WordsOf(u)
    BY <1>2, <1>3 DEF WordStep
  <1> QED BY <1>1, <1>4, EndsBlankAppend DEF SameWords

LEMMA PrefixAppend ==
  ASSUME NEW S, NEW c \in Seq(S), NEW k \in 1 .. Len(c)
  PROVE  /\ SubSeq(c, 1, k - 1) \in Seq(S) /\ c[k] \in S
         /\ SubSeq(c, 1, k) = Append(SubSeq(c, 1, k - 1), c[k])
  <1>1. PICK a, b : a = SubSeq(c, 1, k - 1) /\ b = SubSeq(c, 1, k)
    OBVIOUS
  <1>2. a = Slice(c, 1, k - 1) /\ b = Slice(c, 1, k)
    <2>1. 1 + (k - 1) - 1 = k - 1 /\ 1 + k - 1 = k
      OBVIOUS
    <2> QED BY <1>1, <2>1 DEF Slice
  <1>3. a \in Seq(S) /\ Len(a) = k - 1 /\ \A l \in 1 .. k - 1 : a[l] = c[1 + l - 1]
    <2>1. k - 1 \in Nat /\ 1 \in Nat \ {0} /\ 1 + (k - 1) - 1 <= Len(c)
      BY LenProperties
    <2> QED BY <1>2, <2>1, Slices
  <1>4. b \in Seq(S) /\ Len(b) = k /\ \A l \in 1 .. k : b[l] = c[1 + l - 1]
    <2>1. k \in Nat /\ 1 \in Nat \ {0} /\ 1 + k - 1 <= Len(c)
      BY LenProperties
    <2> QED BY <1>2, <2>1, Slices
  <1>5. c[k] \in S
    OBVIOUS
  <1>6. PICK d : d = Append(a, c[k])
    OBVIOUS
  <1>7. d \in Seq(S) /\ Len(d) = k /\ (\A l \in 1 .. k - 1 : d[l] = a[l]) /\ d[k] = c[k]
    BY <1>3, <1>5, <1>6, AppendProperties
  <1>8. ASSUME NEW l \in 1 .. k PROVE d[l] = b[l]
    <2>1. 1 + l - 1 = l
      OBVIOUS
    <2>2. l = k \/ l \in 1 .. k - 1
      OBVIOUS
    <2> QED BY <1>3, <1>4, <1>7, <2>1, <2>2
  <1>9. d = b
    BY <1>4, <1>7, <1>8, SeqEqual
  <1> QED BY <1>1, <1>3, <1>5, <1>6, <1>9

LEMMA SameWordsMore ==
  ASSUME NEW s \in Seq(Byte), NEW u \in Seq(Byte), SameWords(s, u), NEW c \in Seq(Byte)
  PROVE  SameWords(s \o c, u \o c)
  <1>1. PICK T : T = {k \in 0 .. Len(c) : SameWords(s \o SubSeq(c, 1, k), u \o SubSeq(c, 1, k))}
    OBVIOUS
  <1>2. 0 \in T
    <2>1. SubSeq(c, 1, 0) = << >>
      BY SubSeqEmpty
    <2>2. s \o SubSeq(c, 1, 0) = s /\ u \o SubSeq(c, 1, 0) = u
      BY <2>1, ConcatEmptySeq
    <2>3. SameWords(s \o SubSeq(c, 1, 0), u \o SubSeq(c, 1, 0))
      BY <2>2
    <2>4. 0 \in 0 .. Len(c)
      BY LenProperties
    <2> QED BY <1>1, <2>3, <2>4, Zenon
  <1>3. ASSUME NEW k \in 1 .. Len(c), k - 1 \in T PROVE k \in T
    <2>1. PICK a : a = SubSeq(c, 1, k - 1)
      OBVIOUS
    <2>2. a \in Seq(Byte) /\ c[k] \in Byte /\ SubSeq(c, 1, k) = Append(a, c[k])
      BY <2>1, PrefixAppend
    <2>3. s \o Append(a, c[k]) = Append(s \o a, c[k]) /\ u \o Append(a, c[k]) = Append(u \o a, c[k])
      BY <2>2, SMTT(20)
    <2>4. SameWords(s \o a, u \o a)
      BY <1>1, <1>3, <2>1
    <2>5. s \o a \in Seq(Byte) /\ u \o a \in Seq(Byte)
      BY <2>2, ConcatProperties
    <2>6. SameWords(Append(s \o a, c[k]), Append(u \o a, c[k]))
      BY <2>2, <2>4, <2>5, SameWordsByte
    <2>7. SameWords(s \o SubSeq(c, 1, k), u \o SubSeq(c, 1, k))
      BY <2>2, <2>3, <2>6
    <2>8. k \in 0 .. Len(c)
      OBVIOUS
    <2> QED BY <1>1, <2>7, <2>8, Zenon
  <1>4. Len(c) \in Nat /\ Len(c) \in 0 .. Len(c)
    BY LenProperties
  <1>5. Len(c) \in T
    BY <1>2, <1>3, <1>4, Induction
  <1>6. SubSeq(c, 1, Len(c)) = c
    BY SubSeqFull
  <1> QED BY <1>1, <1>5, <1>6

LEMMA PrefixSlice ==
  ASSUME NEW data \in Seq(Byte), NEW i \in 1 .. Len(data), NEW n \in 1 .. 4, i + n - 1 <= Len(data)
  PROVE  /\ SubSeq(data, 1, i - 1) \in Seq(Byte) /\ Len(SubSeq(data, 1, i - 1)) = i - 1
         /\ Slice(data, i, n) \in Seq(Byte) /\ Len(Slice(data, i, n)) = n
         /\ Slice(data, i, n)[1] = data[i]
         /\ SubSeq(data, 1, i + n - 1) = SubSeq(data, 1, i - 1) \o Slice(data, i, n)
  <1>1. Len(data) \in Nat /\ i \in Nat \ {0} /\ n \in Nat
    BY LenProperties
  <1>2. Slice(data, i, n) \in Seq(Byte) /\ Len(Slice(data, i, n)) = n
    BY <1>1, Slices
  <1>3. Slice(data, i, n)[1] = data[i]
    <2>1. \A k \in 1 .. n : Slice(data, i, n)[k] = data[i + k - 1]
      BY <1>1, Slices
    <2>2. 1 \in 1 .. n /\ i + 1 - 1 = i
      OBVIOUS
    <2> QED BY <2>1, <2>2
  <1>4. Slice(data, 1, i - 1) \in Seq(Byte) /\ Len(Slice(data, 1, i - 1)) = i - 1
    <2>1. i - 1 \in Nat /\ 1 \in Nat \ {0} /\ 1 + (i - 1) - 1 <= Len(data)
      BY <1>1
    <2> QED BY <2>1, Slices
  <1>5. Slice(data, 1, i - 1) = SubSeq(data, 1, i - 1)
    <2>1. 1 + (i - 1) - 1 = i - 1
      BY <1>1
    <2> QED BY <2>1 DEF Slice
  <1>6. SubSeq(data, 1, i + n - 1) = SubSeq(data, 1, i - 1) \o SubSeq(data, i, i + n - 1)
    <2>1. PICK k \in Nat : k = i - 1
      BY <1>1
    <2>2. 1 \in 1 .. Len(data) + 1 /\ k \in 1 - 1 .. Len(data) /\ i + n - 1 \in k .. Len(data) /\ k + 1 = i
      BY <1>1, <2>1
    <2>3. SubSeq(data, 1, k) \o SubSeq(data, k + 1, i + n - 1) = SubSeq(data, 1, i + n - 1)
      BY <2>2, ConcatAdjacentSubSeq
    <2> QED BY <2>1, <2>2, <2>3
  <1> QED BY <1>2, <1>3, <1>4, <1>5, <1>6 DEF Slice

LEMMA EndsBlankConcat ==
  ASSUME NEW s \in Seq(Byte), NEW c \in Seq(Byte), Len(c) > 0, \A k \in 1 .. Len(c) : c[k] >= 128
  PROVE  ~EndsBlank(s \o c)
  <1>1. PICK u : u = s \o c
    OBVIOUS
  <1>2. PICK l, m : l = Len(s) /\ m = Len(c)
    OBVIOUS
  <1>3. /\ l \in Nat /\ m \in Nat /\ Len(u) = l + m
        /\ \A k \in 1 .. l + m : u[k] = IF k <= l THEN s[k] ELSE c[k - l]
    BY <1>1, <1>2, ConcatProperties, LenProperties
  <1>4. l + m \in 1 .. l + m /\ ~(l + m <= l) /\ (l + m) - l = m /\ m \in 1 .. m
    BY <1>2, <1>3
  <1>5. u[l + m] = c[m] /\ c[m] >= 128 /\ c[m] \in Nat
    <2>1. c[m] \in Byte
      BY <1>2, <1>4
    <2>2. c[m] \in Nat
      BY <2>1, Bytes, Zenon
    <2>3. c[m] >= 128
      BY <1>2, <1>4
    <2>4. u[l + m] = c[m]
      BY <1>3, <1>4
    <2> QED BY <2>2, <2>3, <2>4
  <1>6. u[l + m] \notin Blanks
    BY <1>5 DEF Blanks, Space
  <1>7. u # << >>
    <2>1. Len(u) > 0
      BY <1>3, <1>4
    <2> QED BY <2>1, EmptySeq
  <1> QED BY <1>1, <1>3, <1>6, <1>7 DEF EndsBlank

LEMMA CharacterBytes ==
  ASSUME NEW seq \in Seq(Byte), Len(seq) \in 2 .. 4, IsCharacter(seq)
  PROVE  \A k \in 1 .. Len(seq) : seq[k] >= 128
  BY ValidSequences, SequenceCharacter

\* The bytes that have been dealt with after round i.
ReadTo(t, i) == IF t.next > i + 1 THEN t.next - 1 ELSE i

\* What a round leaves of a well-formed text that has room.
Same(data, starts, i, t) ==
  /\ t.next <= Len(data) + 1 /\ Len(t.out) <= ReadTo(t, i)
  /\ ReadTo(t, i) + 1 \in starts \cup {Len(data) + 1}
  /\ t.space <=> EndsBlank(t.out)
  /\ SameWords(t.out, SubSeq(data, 1, ReadTo(t, i)))

\* Payloads of the characters that are kept: no control characters but blanks.
IsText(data, starts) == /\ starts \in SUBSET (1 .. Len(data)) /\ Characters(data, starts)
                        /\ \A k \in 1 .. Len(data) : Printable(data[k]) \/ data[k] \in Blanks

LEMMA CharacterAt ==
  ASSUME NEW data \in Seq(Byte), NEW starts, IsText(data, starts), NEW i \in starts,
         NEW room \in Nat, NEW t \in Progress, ~Skips(data, i, t, room)
  PROVE  \E n \in 1 .. 4 : /\ i \in 1 .. Len(data) /\ i + n - 1 <= Len(data) /\ i + n \in starts \cup {Len(data) + 1}
                           /\ IsCharacter(Slice(data, i, n))
                           /\ CharacterRound(data, i, t, room, n, Round(data, i, t, room))
  <1>1. i \in 1 .. Len(data) /\ Len(data) \in Nat
    BY LenProperties DEF IsText
  <1>2. PICK n \in 1 .. 4 : i + n \in starts \cup {Len(data) + 1} /\ IsCharacter(Slice(data, i, n))
    BY DEF IsText, Characters
  <1>3. i + n - 1 <= Len(data)
    BY <1>1, <1>2 DEF IsText
  <1>4. Printable(data[i]) \/ data[i] \in Blanks
    BY <1>1 DEF IsText
  <1>5. CharacterRound(data, i, t, room, n, Round(data, i, t, room))
    BY <1>1, <1>2, <1>3, <1>4, CharacterRounds
  <1> QED BY <1>1, <1>2, <1>3, <1>5

LEMMA PutType ==
  ASSUME NEW t \in Progress, NEW c \in Seq(Byte), NEW b \in BOOLEAN, NEW m \in Nat
  PROVE  Put(t, c, b, m) \in Progress
  <1>1. t.out \o c \in Seq(Byte)
    BY ConcatProperties DEF Progress
  <1> QED BY <1>1 DEF Put, Progress

LEMMA SameRound ==
  ASSUME NEW data \in Seq(Byte), NEW starts, IsText(data, starts), NEW i \in 1 .. Len(data),
         NEW room \in Nat, Len(data) <= room, NEW t \in Progress, Same(data, starts, i - 1, t)
  PROVE  Round(data, i, t, room) \in Progress /\ Same(data, starts, i, Round(data, i, t, room))
  <1>1. PICK r : r = Round(data, i, t, room)
    OBVIOUS
  <1> SUFFICES r \in Progress /\ Same(data, starts, i, r)
    BY <1>1
  <1>2. /\ Len(data) \in Nat /\ i \in Nat \ {0} /\ i <= Len(data) /\ t.next \in Nat /\ t.out \in Seq(Byte)
        /\ Len(t.out) \in Nat /\ t.space \in BOOLEAN
    BY LenProperties DEF Progress
  <1>3. CASE i < t.next
    <2>1. r = t
      BY <1>1, <1>3 DEF Round
    <2>2. ReadTo(t, i) = ReadTo(t, i - 1)
      BY <1>2, <1>3 DEF ReadTo
    <2> QED BY <1>1, <2>1, <2>2 DEF Same
  <1>4. CASE ~(i < t.next)
    <2>1. ReadTo(t, i - 1) = i - 1
      BY <1>2, <1>4 DEF ReadTo
    <2>2. Len(t.out) <= i - 1 /\ i \in starts \cup {Len(data) + 1}
      BY <1>2, <2>1 DEF Same
    <2>3. i \in starts
      BY <1>2, <2>2
    <2>4. ~Skips(data, i, t, room)
      BY <1>2, <1>4, <2>2 DEF Skips
    <2>5. PICK n \in 1 .. 4 : /\ i + n - 1 <= Len(data) /\ i + n \in starts \cup {Len(data) + 1}
                              /\ IsCharacter(Slice(data, i, n))
                              /\ CharacterRound(data, i, t, room, n, r)
      BY <1>1, <2>3, <2>4, CharacterAt
    <2>6. PICK before, c : before = SubSeq(data, 1, i - 1) /\ c = Slice(data, i, n)
      OBVIOUS
    <2>7. /\ before \in Seq(Byte) /\ c \in Seq(Byte) /\ Len(c) = n /\ c[1] = data[i]
          /\ SubSeq(data, 1, i + n - 1) = before \o c
      BY <2>5, <2>6, PrefixSlice
    <2>8. SameWords(t.out, before) /\ (t.space <=> EndsBlank(t.out))
      BY <2>1, <2>6 DEF Same
    <2>9. ASSUME r \in Progress, ReadTo(r, i) = i + n - 1, r.next <= Len(data) + 1, Len(r.out) <= i + n - 1,
                 r.space <=> EndsBlank(r.out), SameWords(r.out, before \o c)
          PROVE  r \in Progress /\ Same(data, starts, i, r)
      <3>1. (i + n - 1) + 1 = i + n
        OBVIOUS
      <3> QED BY <2>5, <2>7, <2>9, <3>1 DEF Same
    <2>10. CASE n = 1
      <3>1. c = <<data[i]>> /\ data[i] \in Byte
        BY <2>7, <2>10
      <3>2. before \o c = Append(before, data[i])
        BY <2>7, <3>1, AppendIsConcat
      <3>3. ASSUME NEW b \in Byte, NEW blank \in BOOLEAN, blank <=> b \in Blanks, r = Put(t, <<b>>, blank, t.next),
                   SameWords(Append(t.out, b), Append(before, data[i]))
            PROVE  r \in Progress /\ Same(data, starts, i, r)
        <4>1. /\ r \in Progress /\ r.out = t.out \o <<b>> /\ r.space = blank
              /\ r.next = t.next /\ Len(r.out) = Len(t.out) + 1
          <5>1. <<b>> \in Seq(Byte) /\ Len(<<b>>) = 1
            OBVIOUS
          <5>2. Put(t, <<b>>, blank, t.next) \in Progress
            BY <1>2, <5>1, PutType, Zenon
          <5>3. Len(t.out \o <<b>>) = Len(t.out) + 1
            BY <1>2, <5>1, ConcatProperties
          <5> QED BY <3>3, <5>2, <5>3 DEF Put
        <4>2. r.out = Append(t.out, b)
          BY <1>2, <4>1, AppendIsConcat
        <4>3. EndsBlank(r.out) <=> b \in Blanks
          BY <1>2, <4>2, EndsBlankAppend
        <4>4. ReadTo(r, i) = i + n - 1
          BY <1>2, <1>4, <2>10, <4>1 DEF ReadTo
        <4>5. r.next <= Len(data) + 1 /\ Len(r.out) <= i + n - 1
          BY <1>2, <1>4, <2>2, <2>10, <4>1
        <4>6. (r.space <=> EndsBlank(r.out)) /\ SameWords(r.out, before \o c)
          BY <3>2, <3>3, <4>1, <4>2, <4>3
        <4> QED BY <2>9, <4>1, <4>4, <4>5, <4>6
      <3>4. CASE data[i] \in Blanks /\ t.space /\ r = t
        <4>1. EndsBlank(t.out) /\ SameWords(before, t.out)
          BY <2>8, <3>4 DEF SameWords
        <4>2. SameWords(t.out, Append(before, data[i]))
          BY <1>2, <2>7, <2>8, <3>4, <4>1, SameWordsBlanks
        <4>3. ReadTo(r, i) = i + n - 1
          BY <1>2, <1>4, <2>10, <3>4 DEF ReadTo
        <4>4. r.next <= Len(data) + 1 /\ Len(r.out) <= i + n - 1
          BY <1>2, <1>4, <2>2, <2>10, <3>4
        <4> QED BY <2>8, <2>9, <3>2, <3>4, <4>2, <4>3, <4>4
      <3>5. CASE data[i] \in Blanks /\ ~t.space /\ r = Put(t, <<Space>>, TRUE, t.next)
        <4>1. Space \in Blanks /\ Space \in Byte
          BY DEF Blanks, Space, Byte
        <4>2. SameWords(Append(t.out, Space), Append(before, data[i]))
          BY <1>2, <2>7, <2>8, <3>5, <4>1, SameWordsBlanks
        <4> QED BY <3>3, <3>5, <4>1, <4>2
      <3>6. CASE data[i] \in 33 .. 126 /\ r = Put(t, <<data[i]>>, FALSE, t.next)
        <4>1. data[i] \notin Blanks
          <5>1. PICK b : data[i] = b
            OBVIOUS
          <5>2. b \in 33 .. 126
            BY <3>6, <5>1
          <5>3. b \notin Blanks
            BY <5>2, Bytes, Zenon
          <5> QED BY <5>1, <5>3
        <4>2. SameWords(Append(t.out, data[i]), Append(before, data[i]))
          BY <1>2, <2>7, <2>8, <3>1, SameWordsByte
        <4> QED BY <3>1, <3>3, <3>6, <4>1, <4>2
      <3>7. ~(n > 1)
        BY <2>10
      <3> QED BY <2>5, <3>4, <3>5, <3>6, <3>7, Zenon DEF CharacterRound
    <2>11. CASE n # 1
      <3>1. n > 1 /\ ~(Len(t.out) + n > room) /\ i + n \in Nat
        BY <1>2, <2>2, <2>5, <2>11
      <3>2. r = Put(t, c, FALSE, i + n)
        BY <2>5, <2>6, <2>11, <3>1, Zenon DEF CharacterRound
      <3>3. r \in Progress /\ r.out = t.out \o c /\ r.space = FALSE /\ r.next = i + n /\ Len(r.out) = Len(t.out) + n
        <4>1. FALSE \in BOOLEAN
          OBVIOUS
        <4>2. Put(t, c, FALSE, i + n) \in Progress
          BY <2>7, <3>1, <4>1, PutType, Zenon
        <4>3. Len(t.out \o c) = Len(t.out) + n
          BY <1>2, <2>7, ConcatProperties, SMTT(20)
        <4> QED BY <3>2, <4>2, <4>3 DEF Put
      <3>4. ~EndsBlank(r.out)
        <4>1. Len(c) \in 2 .. 4 /\ Len(c) > 0 /\ IsCharacter(c)
          BY <2>5, <2>6, <2>7, <3>1
        <4>2. \A k \in 1 .. Len(c) : c[k] >= 128
          BY <2>7, <4>1, CharacterBytes
        <4> QED BY <1>2, <2>7, <3>3, <4>1, <4>2, EndsBlankConcat
      <3>5. SameWords(r.out, before \o c)
        BY <1>2, <2>7, <2>8, <3>3, SameWordsMore
      <3>6. ReadTo(r, i) = i + n - 1
        BY <1>2, <3>1, <3>3 DEF ReadTo
      <3>7. r.next <= Len(data) + 1 /\ Len(r.out) <= i + n - 1
        BY <1>2, <2>2, <2>5, <3>3
      <3> QED BY <2>9, <3>3, <3>4, <3>5, <3>6, <3>7
    <2> QED BY <1>1, <2>10, <2>11
  <1> QED BY <1>3, <1>4

\* A well-formed text that fits keeps its words.
LEMMA TextWords ==
  ASSUME NEW data \in Seq(Byte), NEW starts, IsText(data, starts), NEW room \in Nat, Len(data) <= room
  PROVE  WordsOf(Text(data, room)) = WordsOf(data)
  <1>1. PICK text : /\ text[0] = NoText /\ Text(data, room) = text[Len(data)].out
                    /\ \A i \in 0 .. Len(data) : text[i] \in Progress
                    /\ \A i \in 1 .. Len(data) : text[i] = Round(data, i, text[i - 1], room)
    BY TextSteps
  <1>2. PICK T : T = {i \in 0 .. Len(data) : Same(data, starts, i, text[i])}
    OBVIOUS
  <1>3. Len(data) \in Nat
    BY LenProperties
  <1>4. 0 \in T
    <2>1. ReadTo(NoText, 0) = 0
      BY DEF ReadTo, NoText
    <2>2. SubSeq(data, 1, 0) = << >>
      BY SubSeqEmpty
    <2>3. 0 + 1 \in starts \cup {Len(data) + 1}
      BY DEF IsText, Characters
    <2>4. NoText.out = << >> /\ NoText.space = TRUE /\ NoText.next = 1
      BY DEF NoText
    <2>5. EndsBlank(<< >>) /\ SameWords(<< >>, << >>)
      BY DEF EndsBlank, SameWords
    <2>6. 1 <= Len(data) + 1 /\ Len(<< >>) <= 0
      BY <1>3
    <2>7. Same(data, starts, 0, NoText)
      BY <2>1, <2>2, <2>3, <2>4, <2>5, <2>6 DEF Same
    <2>8. 0 \in 0 .. Len(data)
      BY <1>3
    <2> QED BY <1>1, <1>2, <2>7, <2>8
  <1>5. ASSUME NEW i \in 1 .. Len(data), i - 1 \in T PROVE i \in T
    <2>1. i - 1 \in 0 .. Len(data) /\ i \in 0 .. Len(data)
      BY <1>3
    <2>2. text[i - 1] \in Progress /\ Same(data, starts, i - 1, text[i - 1])
      BY <1>1, <1>2, <1>5, <2>1
    <2>3. Same(data, starts, i, Round(data, i, text[i - 1], room))
      BY <2>2, SameRound
    <2> QED BY <1>1, <1>2, <2>1, <2>3
  <1>6. Len(data) \in 0 .. Len(data) /\ Len(data) \in T
    <2>1. \A i \in 0 .. Len(data) : i \in T
      BY <1>3, <1>4, <1>5, Induction
    <2> QED BY <1>3, <2>1
  <1>7. PICK t \in Progress : t = text[Len(data)]
    BY <1>1, <1>6
  <1>8. Same(data, starts, Len(data), t)
    BY <1>2, <1>6, <1>7
  <1>9. ReadTo(t, Len(data)) = Len(data)
    BY <1>3, <1>8 DEF ReadTo, Same, Progress
  <1>10. SameWords(t.out, data)
    BY <1>8, <1>9, SubSeqFull DEF Same
  <1> QED BY <1>1, <1>7, <1>10 DEF SameWords

-------------------------------------------------------------------------------
(* Clean text.                                                                 *)

\* What a round leaves of a clean text: a prefix, the whole of what there is room for, or
\* a prefix with a question mark for what did not fit.
Kept(data, starts, room, i, t) ==
  \/ /\ t.next <= Len(data) + 1 /\ ReadTo(t, i) <= room
     /\ ReadTo(t, i) + 1 \in starts \cup {Len(data) + 1}
     /\ t.space <=> EndsBlank(t.out)
     /\ t.out = SubSeq(data, 1, ReadTo(t, i))
  \/ /\ room <= Len(data) /\ t.out = SubSeq(data, 1, room)
  \/ /\ room < Len(data) /\ t.next = Len(data) + 1
     /\ \E k \in 0 .. Len(data) : t.out = SubSeq(data, 1, k) \o <<Question>>

\* A prefix of a clean text ends with a blank only before a character that is no space.
LEMMA CleanBlank ==
  ASSUME NEW data \in Seq(Byte), Clean(data), NEW i \in 1 .. Len(data), data[i] \in Blanks
  PROVE  data[i] = Space /\ ~EndsBlank(SubSeq(data, 1, i - 1))
  <1>1. \A k \in 1 .. Len(data) : data[k] \in Byte /\ Printable(data[k])
    BY LenProperties DEF Clean, Readable
  <1>2. \A b \in Byte : Printable(b) /\ b \in Blanks => b = Space
    BY DEF Byte, Printable, Blanks, Space
  <1>3. data[i] = Space
    BY <1>1, <1>2
  <1>4. i > 1 /\ data[i - 1] # Space
    BY <1>3, LenProperties DEF Clean
  <1>5. i - 1 \in 1 .. Len(data) /\ Len(data) \in Nat
    BY <1>4, LenProperties
  <1>6. data[i - 1] \notin Blanks
    BY <1>1, <1>2, <1>4, <1>5
  <1>7. PICK u : u = SubSeq(data, 1, i - 1)
    OBVIOUS
  <1>8. /\ u \in Seq(Byte) /\ Len(u) = i - 1 /\ u[i - 1] = data[i - 1]
    <2>1. /\ i - 1 \in Nat /\ 1 \in Nat \ {0} /\ 1 + (i - 1) - 1 <= Len(data)
          /\ 1 + (i - 1) - 1 = i - 1 /\ i - 1 \in 1 .. i - 1
      BY <1>5
    <2>2. u = Slice(data, 1, i - 1)
      BY <1>7, <2>1 DEF Slice
    <2>3. u \in Seq(Byte) /\ Len(u) = i - 1 /\ \A k \in 1 .. i - 1 : u[k] = data[1 + k - 1]
      BY <2>1, <2>2, Slices
    <2> QED BY <2>1, <2>3
  <1>9. u # << >>
    <2>1. Len(u) # 0
      BY <1>5, <1>8
    <2> QED BY <2>1, EmptySeq
  <1>10. ~EndsBlank(u)
    BY <1>6, <1>8, <1>9 DEF EndsBlank
  <1> QED BY <1>3, <1>7, <1>10

LEMMA KeptRound ==
  ASSUME NEW data \in Seq(Byte), NEW starts, IsText(data, starts), Clean(data), NEW i \in 1 .. Len(data),
         NEW room \in Nat, NEW t \in Progress, Kept(data, starts, room, i - 1, t)
  PROVE  Kept(data, starts, room, i, Round(data, i, t, room))
  <1>1. PICK r : r = Round(data, i, t, room)
    OBVIOUS
  <1> SUFFICES Kept(data, starts, room, i, r)
    BY <1>1
  <1>2. /\ Len(data) \in Nat /\ i \in Nat \ {0} /\ i <= Len(data) /\ t.next \in Nat /\ t.out \in Seq(Byte)
        /\ Len(t.out) \in Nat /\ t.space \in BOOLEAN
    BY LenProperties DEF Progress
  <1>3. CASE room <= Len(data) /\ t.out = SubSeq(data, 1, room)
    <2>1. Len(t.out) = room
      <3>1. 1 + room - 1 = room /\ 1 \in Nat \ {0}
        OBVIOUS
      <3>2. Len(Slice(data, 1, room)) = room
        BY <1>3, <3>1, Slices
      <3> QED BY <1>3, <3>1, <3>2 DEF Slice
    <2>2. Len(t.out) >= room
      BY <2>1
    <2>3. r = t
      BY <1>1, <2>2, Zenon DEF Round
    <2> QED BY <1>3, <2>3 DEF Kept
  <1>4. CASE /\ room < Len(data) /\ t.next = Len(data) + 1
             /\ \E k \in 0 .. Len(data) : t.out = SubSeq(data, 1, k) \o <<Question>>
    <2>1. i < t.next
      BY <1>2, <1>4
    <2>2. r = t
      BY <1>1, <2>1 DEF Round
    <2> QED BY <1>4, <2>2 DEF Kept
  <1>5. CASE /\ t.next <= Len(data) + 1 /\ ReadTo(t, i - 1) <= room
             /\ ReadTo(t, i - 1) + 1 \in starts \cup {Len(data) + 1}
             /\ t.space <=> EndsBlank(t.out)
             /\ t.out = SubSeq(data, 1, ReadTo(t, i - 1))
    <2>1. CASE i < t.next
      <3>1. r = t
        BY <1>1, <2>1 DEF Round
      <3>2. ReadTo(t, i) = ReadTo(t, i - 1)
        BY <1>2, <2>1 DEF ReadTo
      <3> QED BY <1>5, <3>1, <3>2 DEF Kept
    <2>2. CASE ~(i < t.next)
      <3>1. ReadTo(t, i - 1) = i - 1
        BY <1>2, <2>2 DEF ReadTo
      <3>2. i \in starts /\ i - 1 <= room
        BY <1>2, <1>5, <3>1
      <3>3. PICK before : before = SubSeq(data, 1, i - 1)
        OBVIOUS
      <3>4. t.out = before /\ Len(before) = i - 1 /\ before \in Seq(Byte)
        <4>1. 1 \in 1 .. 4 /\ i + 1 - 1 <= Len(data)
          BY <1>2
        <4> QED BY <1>5, <3>1, <3>3, <4>1, PrefixSlice
      <3>5. CASE i - 1 = room
        <4>3. Len(t.out) >= room
          BY <3>4, <3>5
        <4>1. r = t
          BY <1>1, <4>3, Zenon DEF Round
        <4>2. room <= Len(data) /\ t.out = SubSeq(data, 1, room)
          BY <1>2, <3>3, <3>4, <3>5
        <4> QED BY <4>1, <4>2 DEF Kept
      <3>6. CASE i - 1 # room
        <4>1. ~Skips(data, i, t, room)
          BY <1>2, <2>2, <3>2, <3>4, <3>6 DEF Skips
        <4>2. PICK n \in 1 .. 4 : /\ i + n - 1 <= Len(data) /\ i + n \in starts \cup {Len(data) + 1}
                                  /\ IsCharacter(Slice(data, i, n))
                                  /\ CharacterRound(data, i, t, room, n, r)
          BY <1>1, <3>2, <4>1, CharacterAt
        <4>3. PICK c : c = Slice(data, i, n)
          OBVIOUS
        <4>4. /\ c \in Seq(Byte) /\ Len(c) = n /\ c[1] = data[i]
              /\ SubSeq(data, 1, i + n - 1) = before \o c
          BY <3>3, <4>2, <4>3, PrefixSlice
        <4>5. ASSUME ReadTo(r, i) = i + n - 1, i + n - 1 <= room, r.next <= Len(data) + 1,
                     r.space <=> EndsBlank(r.out), r.out = before \o c
              PROVE  Kept(data, starts, room, i, r)
          <5>1. (i + n - 1) + 1 = i + n
            OBVIOUS
          <5> QED BY <4>2, <4>4, <4>5, <5>1 DEF Kept
        <4>6. CASE n = 1
          <5>1. c = <<data[i]>> /\ data[i] \in Byte
            BY <4>4, <4>6
          <5>2. before \o c = Append(before, data[i])
            BY <3>4, <5>1, AppendIsConcat
          <5>3. ASSUME NEW blank \in BOOLEAN, blank <=> data[i] \in Blanks, r = Put(t, <<data[i]>>, blank, t.next)
                PROVE  Kept(data, starts, room, i, r)
            <6>1. r.out = before \o c /\ r.space = blank /\ r.next = t.next
              BY <3>4, <5>1, <5>3 DEF Put
            <6>2. EndsBlank(r.out) <=> data[i] \in Blanks
              BY <3>4, <5>1, <5>2, <6>1, EndsBlankAppend
            <6>3. ReadTo(r, i) = i + n - 1
              BY <1>2, <2>2, <4>6, <6>1 DEF ReadTo
            <6>4. r.next <= Len(data) + 1 /\ i + n - 1 <= room
              BY <1>2, <1>5, <3>2, <3>6, <4>6, <6>1
            <6> QED BY <4>5, <5>3, <6>1, <6>2, <6>3, <6>4
          <5>4. CASE data[i] \in Blanks
            <6>1. data[i] = Space /\ ~t.space
              BY <1>5, <3>3, <3>4, <5>4, CleanBlank
            <6>2. data[i] \notin 33 .. 126
              BY <6>1 DEF Space
            <6>3. r = Put(t, <<Space>>, TRUE, t.next)
              <7>1. ~(n > 1)
                BY <4>6
              <7> QED BY <4>2, <6>1, <6>2, <7>1, Zenon DEF CharacterRound
            <6> QED BY <5>3, <5>4, <6>1, <6>3
          <5>5. CASE data[i] \notin Blanks
            <6>1. r = Put(t, <<data[i]>>, FALSE, t.next)
              <7>1. ~(n > 1)
                BY <4>6
              <7> QED BY <4>2, <5>5, <7>1, Zenon DEF CharacterRound
            <6> QED BY <5>3, <5>5, <6>1
          <5> QED BY <5>4, <5>5
        <4>7. CASE n # 1
          <5>1. n > 1
            BY <4>7
          <5>2. CASE Len(t.out) + n > room
            <6>1. ~(Len(t.out) + n <= room)
              BY <1>2, <5>2
            <6>2. r = Put(t, <<Question>>, FALSE, Len(data) + 1)
              BY <4>2, <4>7, <6>1, Zenon DEF CharacterRound
            <6>3. r.next = Len(data) + 1 /\ r.out = before \o <<Question>>
              BY <3>4, <6>2 DEF Put
            <6>4. room < Len(data) /\ i - 1 \in 0 .. Len(data)
              BY <1>2, <3>4, <4>2, <5>2
            <6> QED BY <3>3, <6>3, <6>4 DEF Kept
          <5>3. CASE ~(Len(t.out) + n > room)
            <6>1. r = Put(t, c, FALSE, i + n)
              BY <4>2, <4>3, <4>7, <5>3, Zenon DEF CharacterRound
            <6>2. r.out = before \o c /\ r.space = FALSE /\ r.next = i + n
              BY <3>4, <6>1 DEF Put
            <6>3. ~EndsBlank(r.out)
              <7>1. Len(c) \in 2 .. 4 /\ Len(c) > 0 /\ IsCharacter(c)
                BY <4>2, <4>3, <4>4, <5>1
              <7>2. \A k \in 1 .. Len(c) : c[k] >= 128
                BY <4>4, <7>1, CharacterBytes
              <7> QED BY <3>4, <4>4, <6>2, <7>1, <7>2, EndsBlankConcat
            <6>4. ReadTo(r, i) = i + n - 1
              BY <1>2, <5>1, <6>2 DEF ReadTo
            <6>5. r.next <= Len(data) + 1 /\ i + n - 1 <= room
              BY <1>2, <3>4, <4>2, <5>3, <6>2
            <6> QED BY <4>5, <6>2, <6>3, <6>4, <6>5
          <5> QED BY <5>2, <5>3
        <4> QED BY <4>6, <4>7
      <3> QED BY <3>5, <3>6
    <2> QED BY <2>1, <2>2
  <1> QED BY <1>3, <1>4, <1>5, Zenon DEF Kept

\* A clean text is kept as it is, or as much of it as fits.
LEMMA TextClean ==
  ASSUME NEW data \in Seq(Byte), NEW starts, IsText(data, starts), Clean(data), NEW room \in Nat
  PROVE  \/ Len(data) <= room /\ Text(data, room) = data
         \/ room <= Len(data) /\ Text(data, room) = SubSeq(data, 1, room)
         \/ room < Len(data) /\ \E k \in 0 .. Len(data) : Text(data, room) = SubSeq(data, 1, k) \o <<Question>>
  <1>1. PICK text : /\ text[0] = NoText /\ Text(data, room) = text[Len(data)].out
                    /\ \A i \in 0 .. Len(data) : text[i] \in Progress
                    /\ \A i \in 1 .. Len(data) : text[i] = Round(data, i, text[i - 1], room)
    BY TextSteps
  <1>2. PICK T : T = {i \in 0 .. Len(data) : Kept(data, starts, room, i, text[i])}
    OBVIOUS
  <1>3. Len(data) \in Nat
    BY LenProperties
  <1>4. 0 \in T
    <2>1. ReadTo(NoText, 0) = 0
      BY DEF ReadTo, NoText
    <2>2. SubSeq(data, 1, 0) = << >>
      BY SubSeqEmpty
    <2>3. 0 + 1 \in starts \cup {Len(data) + 1}
      BY DEF IsText, Characters
    <2>4. NoText.out = << >> /\ NoText.space = TRUE /\ NoText.next = 1
      BY DEF NoText
    <2>5. EndsBlank(<< >>)
      BY DEF EndsBlank
    <2>6. 1 <= Len(data) + 1 /\ 0 <= room
      BY <1>3
    <2>7. Kept(data, starts, room, 0, NoText)
      BY <2>1, <2>2, <2>3, <2>4, <2>5, <2>6 DEF Kept
    <2>8. 0 \in 0 .. Len(data)
      BY <1>3
    <2> QED BY <1>1, <1>2, <2>7, <2>8
  <1>5. ASSUME NEW i \in 1 .. Len(data), i - 1 \in T PROVE i \in T
    <2>1. i - 1 \in 0 .. Len(data) /\ i \in 0 .. Len(data)
      BY <1>3
    <2>2. text[i - 1] \in Progress /\ Kept(data, starts, room, i - 1, text[i - 1])
      BY <1>1, <1>2, <1>5, <2>1
    <2>3. Kept(data, starts, room, i, Round(data, i, text[i - 1], room))
      BY <2>2, KeptRound
    <2> QED BY <1>1, <1>2, <2>1, <2>3
  <1>6. Len(data) \in 0 .. Len(data) /\ Len(data) \in T
    <2>1. \A i \in 0 .. Len(data) : i \in T
      BY <1>3, <1>4, <1>5, Induction
    <2> QED BY <1>3, <2>1
  <1>7. PICK t \in Progress : t = text[Len(data)]
    BY <1>1, <1>6
  <1>8. Kept(data, starts, room, Len(data), t)
    BY <1>2, <1>6, <1>7
  <1>9. t.next <= Len(data) + 1 => ReadTo(t, Len(data)) = Len(data)
    BY <1>3 DEF ReadTo, Progress
  <1>10. SubSeq(data, 1, Len(data)) = data
    BY SubSeqFull
  <1> QED BY <1>1, <1>7, <1>8, <1>9, <1>10 DEF Kept

LEMMA PrefixOf ==
  ASSUME NEW S, NEW data \in Seq(S), NEW k \in 0 .. Len(data)
  PROVE  /\ SubSeq(data, 1, k) \in Seq(S) /\ Len(SubSeq(data, 1, k)) = k
         /\ IsPrefix(SubSeq(data, 1, k), data)
  <1>1. PICK a : a = SubSeq(data, 1, k)
    OBVIOUS
  <1>2. a \in Seq(S) /\ Len(a) = k /\ k <= Len(data)
    <2>1. k \in Nat /\ 1 \in Nat \ {0} /\ 1 + k - 1 <= Len(data) /\ 1 + k - 1 = k
      BY LenProperties
    <2>2. Slice(data, 1, k) \in Seq(S) /\ Len(Slice(data, 1, k)) = k
      BY <2>1, Slices
    <2> QED BY <1>1, <2>1, <2>2 DEF Slice
  <1>3. SubSeq(a, 1, Len(a)) = a
    BY <1>2, SubSeqFull
  <1>4. IsPrefix(a, data)
    BY <1>1, <1>2, <1>3 DEF IsPrefix
  <1> QED BY <1>1, <1>2, <1>4

\* Whatever the payload is, its preview is faithful to it.
THEOREM TextFaithful ==
  ASSUME NEW data \in Seq(Byte), NEW size \in Nat \ {0}
  PROVE  Faithful(data, TextPreview(data, size), size)
  <1>1. PICK room \in Nat : room = size - 1
    OBVIOUS
  <1>2. PICK p : p = TextPreview(data, size)
    OBVIOUS
  <1>3. p = Text(data, room)
    BY <1>1, <1>2 DEF TextPreview
  <1>4. p \in Seq(Byte) /\ Len(p) < size /\ Readable(p) /\ Len(p) \in Nat
    BY <1>2, TextReadable, LenProperties
  <1>5. Len(data) \in Nat /\ DOMAIN data = 1 .. Len(data)
    BY LenProperties
  <1>6. ASSUME WellFormed(data), \A i \in DOMAIN data : Printable(data[i]) \/ data[i] \in Blanks, Len(data) < size
        PROVE  WordsOf(p) = WordsOf(data)
    <2>1. PICK starts \in SUBSET (1 .. Len(data)) : Characters(data, starts)
      BY <1>6 DEF WellFormed
    <2>2. IsText(data, starts)
      BY <1>5, <1>6, <2>1 DEF IsText
    <2>3. Len(data) <= room
      BY <1>1, <1>5, <1>6
    <2> QED BY <1>3, <2>2, <2>3, TextWords
  <1>7. ASSUME Clean(data)
        PROVE  \E k \in 0 .. Len(p) : /\ IsPrefix(SubSeq(p, 1, k), data)
                                      /\ \/ k = Len(p)
                                         \/ k = Len(p) - 1 /\ p[k + 1] = Question
                                      /\ Len(data) < size => p = data
    <2>1. PICK starts \in SUBSET (1 .. Len(data)) : Characters(data, starts)
      BY <1>7 DEF Clean, Readable, WellFormed
    <2>2. IsText(data, starts)
      BY <1>5, <1>7, <2>1 DEF IsText, Clean, Readable
    <2>3. \/ Len(data) <= room /\ p = data
          \/ room <= Len(data) /\ p = SubSeq(data, 1, room)
          \/ room < Len(data) /\ \E k \in 0 .. Len(data) : p = SubSeq(data, 1, k) \o <<Question>>
      BY <1>3, <1>7, <2>2, TextClean
    <2>4. SubSeq(p, 1, Len(p)) = p
      BY <1>4, SubSeqFull
    <2>5. Len(p) \in 0 .. Len(p)
      BY <1>4
    <2>6. CASE p = data
      <3>1. IsPrefix(SubSeq(data, 1, Len(data)), data)
        BY <1>5, PrefixOf
      <3> QED BY <2>5, <2>6, <3>1
    <2>7. CASE room <= Len(data) /\ p = SubSeq(data, 1, room)
      <3>1. room \in 0 .. Len(data)
        BY <1>5, <2>7
      <3>2. IsPrefix(SubSeq(p, 1, Len(p)), data)
        BY <2>4, <2>7, <3>1, PrefixOf
      <3>3. ASSUME Len(data) < size PROVE p = data
        <4>1. room = Len(data)
          BY <1>1, <1>5, <2>7, <3>3
        <4> QED BY <2>7, <4>1, SubSeqFull
      <3> QED BY <2>5, <3>2, <3>3
    <2>8. CASE room < Len(data) /\ \E k \in 0 .. Len(data) : p = SubSeq(data, 1, k) \o <<Question>>
      <3>1. PICK k \in 0 .. Len(data) : p = SubSeq(data, 1, k) \o <<Question>>
        BY <2>8
      <3>2. PICK a : a = SubSeq(data, 1, k)
        OBVIOUS
      <3>3. a \in Seq(Byte) /\ Len(a) = k /\ IsPrefix(a, data) /\ p = a \o <<Question>> /\ k \in Nat
        BY <1>5, <3>1, <3>2, PrefixOf
      <3>4. p = Append(a, Question) /\ Question \in Byte
        BY <3>3 DEF Question, Byte
      <3>5. Len(p) = k + 1 /\ p[k + 1] = Question /\ SubSeq(p, 1, k) = a
        <4>1. Len(p) = k + 1 /\ p[k + 1] = Question
          BY <3>3, <3>4, AppendProperties
        <4>2. SubSeq(p, 1, k) = a
          BY <3>3, <3>4
        <4> QED BY <4>1, <4>2
      <3>6. k \in 0 .. Len(p) /\ k = Len(p) - 1
        BY <3>3, <3>5
      <3>7. ~(Len(data) < size)
        BY <1>1, <1>5, <2>8
      <3> QED BY <3>3, <3>5, <3>6, <3>7
    <2> QED BY <2>3, <2>6, <2>7, <2>8
  <1> QED BY <1>2, <1>4, <1>6, <1>7 DEF Faithful
===============================================================================
