------------------------------ MODULE CclipProofs ------------------------------
(* One cclip process releases what it opened, prints the rows of its query whole  *)
(* and so that they can be taken apart again, and serves what it copied: for any  *)
(* command line, any stored entries, any number of readers, and whatever other    *)
(* processes delete meanwhile.                                                   *)
EXTENDS Cclip, PreviewProofs, FiniteSetTheorems

\* Where the process is, and what it holds there.  The statement is finalized before
\* the label out only by cclip tags delete.
Handles ==
  /\ pc \in {"main", "args", "pragma", "prepare", "query", "step", "write", "out", "connect", "serve",
             "exited", "killed"}
  /\ pc = "main" => db = "none" /\ stmt = "null" /\ frees = 0
  /\ pc \in {"args", "pragma", "prepare"} => db = "open" /\ stmt = "null" /\ frees = 0
  /\ pc \in {"query", "step", "write"} => db = "open" /\ stmt = "live" /\ frees = 0
  /\ pc = "write" => line.action # "copy"
  /\ pc = "out" => /\ db = "open"
                   /\ \/ stmt \in {"null", "live"} /\ frees = 0
                      \/ stmt = "freed" /\ frees = 1 /\ line.action = "tags_delete"
  /\ pc \in {"connect", "serve"} => db = "closed" /\ stmt = "freed" /\ frees = 1
  /\ pc = "exited" => stmt # "live" /\ db # "open"
  /\ pc = "killed" /\ db = "closed" => stmt # "live"
  /\ frees \in Nat /\ (frees <= 1 \/ line.action = "tags_delete")

\* The payload a copy has found.
Found == /\ pc = "step" /\ line.action = "copy" =>
              rows = result /\ (rows # << >> => Head(Head(rows)) \in Seq(Byte))
         /\ pc \notin {"connect", "serve", "exited", "killed"} => held = << >>
         /\ held \in Seq(Byte)
         /\ held # << >> => held = Head(Head(result))

ReaderState == [state : {"idle", "asked", "stalled", "closed", "eof"}, known : BOOLEAN, got : Seq(Byte)]

\* Readers have asked before they are served, and have the beginning of the payload.
Readers ==
  /\ reader \in [Reader -> ReaderState]
  /\ wire \in Seq(Reader \cup {None})
  /\ \A i \in 1 .. Len(wire) : wire[i] # None => reader[wire[i]].state # "idle"
  /\ serving \in Reader \cup {None}
  /\ serving # None => reader[serving].known /\ reader[serving].state # "idle"
  /\ \A r \in Reader :
       /\ IsPrefix(reader[r].got, held)
       /\ reader[r].state = "eof" /\ reader[r].known /\ r \notin Nonblocking => reader[r].got = held
       /\ pc \notin {"connect", "serve", "exited", "killed"} => reader[r].state = "idle" /\ reader[r].got = << >>

-------------------------------------------------------------------------------
(* Sequences.                                                                  *)

\* A sequence is one of its own elements.
LEMMA OwnElements ==
  ASSUME NEW S, NEW s \in Seq(S)
  PROVE  ToSet(s) \subseteq S /\ s \in Seq(ToSet(s))
  <1>1. Len(s) \in Nat /\ s \in [1 .. Len(s) -> S] /\ DOMAIN s = 1 .. Len(s)
    BY LenProperties
  <1>2. s \in [1 .. Len(s) -> ToSet(s)]
    BY <1>1 DEF ToSet
  <1>3. s \in Seq(ToSet(s))
    BY <1>1, <1>2
  <1>4. ToSet(s) \subseteq S
    BY <1>1 DEF ToSet
  <1> QED BY <1>3, <1>4

\* Two sequences in a row have the elements of both.
LEMMA ConcatSet ==
  ASSUME NEW S, NEW a \in Seq(S), NEW b \in Seq(S)
  PROVE  ToSet(a \o b) = ToSet(a) \cup ToSet(b)
  <1>1. PICK m \in Nat, n \in Nat : m = Len(a) /\ n = Len(b)
    BY LenProperties
  <1>2. PICK c : c = a \o b
    OBVIOUS
  <1>3. /\ DOMAIN a = 1 .. m /\ DOMAIN b = 1 .. n /\ DOMAIN c = 1 .. m + n
        /\ \A i \in 1 .. m + n : c[i] = IF i <= m THEN a[i] ELSE b[i - m]
    BY <1>1, <1>2, ConcatProperties, LenProperties
  <1>4. ASSUME NEW x \in ToSet(c) PROVE x \in ToSet(a) \cup ToSet(b)
    <2>1. PICK i \in 1 .. m + n : x = c[i]
      BY <1>3, <1>4 DEF ToSet
    <2>2. CASE i <= m
      BY <1>3, <2>1, <2>2 DEF ToSet
    <2>3. CASE ~(i <= m)
      <3>1. i - m \in 1 .. n
        BY <2>3
      <3> QED BY <1>3, <2>1, <2>3, <3>1 DEF ToSet
    <2> QED BY <2>2, <2>3
  <1>5. ASSUME NEW x \in ToSet(a) PROVE x \in ToSet(c)
    <2>1. PICK i \in 1 .. m : x = a[i]
      BY <1>3, <1>5 DEF ToSet
    <2>2. i \in 1 .. m + n /\ i <= m
      OBVIOUS
    <2> QED BY <1>3, <2>1, <2>2 DEF ToSet
  <1>6. ASSUME NEW x \in ToSet(b) PROVE x \in ToSet(c)
    <2>1. PICK i \in 1 .. n : x = b[i]
      BY <1>3, <1>6 DEF ToSet
    <2>2. i + m \in 1 .. m + n /\ ~(i + m <= m) /\ (i + m) - m = i
      OBVIOUS
    <2> QED BY <1>3, <2>1, <2>2 DEF ToSet
  <1> QED BY <1>2, <1>4, <1>5, <1>6

\* Deleting an entry leaves a sequence of entries, and those that were there.
LEMMA Removed ==
  ASSUME NEW S, NEW s \in Seq(S), NEW i \in DOMAIN s
  PROVE  RemoveAt(s, i) \in Seq(S) /\ ToSet(RemoveAt(s, i)) \subseteq ToSet(s)
  <1>1. PICK T : T = ToSet(s)
    OBVIOUS
  <1>2. s \in Seq(T) /\ T \subseteq S
    BY <1>1, OwnElements
  <1>3. i \in 1 .. Len(s) /\ Len(s) \in Nat
    BY LenProperties
  <1>4. SubSeq(s, 1, i - 1) \in Seq(T) /\ SubSeq(s, i + 1, Len(s)) \in Seq(T)
    BY <1>2, <1>3
  <1>5. PICK r : r = RemoveAt(s, i)
    OBVIOUS
  <1>6. r \in Seq(T)
    BY <1>4, <1>5, ConcatProperties DEF RemoveAt
  <1>7. r \in Seq(S) /\ ToSet(r) \subseteq T
    BY <1>2, <1>6, OwnElements
  <1> QED BY <1>1, <1>5, <1>7

\* Three sequences in a row.
Reassociated(a, b, c) == (a \o b) \o c = a \o (b \o c)

LEMMA ThreeInARow ==
  ASSUME NEW S, NEW a \in Seq(S), NEW b \in Seq(S), NEW c \in Seq(S)
  PROVE  Reassociated(a, b, c)
  <1>1. (a \o b) \o c = a \o (b \o c)
    OBVIOUS
  <1> QED BY <1>1 DEF Reassociated

\* Nothing is the beginning of everything.
LEMMA NothingIsPrefix ==
  ASSUME NEW S, NEW s \in Seq(S)
  PROVE  IsPrefix(<< >>, s)
  <1>1. 0 \in 0 .. Len(s)
    BY LenProperties
  <1>2. IsPrefix(SubSeq(s, 1, 0), s)
    BY <1>1, PrefixOf
  <1>3. SubSeq(s, 1, 0) = << >>
    BY SubSeqEmpty
  <1> QED BY <1>2, <1>3

-------------------------------------------------------------------------------
(* Flattening.                                                                 *)

\* What FlattenSeq goes through.
IsFlat(S, seqs, flat) ==
  /\ flat[0] = << >>
  /\ \A i \in 1 .. Len(seqs) : flat[i - 1] \in Seq(S) /\ flat[i] = flat[i - 1] \o seqs[i]
  /\ flat[Len(seqs)] = FlattenSeq(seqs) /\ FlattenSeq(seqs) \in Seq(S)

LEMMA Flat ==
  ASSUME NEW S, NEW seqs \in Seq(Seq(S))
  PROVE  \E flat : IsFlat(S, seqs, flat)
  <1> DEFINE Loop(t) == t = [i \in 1 .. Len(seqs) |-> IF i = 1 THEN seqs[i] ELSE t[i - 1] \o seqs[i]]
  <1> PICK l \in Nat : l = Len(seqs)
    BY LenProperties
  <1>1. PICK Q : Q = Seq(S)
    OBVIOUS
  <1>2. \A i \in 1 .. l : seqs[i] \in Q
    BY <1>1
  <1>3. PICK G : G = [i \in 1 .. l |-> [t \in Q |-> t \o seqs[i]]]
    OBVIOUS
  <1>4. ASSUME NEW i \in 1 .. l, NEW t \in Q PROVE t \o seqs[i] \in Q
    BY <1>1, <1>2, ConcatProperties
  <1>5. << >> \in Q
    BY <1>1
  <1>6. PICK f \in Runs(l, Q, << >>, G) : TRUE
    <2>1. G \in Steps(l, Q)
      BY <1>3, <1>4 DEF Steps
    <2> QED BY <1>5, <2>1, Recursion
  <1>7. f \in [0 .. l -> Q] /\ f[0] = << >> /\ \A i \in 1 .. l : f[i] = f[i - 1] \o seqs[i]
    <2>1. f \in [0 .. l -> Q] /\ f[0] = << >>
      BY <1>6 DEF Runs
    <2>2. ASSUME NEW i \in 1 .. l PROVE f[i] = f[i - 1] \o seqs[i]
      <3>1. f[i] = G[i][f[i - 1]]
        BY <1>6 DEF Runs
      <3>2. f[i - 1] \in Q
        <4>1. i - 1 \in 0 .. l
          OBVIOUS
        <4> QED BY <2>1, <4>1
      <3> QED BY <1>3, <3>1, <3>2
    <2> QED BY <2>1, <2>2
  <1>8. CASE l = 0
    <2>1. seqs = << >> /\ FlattenSeq(seqs) = << >>
      BY <1>8, EmptySeq DEF FlattenSeq
    <2>2. IsFlat(S, seqs, f)
      BY <1>1, <1>5, <1>7, <1>8, <2>1 DEF IsFlat
    <2> QED BY <2>2
  <1>9. CASE l # 0
    <2>1. PICK g : g = [i \in 1 .. l |-> f[i]]
      OBVIOUS
    <2>2. Loop(g)
      <3>1. ASSUME NEW i \in 1 .. l PROVE f[i] = IF i = 1 THEN seqs[i] ELSE g[i - 1] \o seqs[i]
        <4>1. CASE i = 1
          <5>1. f[i] = << >> \o seqs[i] /\ seqs[i] \in Q
            <6>1. i - 1 = 0
              BY <4>1
            <6> QED BY <1>2, <1>7, <6>1
          <5> QED BY <1>1, <4>1, <5>1, ConcatEmptySeq
        <4>2. CASE i # 1
          <5>1. i - 1 \in 1 .. l
            BY <4>2
          <5> QED BY <1>7, <2>1, <4>2, <5>1
        <4> QED BY <4>1, <4>2
      <3>2. g = [i \in 1 .. l |-> IF i = 1 THEN seqs[i] ELSE g[i - 1] \o seqs[i]]
        BY <2>1, <3>1
      <3> QED BY <3>2
    <2>3. PICK flat : flat = CHOOSE t : Loop(t)
      OBVIOUS
    <2>4. Loop(flat)
      BY <2>2, <2>3
    <2>5. FlattenSeq(seqs) = flat[l]
      BY <1>9, <2>3 DEF FlattenSeq
    <2>6. \A i \in 1 .. l : flat[i] = IF i = 1 THEN seqs[i] ELSE flat[i - 1] \o seqs[i]
      BY <2>4
    <2>7. PICK T : T = {i \in 0 .. l : i # 0 => flat[i] = f[i]}
      OBVIOUS
    <2>8. 0 \in T
      BY <2>7
    <2>9. ASSUME NEW i \in 1 .. l, i - 1 \in T PROVE i \in T
      <3>1. CASE i = 1
        <4>1. flat[i] = seqs[i] /\ f[i] = << >> \o seqs[i] /\ seqs[i] \in Q
          <5>1. i - 1 = 0
            BY <3>1
          <5> QED BY <1>2, <1>7, <2>6, <3>1, <5>1
        <4>2. flat[i] = f[i]
          BY <1>1, <4>1, ConcatEmptySeq
        <4> QED BY <2>7, <3>1, <4>2
      <3>2. CASE i # 1
        <4>1. i - 1 \in 1 .. l /\ i - 1 # 0
          BY <3>2
        <4>2. flat[i] = f[i]
          BY <1>7, <2>6, <2>7, <2>9, <3>2, <4>1
        <4> QED BY <2>7, <4>2
      <3> QED BY <3>1, <3>2
    <2>10. l \in T
      <3>1. \A i \in 0 .. l : i \in T
        BY <2>8, <2>9, Induction
      <3> QED BY <3>1
    <2>11. FlattenSeq(seqs) = f[l] /\ f[l] \in Q
      BY <1>7, <1>9, <2>5, <2>7, <2>10
    <2>12. ASSUME NEW i \in 1 .. l PROVE f[i - 1] \in Q
      <3>1. i - 1 \in 0 .. l
        OBVIOUS
      <3> QED BY <1>7, <3>1
    <2>13. IsFlat(S, seqs, f)
      BY <1>1, <1>7, <2>11, <2>12 DEF IsFlat
    <2> QED BY <2>13
  <1> QED BY <1>8, <1>9

LEMMA FlatType ==
  ASSUME NEW S, NEW seqs \in Seq(Seq(S))
  PROVE  FlattenSeq(seqs) \in Seq(S)
  BY Flat DEF IsFlat

LEMMA FlatEmpty == FlattenSeq(<< >>) = << >>
  BY DEF FlattenSeq

LEMMA FlatAppend ==
  ASSUME NEW S, NEW seqs \in Seq(Seq(S)), NEW c \in Seq(S)
  PROVE  FlattenSeq(Append(seqs, c)) = FlattenSeq(seqs) \o c
  <1>1. PICK u, l : u = Append(seqs, c) /\ l = Len(seqs)
    OBVIOUS
  <1>2. /\ u \in Seq(Seq(S)) /\ l \in Nat /\ Len(u) = l + 1
        /\ (\A i \in 1 .. l : u[i] = seqs[i]) /\ u[l + 1] = c
    BY <1>1, AppendProperties, LenProperties
  <1>3. PICK v : IsFlat(S, seqs, v)
    BY Flat
  <1>4. PICK w : IsFlat(S, u, w)
    BY <1>2, Flat
  <1>5. PICK T : T = {i \in 0 .. l : v[i] = w[i]}
    OBVIOUS
  <1>6. 0 \in T
    <2>1. v[0] = w[0]
      BY <1>3, <1>4 DEF IsFlat
    <2> QED BY <1>2, <1>5, <2>1
  <1>7. ASSUME NEW i \in 1 .. l, i - 1 \in T PROVE i \in T
    <2>1. i \in 1 .. Len(seqs) /\ i \in 1 .. Len(u) /\ i \in 0 .. l
      BY <1>1, <1>2
    <2>2. v[i] = v[i - 1] \o seqs[i]
      BY <1>3, <2>1 DEF IsFlat
    <2>3. w[i] = w[i - 1] \o u[i]
      BY <1>4, <2>1 DEF IsFlat
    <2>4. v[i] = w[i]
      BY <1>2, <1>5, <1>7, <2>2, <2>3
    <2> QED BY <1>5, <2>1, <2>4
  <1>8. v[l] = w[l] /\ v[l] = FlattenSeq(seqs)
    <2>1. \A i \in 0 .. l : i \in T
      BY <1>2, <1>6, <1>7, Induction
    <2>2. l \in T
      BY <1>2, <2>1
    <2> QED BY <1>1, <1>3, <1>5, <2>2 DEF IsFlat
  <1>9. w[l + 1] = w[l] \o c /\ w[l + 1] = FlattenSeq(u)
    <2>1. l + 1 \in 1 .. Len(u) /\ (l + 1) - 1 = l
      BY <1>2
    <2> QED BY <1>2, <1>4, <2>1 DEF IsFlat
  <1> QED BY <1>1, <1>8, <1>9

LEMMA FlatOne ==
  ASSUME NEW S, NEW c \in Seq(S)
  PROVE  <<c>> \in Seq(Seq(S)) /\ FlattenSeq(<<c>>) = c
  <1>1. <<c>> = Append(<< >>, c) /\ << >> \in Seq(Seq(S)) /\ << >> \in Seq(S)
    OBVIOUS
  <1>2. FlattenSeq(Append(<< >>, c)) = FlattenSeq(<< >>) \o c
    BY <1>1, FlatAppend
  <1>3. << >> \o c = c
    BY ConcatEmptySeq
  <1>4. <<c>> \in Seq(Seq(S))
    OBVIOUS
  <1> QED BY <1>1, <1>2, <1>3, <1>4, FlatEmpty

LEMMA FlatConcat ==
  ASSUME NEW S, NEW a \in Seq(Seq(S)), NEW b \in Seq(Seq(S))
  PROVE  FlattenSeq(a \o b) = FlattenSeq(a) \o FlattenSeq(b)
  <1>1. PICK T : T = {k \in 0 .. Len(b) :
                        FlattenSeq(a \o SubSeq(b, 1, k)) = FlattenSeq(a) \o FlattenSeq(SubSeq(b, 1, k))}
    OBVIOUS
  <1>2. FlattenSeq(a) \in Seq(S) /\ Len(b) \in Nat
    BY FlatType, LenProperties
  <1>3. 0 \in T
    <2>1. SubSeq(b, 1, 0) = << >>
      BY SubSeqEmpty
    <2>2. FlattenSeq(a \o << >>) = FlattenSeq(a) \o << >>
      BY <1>2, ConcatEmptySeq
    <2>3. FlattenSeq(a \o SubSeq(b, 1, 0)) = FlattenSeq(a) \o FlattenSeq(SubSeq(b, 1, 0))
      BY <2>1, <2>2, FlatEmpty
    <2>4. 0 \in 0 .. Len(b)
      BY <1>2
    <2> QED BY <1>1, <2>3, <2>4, Zenon
  <1>4. ASSUME NEW k \in 1 .. Len(b), k - 1 \in T PROVE k \in T
    <2>1. PICK c : c = SubSeq(b, 1, k - 1)
      OBVIOUS
    <2>2. c \in Seq(Seq(S)) /\ b[k] \in Seq(S) /\ SubSeq(b, 1, k) = Append(c, b[k])
      BY <2>1, PrefixAppend
    <2>3. a \o Append(c, b[k]) = Append(a \o c, b[k])
      BY <2>2, SMTT(20)
    <2>4. FlattenSeq(a \o c) = FlattenSeq(a) \o FlattenSeq(c)
      BY <1>1, <1>4, <2>1
    <2>5. a \o c \in Seq(Seq(S)) /\ FlattenSeq(c) \in Seq(S)
      BY <2>2, ConcatProperties, FlatType
    <2>6. FlattenSeq(Append(a \o c, b[k])) = FlattenSeq(a \o c) \o b[k]
      BY <2>2, <2>5, FlatAppend
    <2>7. FlattenSeq(Append(c, b[k])) = FlattenSeq(c) \o b[k]
      BY <2>2, FlatAppend
    <2>8. (FlattenSeq(a) \o FlattenSeq(c)) \o b[k] = FlattenSeq(a) \o (FlattenSeq(c) \o b[k])
      <3>1. FlattenSeq(a) \in Seq(S) /\ FlattenSeq(c) \in Seq(S) /\ b[k] \in Seq(S)
        BY <1>2, <2>2, <2>5
      <3>2. Reassociated(FlattenSeq(a), FlattenSeq(c), b[k])
        BY <3>1, ThreeInARow
      <3> QED BY <3>2 DEF Reassociated
    <2>9. FlattenSeq(a \o SubSeq(b, 1, k)) = FlattenSeq(a) \o FlattenSeq(SubSeq(b, 1, k))
      BY <2>2, <2>3, <2>4, <2>6, <2>7, <2>8
    <2>10. k \in 0 .. Len(b)
      OBVIOUS
    <2> QED BY <1>1, <2>9, <2>10, Zenon
  <1>5. Len(b) \in T
    <2>1. \A i \in 0 .. Len(b) : i \in T
      BY <1>2, <1>3, <1>4, Induction
    <2> QED BY <1>2, <2>1
  <1>6. SubSeq(b, 1, Len(b)) = b
    BY SubSeqFull
  <1> QED BY <1>1, <1>5, <1>6

-------------------------------------------------------------------------------
(* What writev has left.                                                       *)

\* The rest of a sequence.
LEMMA SuffixType ==
  ASSUME NEW S, NEW s \in Seq(S), NEW k \in 1 .. Len(s) + 1
  PROVE  SubSeq(s, k, Len(s)) \in Seq(S)
  <1>1. \A i \in k .. Len(s) : s[i] \in S
    <2> SUFFICES ASSUME NEW i \in k .. Len(s) PROVE s[i] \in S
      OBVIOUS
    <2>1. i \in 1 .. Len(s)
      BY LenProperties
    <2> QED BY <2>1, ElementOfSeq
  <1>2. k \in Int /\ Len(s) \in Int
    BY LenProperties
  <1> QED BY <1>1, <1>2, SubSeqProperties

\* There is a buffer that has the n-th byte.
LEMMA UsedBuffers ==
  ASSUME NEW S, NEW bufs \in Seq(Seq(S)), NEW n \in 1 .. Len(FlattenSeq(bufs))
  PROVE  /\ Used(bufs, n) \in 0 .. Len(bufs) - 1
         /\ BytesIn(bufs, Used(bufs, n)) < n /\ n <= BytesIn(bufs, Used(bufs, n) + 1)
  <1>1. PICK l \in Nat : l = Len(bufs)
    BY LenProperties
  <1>2. ASSUME NEW k \in 0 .. l PROVE BytesIn(bufs, k) \in Nat
    <2>1. SubSeq(bufs, 1, k) \in Seq(Seq(S))
      BY <1>1, PrefixOf
    <2>2. FlattenSeq(SubSeq(bufs, 1, k)) \in Seq(S)
      BY <2>1, FlatType
    <2> QED BY <2>2, LenProperties DEF BytesIn
  <1>3. BytesIn(bufs, 0) = 0
    <2>1. SubSeq(bufs, 1, 0) = << >>
      BY SubSeqEmpty
    <2>2. FlattenSeq(SubSeq(bufs, 1, 0)) = << >>
      BY <2>1, FlatEmpty
    <2>3. Len(FlattenSeq(SubSeq(bufs, 1, 0))) = 0
      BY <2>2
    <2> QED BY <2>3 DEF BytesIn
  <1>4. n <= BytesIn(bufs, l) /\ n \in Nat \ {0}
    <2>1. SubSeq(bufs, 1, l) = bufs
      BY <1>1, SubSeqFull
    <2>2. PICK m \in Nat : m = Len(FlattenSeq(bufs))
      BY FlatType, LenProperties
    <2>3. BytesIn(bufs, l) = m
      BY <2>1, <2>2 DEF BytesIn
    <2>4. n \in 1 .. m
      BY <2>2
    <2> QED BY <2>3, <2>4
  <1>5. PICK E : E = {k \in 0 .. l : n <= BytesIn(bufs, k)}
    OBVIOUS
  <1>6. l \in E /\ E \in SUBSET Nat
    BY <1>1, <1>4, <1>5
  <1>7. PICK m \in E : \A k \in E : m <= k
    BY <1>6, LeastNumber
  <1>8. m \in 0 .. l /\ n <= BytesIn(bufs, m)
    BY <1>5
  <1>9. m # 0
    BY <1>3, <1>4, <1>8
  <1>10. m - 1 \in 0 .. l - 1 /\ m - 1 \in 0 .. l /\ (m - 1) + 1 = m /\ ~(m <= m - 1)
    BY <1>8, <1>9
  <1>11. m - 1 \notin E
    BY <1>7, <1>10
  <1>12. BytesIn(bufs, m - 1) < n
    <2>1. ~(n <= BytesIn(bufs, m - 1))
      BY <1>5, <1>10, <1>11
    <2>2. BytesIn(bufs, m - 1) \in Nat
      BY <1>2, <1>10
    <2> QED BY <1>4, <2>1, <2>2
  <1>13. \E k \in 0 .. Len(bufs) - 1 : BytesIn(bufs, k) < n /\ n <= BytesIn(bufs, k + 1)
    BY <1>1, <1>8, <1>10, <1>12
  <1> QED BY <1>13 DEF Used

\* Four sequences in a row.
Regrouped(a, b, c, d) == (a \o (b \o c)) \o d = (a \o b) \o (c \o d)

LEMMA Associative ==
  ASSUME NEW S, NEW a \in Seq(S), NEW b \in Seq(S), NEW c \in Seq(S), NEW d \in Seq(S)
  PROVE  Regrouped(a, b, c, d)
  <1>1. (a \o b) \o c = a \o (b \o c)
    OBVIOUS
  <1>2. PICK g \in Seq(S) : g = a \o b
    BY ConcatProperties
  <1>3. (g \o c) \o d = g \o (c \o d)
    OBVIOUS
  <1> QED BY <1>1, <1>2, <1>3 DEF Regrouped

\* What is left of the buffers is what is left of the bytes.
LEMMA RemainingBytes ==
  ASSUME NEW S, NEW bufs \in Seq(Seq(S)), NEW n \in 1 .. Len(FlattenSeq(bufs))
  PROVE  /\ Remaining(bufs, n) \in Seq(Seq(S))
         /\ FlattenSeq(bufs) = SubSeq(FlattenSeq(bufs), 1, n) \o FlattenSeq(Remaining(bufs, n))
  <1>1. PICK u : u = Used(bufs, n)
    OBVIOUS
  <1>2. PICK l \in Nat : l = Len(bufs)
    BY LenProperties
  <1>3. u \in 0 .. l - 1 /\ u \in 0 .. l /\ u + 1 \in 1 .. l /\ n \in Nat
        /\ BytesIn(bufs, u) < n /\ n <= BytesIn(bufs, u + 1)
    BY <1>1, <1>2, UsedBuffers
  <1>4. PICK before, b, rest : before = SubSeq(bufs, 1, u) /\ b = bufs[u + 1] /\ rest = SubSeq(bufs, u + 2, l)
    OBVIOUS
  <1>5. before \in Seq(Seq(S)) /\ b \in Seq(S) /\ rest \in Seq(Seq(S))
    <2>1. before \in Seq(Seq(S))
      BY <1>2, <1>3, <1>4, PrefixOf
    <2>2. b \in Seq(S)
      BY <1>2, <1>3, <1>4
    <2>3. u + 2 \in 1 .. l + 1
      BY <1>3
    <2>4. rest \in Seq(Seq(S))
      BY <1>2, <1>4, <2>3, SuffixType
    <2> QED BY <2>1, <2>2, <2>4
  <1>6. SubSeq(bufs, 1, u + 1) = Append(before, b)
    <2>1. u + 1 \in 1 .. Len(bufs) /\ (u + 1) - 1 = u
      BY <1>2, <1>3
    <2>2. SubSeq(bufs, 1, u + 1) = Append(SubSeq(bufs, 1, (u + 1) - 1), bufs[u + 1])
      BY <2>1, PrefixAppend
    <2> QED BY <1>4, <2>1, <2>2
  <1>7. bufs = Append(before, b) \o rest
    <2>1. /\ 1 \in 1 .. Len(bufs) + 1 /\ u + 1 \in 1 - 1 .. Len(bufs)
          /\ Len(bufs) \in u + 1 .. Len(bufs) /\ (u + 1) + 1 = u + 2
      BY <1>2, <1>3
    <2>2. SubSeq(bufs, 1, u + 1) \o SubSeq(bufs, (u + 1) + 1, Len(bufs)) = SubSeq(bufs, 1, Len(bufs))
      BY <2>1, ConcatAdjacentSubSeq
    <2> QED BY <1>2, <1>4, <1>6, <2>1, <2>2, SubSeqFull
  <1>8. PICK A, R : A = FlattenSeq(before) /\ R = FlattenSeq(rest)
    OBVIOUS
  <1>9. A \in Seq(S) /\ R \in Seq(S)
    BY <1>5, <1>8, FlatType
  <1>10. FlattenSeq(Append(before, b)) = A \o b
    BY <1>5, <1>8, FlatAppend
  <1>11. PICK F : F = FlattenSeq(bufs)
    OBVIOUS
  <1>12. F = (A \o b) \o R
    <2>1. Append(before, b) \in Seq(Seq(S))
      BY <1>5, AppendProperties
    <2>2. FlattenSeq(Append(before, b) \o rest) = FlattenSeq(Append(before, b)) \o FlattenSeq(rest)
      BY <1>5, <2>1, FlatConcat
    <2> QED BY <1>7, <1>8, <1>10, <1>11, <2>2
  <1>13. PICK a, m : a = Len(A) /\ m = Len(b)
    OBVIOUS
  <1>14. a \in Nat /\ m \in Nat /\ BytesIn(bufs, u) = a /\ BytesIn(bufs, u + 1) = a + m
    <2>1. a \in Nat /\ m \in Nat
      BY <1>5, <1>9, <1>13, LenProperties
    <2>2. BytesIn(bufs, u) = a
      BY <1>4, <1>8, <1>13 DEF BytesIn
    <2>3. Len(A \o b) = a + m
      BY <1>5, <1>9, <1>13, ConcatProperties
    <2>4. BytesIn(bufs, u + 1) = a + m
      BY <1>6, <1>10, <2>3 DEF BytesIn
    <2> QED BY <2>1, <2>2, <2>4
  <1>15. PICK took : took = n - a
    OBVIOUS
  <1>16. took \in 1 .. m /\ n = a + took
    BY <1>3, <1>14, <1>15
  <1>17. Remaining(bufs, n) = IF took = m THEN rest ELSE <<SubSeq(b, took + 1, m)>> \o rest
    BY <1>1, <1>2, <1>4, <1>13, <1>14, <1>15 DEF Remaining
  <1>18. A \o b \in Seq(S) /\ Len(A \o b) = a + m
    BY <1>5, <1>9, <1>13, ConcatProperties
  <1>19. CASE took = m
    <2>1. Len(A \o b) = n
      BY <1>14, <1>16, <1>18, <1>19
    <2>2. SubSeq(F, 1, n) = A \o b
      <3>1. PICK H : H = A \o b
        OBVIOUS
      <3>2. H \in Seq(S) /\ Len(H) = n /\ F = H \o R
        BY <1>12, <1>18, <2>1, <3>1
      <3>3. SubSeq(F, 1, n) = H
        BY <1>9, <3>2
      <3> QED BY <3>1, <3>3
    <2>3. Remaining(bufs, n) = rest
      BY <1>17, <1>19
    <2> QED BY <1>5, <1>8, <1>11, <1>12, <2>2, <2>3
  <1>20. CASE took # m
    <2>1. PICK x, y : x = SubSeq(b, 1, took) /\ y = SubSeq(b, took + 1, m)
      OBVIOUS
    <2>2. x \in Seq(S) /\ Len(x) = took
      BY <1>5, <1>13, <1>16, <2>1, PrefixOf
    <2>3. y \in Seq(S)
      <3>1. took + 1 \in 1 .. Len(b) + 1
        BY <1>13, <1>14, <1>16
      <3> QED BY <1>5, <1>13, <2>1, <3>1, SuffixType
    <2>4. b = x \o y
      <3>1. 1 \in 1 .. Len(b) + 1 /\ took \in 1 - 1 .. Len(b) /\ Len(b) \in took .. Len(b)
        BY <1>13, <1>14, <1>16
      <3>2. SubSeq(b, 1, took) \o SubSeq(b, took + 1, Len(b)) = SubSeq(b, 1, Len(b))
        BY <1>5, <3>1, ConcatAdjacentSubSeq
      <3> QED BY <1>5, <1>13, <2>1, <3>2, SubSeqFull
    <2>5. F = (A \o x) \o (y \o R)
      <3>1. Regrouped(A, x, y, R)
        BY <1>9, <2>2, <2>3, Associative
      <3> QED BY <1>12, <2>4, <3>1 DEF Regrouped
    <2>6. A \o x \in Seq(S) /\ Len(A \o x) = n /\ y \o R \in Seq(S)
      BY <1>9, <1>13, <1>16, <2>2, <2>3, ConcatProperties
    <2>7. SubSeq(F, 1, n) = A \o x
      <3>1. PICK H, K : H = A \o x /\ K = y \o R
        OBVIOUS
      <3>2. H \in Seq(S) /\ Len(H) = n /\ F = H \o K /\ K \in Seq(S)
        BY <2>5, <2>6, <3>1
      <3>3. SubSeq(F, 1, n) = H
        BY <3>2
      <3> QED BY <3>1, <3>3
    <2>8. Remaining(bufs, n) = <<y>> \o rest
      BY <1>17, <1>20, <2>1
    <2>9. <<y>> \in Seq(Seq(S)) /\ FlattenSeq(<<y>>) = y
      BY <2>3, FlatOne
    <2>10. FlattenSeq(<<y>> \o rest) = y \o R
      BY <1>5, <1>8, <2>9, FlatConcat
    <2>11. <<y>> \o rest \in Seq(Seq(S))
      BY <1>5, <2>9, ConcatProperties
    <2> QED BY <1>11, <2>5, <2>7, <2>8, <2>10, <2>11
  <1> QED BY <1>19, <1>20

-------------------------------------------------------------------------------
(* Columns.                                                                    *)

\* The bytes of what cclip list prints: no tab and no newline if no MIME type has one.
Letter == IF PlainTypes THEN Byte \ {9, 10} ELSE Byte

Digit == 48 .. 57

LEMMA Letters == /\ Letter \subseteq Byte /\ Digit \subseteq Letter /\ TagByte \subseteq Letter
                 /\ \A b \in Byte : Printable(b) => b \in Letter
                 /\ 44 \in Letter /\ Space \in Letter /\ 124 \in Letter
                 /\ PlainTypes => 9 \notin Letter /\ 10 \notin Letter
  BY DEF Letter, Digit, TagByte, Byte, Printable, Space

\* A sequence of some things is one of more things.
LEMMA WiderSeq ==
  ASSUME NEW S, NEW T, S \subseteq T, NEW s \in Seq(S)
  PROVE  s \in Seq(T)
  OBVIOUS

\* What Decimal goes through.
IsDecimal(n, digits) ==
  /\ \A m \in 0 .. n : /\ digits[m] \in Seq(Digit)
                       /\ digits[m] = IF m < 10 THEN <<48 + m>> ELSE digits[m \div 10] \o <<48 + (m % 10)>>
  /\ Decimal(n) = digits[n]

LEMMA Digits ==
  ASSUME NEW n \in Nat
  PROVE  \E digits : IsDecimal(n, digits)
  <1> DEFINE Loop(t) == t = [m \in 0 .. n |-> IF m < 10 THEN <<48 + m>> ELSE t[m \div 10] \o <<48 + (m % 10)>>]
             Value(f, m) == IF m < 10 THEN <<48 + m>> ELSE f[m \div 10] \o <<48 + (m % 10)>>
  <1>1. PICK D : D = Seq(Digit)
    OBVIOUS
  <1>2. ASSUME NEW m \in Nat, m >= 10 PROVE m \div 10 \in 0 .. m - 1 /\ m % 10 \in 0 .. 9
    BY <1>2
  <1>3. ASSUME NEW f, NEW m \in Nat, m >= 10 => f[m \div 10] \in D PROVE Value(f, m) \in D
    <2>1. CASE m < 10
      <3>1. 48 + m \in Digit
        BY <2>1 DEF Digit
      <3>2. <<48 + m>> \in Seq(Digit)
        BY <3>1
      <3> QED BY <1>1, <2>1, <3>2
    <2>2. CASE ~(m < 10)
      <3>1. m >= 10
        BY <2>2
      <3>2. 48 + (m % 10) \in Digit
        BY <1>2, <3>1 DEF Digit
      <3>3. <<48 + (m % 10)>> \in Seq(Digit)
        BY <3>2
      <3>4. f[m \div 10] \in Seq(Digit)
        BY <1>1, <1>3, <3>1
      <3> QED BY <1>1, <2>2, <3>3, <3>4, ConcatProperties
    <2> QED BY <2>1, <2>2
  <1> DEFINE Defined(f, k) == f \in [0 .. k -> D] /\ \A m \in 0 .. k : f[m] = Value(f, m)
  <1>4. PICK T : T = {k \in 0 .. n : \E f : Defined(f, k)}
    OBVIOUS
  <1>5. 0 \in T
    <2>1. PICK f : f = [m \in 0 .. 0 |-> <<48>>]
      OBVIOUS
    <2>2. f[0] = <<48>> /\ Value(f, 0) = <<48>> /\ Value(f, 0) \in D
      BY <1>3, <2>1
    <2>3. Defined(f, 0)
      BY <2>1, <2>2
    <2> QED BY <1>4, <2>3
  <1>6. ASSUME NEW k \in 1 .. n, k - 1 \in T PROVE k \in T
    <2>1. PICK f : Defined(f, k - 1)
      BY <1>4, <1>6
    <2>2. PICK g : g = [m \in 0 .. k |-> IF m = k THEN Value(f, k) ELSE f[m]]
      OBVIOUS
    <2>3. Value(f, k) \in D
      <3>1. k \in Nat /\ (k >= 10 => k \div 10 \in 0 .. k - 1)
        BY <1>2
      <3> QED BY <1>3, <2>1, <3>1
    <2>4. g \in [0 .. k -> D]
      BY <2>1, <2>2, <2>3, SMTT(20)
    <2>5. ASSUME NEW m \in 0 .. k PROVE Value(g, m) = Value(f, m)
      <3>1. m >= 10 => m \div 10 \in 0 .. k - 1
        BY <1>2
      <3>2. m >= 10 => g[m \div 10] = f[m \div 10]
        BY <2>2, <3>1
      <3>3. m \in Nat
        OBVIOUS
      <3> QED BY <3>2, <3>3
    <2>6. ASSUME NEW m \in 0 .. k PROVE g[m] = Value(g, m)
      <3>1. CASE m = k
        <4>1. g[k] = Value(f, k)
          BY <2>2
        <4> QED BY <2>5, <3>1, <4>1
      <3>2. CASE m # k
        <4>1. m \in 0 .. k - 1
          BY <3>2
        <4>2. g[m] = f[m] /\ f[m] = Value(f, m)
          BY <2>1, <2>2, <3>2, <4>1
        <4> QED BY <2>5, <4>2
      <3> QED BY <3>1, <3>2
    <2>7. Defined(g, k)
      BY <2>4, <2>6
    <2>8. k \in 0 .. n
      OBVIOUS
    <2> HIDE DEF Defined
    <2> QED BY <1>4, <2>7, <2>8
  <1>7. PICK f : Defined(f, n)
    <2>1. \A k \in 0 .. n : k \in T
      BY <1>5, <1>6, Induction
    <2> QED BY <1>4, <2>1, SMTT(20)
  <1>8. Loop(f)
    BY <1>7
  <1>9. PICK digits : digits = CHOOSE t : Loop(t)
    OBVIOUS
  <1>10. Loop(digits)
    BY <1>8, <1>9
  <1>11. Decimal(n) = digits[n]
    BY <1>9 DEF Decimal
  <1>12. \A m \in 0 .. n : digits[m] = Value(digits, m)
    BY <1>10
  <1>13. PICK U : U = {k \in 0 .. n : \A m \in 0 .. k : digits[m] \in D}
    OBVIOUS
  <1>14. 0 \in U
    <2>1. 0 \in Nat /\ ~(0 >= 10) /\ 0 \in 0 .. n
      OBVIOUS
    <2>2. Value(digits, 0) \in D
      BY <1>3, <2>1
    <2>3. digits[0] \in D
      BY <1>12, <2>1, <2>2
    <2>4. \A m \in 0 .. 0 : m = 0
      OBVIOUS
    <2> QED BY <1>13, <2>1, <2>3, <2>4
  <1>15. ASSUME NEW k \in 1 .. n, k - 1 \in U PROVE k \in U
    <2>1. k \in Nat /\ (k >= 10 => k \div 10 \in 0 .. k - 1)
      BY <1>2
    <2>2. \A m \in 0 .. k - 1 : digits[m] \in D
      BY <1>13, <1>15
    <2>3. digits[k] \in D
      <3>1. k >= 10 => digits[k \div 10] \in D
        BY <2>1, <2>2
      <3>2. Value(digits, k) \in D
        BY <1>3, <2>1, <3>1
      <3>3. k \in 0 .. n
        OBVIOUS
      <3> QED BY <1>12, <3>2, <3>3
    <2>4. \A m \in 0 .. k : m = k \/ m \in 0 .. k - 1
      OBVIOUS
    <2> QED BY <1>13, <2>2, <2>3, <2>4
  <1>16. n \in U
    <2>1. \A k \in 0 .. n : k \in U
      BY <1>14, <1>15, Induction
    <2> QED BY <2>1
  <1>17. \A m \in 0 .. n : digits[m] \in Seq(Digit)
    BY <1>1, <1>13, <1>16
  <1>18. IsDecimal(n, digits)
    BY <1>11, <1>12, <1>17 DEF IsDecimal
  <1> QED BY <1>18

\* A number has digits.
LEMMA DecimalType ==
  ASSUME NEW n \in Nat
  PROVE  Decimal(n) \in Seq(Digit)
  <1>1. PICK digits : IsDecimal(n, digits)
    BY Digits
  <1>2. n \in 0 .. n
    OBVIOUS
  <1> QED BY <1>1, <1>2 DEF IsDecimal

\* The last digit and those before it.
Tens(d, m, q, x) ==
  /\ q \in 0 .. m - 1 /\ x \in 0 .. 9 /\ m = 10 * q + x
  /\ d[q] \in Seq(Digit) /\ 48 + x \in Digit /\ d[m] = Append(d[q], 48 + x)

LEMMA LastDigit ==
  ASSUME NEW n \in Nat, NEW d, IsDecimal(n, d), NEW m \in 0 .. n, m >= 10
  PROVE  Tens(d, m, m \div 10, m % 10)
  <1>1. m \in Nat /\ ~(m < 10)
    OBVIOUS
  <1>2. PICK q, x : q = m \div 10 /\ x = m % 10
    OBVIOUS
  <1>3. q \in 0 .. m - 1 /\ x \in 0 .. 9 /\ m = 10 * q + x
    BY <1>1, <1>2
  <1>4. q \in 0 .. n /\ 48 + x \in Digit
    BY <1>3 DEF Digit
  <1>5. d[q] \in Seq(Digit) /\ d[m] = d[q] \o <<48 + x>>
    BY <1>1, <1>2, <1>4 DEF IsDecimal
  <1>6. d[q] \o <<48 + x>> = Append(d[q], 48 + x)
    BY <1>4, <1>5
  <1>7. Tens(d, m, q, x)
    BY <1>3, <1>4, <1>5, <1>6 DEF Tens
  <1> QED BY <1>2, <1>7

LEMMA SomeDigit ==
  ASSUME NEW n \in Nat, NEW d, IsDecimal(n, d), NEW m \in 0 .. n
  PROVE  d[m] # << >>
  <1>1. CASE m < 10
    <2>1. d[m] = <<48 + m>>
      BY <1>1 DEF IsDecimal
    <2> QED BY <2>1
  <1>2. CASE ~(m < 10)
    <2>1. m >= 10
      BY <1>2
    <2>2. PICK q, x : Tens(d, m, q, x)
      BY <2>1, LastDigit
    <2> QED BY <2>2, AppendProperties DEF Tens
  <1> QED BY <1>1, <1>2

\* One digit is not two.
LEMMA OneDigit ==
  ASSUME NEW n \in Nat, NEW d, IsDecimal(n, d), NEW m \in 0 .. n, NEW y, d[m] = <<y>>
  PROVE  m < 10
  <1> SUFFICES ASSUME m >= 10 PROVE FALSE
    OBVIOUS
  <1>1. PICK q, z : Tens(d, m, q, z)
    BY LastDigit
  <1>2. PICK a, x : a = d[q] /\ x = 48 + z /\ a \in Seq(Digit) /\ x \in Digit /\ d[m] = Append(a, x)
    BY <1>1 DEF Tens
  <1>3. a # << >>
    <2>1. q \in 0 .. n
      BY <1>1 DEF Tens
    <2> QED BY <1>2, <2>1, SomeDigit
  <1>4. Len(Append(a, x)) = Len(a) + 1 /\ Len(a) \in Nat
    BY <1>2, AppendProperties, LenProperties
  <1>5. Len(a) # 0
    BY <1>2, <1>3, EmptySeq, LenProperties
  <1>6. Len(<<y>>) = 1
    OBVIOUS
  <1> QED BY <1>2, <1>4, <1>5, <1>6

\* Sequences that are equal have equal ends.
LEMMA SameEnds ==
  ASSUME NEW S, NEW a \in Seq(S), NEW b \in Seq(S), NEW u \in S, NEW v \in S, Append(a, u) = Append(b, v)
  PROVE  a = b /\ u = v
  <1>1. PICK t : t = Append(a, u) /\ t = Append(b, v)
    OBVIOUS
  <1>2. PICK n \in Nat, k \in Nat : n = Len(a) /\ k = Len(b)
    BY LenProperties
  <1>3. Len(t) = n + 1 /\ t[n + 1] = u /\ \A i \in 1 .. n : t[i] = a[i]
    <2>1. t = Append(a, u)
      BY <1>1
    <2> QED BY <1>2, <2>1, AppendProperties
  <1>4. Len(t) = k + 1 /\ t[k + 1] = v /\ \A i \in 1 .. k : t[i] = b[i]
    <2>1. t = Append(b, v)
      BY <1>1
    <2> QED BY <1>2, <2>1, AppendProperties
  <1>5. n = k
    BY <1>3, <1>4
  <1>6. a = b
    BY <1>2, <1>3, <1>4, <1>5, SeqEqual
  <1> QED BY <1>3, <1>4, <1>5, <1>6

\* Different numbers have different digits.
LEMMA DecimalInjective ==
  ASSUME NEW n \in Nat, NEW k \in Nat, Decimal(n) = Decimal(k)
  PROVE  n = k
  <1>1. PICK f : IsDecimal(n, f)
    BY Digits
  <1>2. PICK g : IsDecimal(k, g)
    BY Digits
  <1>3. PICK T : T = {j \in 0 .. n : \A i \in 0 .. j, m \in 0 .. k : f[i] = g[m] => i = m}
    OBVIOUS
  <1>4. ASSUME NEW i \in 0 .. n, NEW m \in 0 .. k, f[i] = g[m], i >= 10 => i \div 10 \in T
        PROVE  i = m
    <2>1. CASE i < 10 \/ m < 10
      <3>1. i < 10 /\ m < 10
        <4>1. CASE i < 10
          <5>1. g[m] = <<48 + i>>
            BY <1>1, <1>4, <4>1 DEF IsDecimal
          <5> QED BY <1>2, <4>1, <5>1, OneDigit
        <4>2. CASE m < 10
          <5>1. f[i] = <<48 + m>>
            BY <1>2, <1>4, <4>2 DEF IsDecimal
          <5> QED BY <1>1, <4>2, <5>1, OneDigit
        <4> QED BY <2>1, <4>1, <4>2
      <3>2. f[i] = <<48 + i>> /\ g[m] = <<48 + m>>
        BY <1>1, <1>2, <3>1 DEF IsDecimal
      <3>3. PICK x \in Nat, y \in Nat : x = 48 + i /\ y = 48 + m
        OBVIOUS
      <3>4. <<x>> = <<y>>
        BY <1>4, <3>2, <3>3
      <3>5. x = y
        BY <3>4
      <3> QED BY <3>3, <3>5
    <2>2. CASE ~(i < 10 \/ m < 10)
      <3>1. i >= 10 /\ m >= 10
        BY <2>2
      <3>2. PICK p, x : p = i \div 10 /\ Tens(f, i, p, x)
        BY <1>1, <3>1, LastDigit
      <3>3. PICK a, u : /\ a = f[p] /\ u = 48 + x
                        /\ a \in Seq(Digit) /\ u \in Digit /\ f[i] = Append(a, u)
        BY <3>2 DEF Tens
      <3>4. PICK q, y : Tens(g, m, q, y)
        BY <1>2, <3>1, LastDigit
      <3>5. PICK b, v : /\ b = g[q] /\ v = 48 + y
                        /\ b \in Seq(Digit) /\ v \in Digit /\ g[m] = Append(b, v)
        BY <3>4 DEF Tens
      <3>6. a = b /\ u = v
        <4>1. Append(a, u) = Append(b, v)
          BY <1>4, <3>3, <3>5
        <4>2. PICK S : S = Digit
          OBVIOUS
        <4>3. a \in Seq(S) /\ u \in S /\ b \in Seq(S) /\ v \in S
          BY <3>3, <3>5, <4>2
        <4> QED BY <4>1, <4>3, SameEnds
      <3>7. p = q
        <4>1. p \in T /\ p \in 0 .. p /\ q \in 0 .. k
          BY <1>4, <3>1, <3>2, <3>4 DEF Tens
        <4>2. f[p] = g[q]
          BY <3>3, <3>5, <3>6
        <4> QED BY <1>3, <4>1, <4>2
      <3> QED BY <3>2, <3>3, <3>4, <3>5, <3>6, <3>7 DEF Tens
    <2> QED BY <2>1, <2>2
  <1>5. 0 \in T
    <2>1. ASSUME NEW i \in 0 .. 0, NEW m \in 0 .. k, f[i] = g[m] PROVE i = m
      <3>1. i \in 0 .. n /\ ~(i >= 10)
        OBVIOUS
      <3> QED BY <1>4, <2>1, <3>1
    <2> QED BY <1>3, <2>1
  <1>6. ASSUME NEW j \in 1 .. n, j - 1 \in T PROVE j \in T
    <2>1. ASSUME NEW i \in 0 .. j, NEW m \in 0 .. k, f[i] = g[m] PROVE i = m
      <3>1. CASE i = j
        <4>1. i \in 0 .. n
          OBVIOUS
        <4>2. ASSUME i >= 10 PROVE i \div 10 \in T
          <5>1. PICK p, x : p = i \div 10 /\ Tens(f, i, p, x)
            BY <1>1, <4>1, <4>2, LastDigit
          <5>2. p \in 0 .. i - 1
            BY <5>1 DEF Tens
          <5>3. p \in 0 .. n /\ \A h \in 0 .. p : h \in 0 .. j - 1
            BY <3>1, <5>2
          <5>4. p \in T
            BY <1>3, <1>6, <5>3
          <5> QED BY <5>1, <5>4
        <4> QED BY <1>4, <2>1, <4>1, <4>2
      <3>2. CASE i # j
        <4>1. i \in 0 .. j - 1
          BY <3>2
        <4> QED BY <1>3, <1>6, <2>1, <4>1
      <3> QED BY <3>1, <3>2
    <2> QED BY <1>3, <2>1
  <1>7. n \in T
    <2>1. \A j \in 0 .. n : j \in T
      BY <1>5, <1>6, Induction
    <2> QED BY <2>1
  <1>8. f[n] = g[k]
    BY <1>1, <1>2 DEF IsDecimal
  <1> QED BY <1>3, <1>7, <1>8

\* The list of an entry's tags.
LEMMA JoinedType ==
  ASSUME NEW tags \in Seq(Seq(TagByte))
  PROVE  Joined(tags) \in Seq(Letter)
  <1>1. CASE tags = << >>
    BY <1>1 DEF Joined
  <1>2. CASE tags # << >>
    <2>1. PICK l \in Nat \ {0} : l = Len(tags)
      BY <1>2, EmptySeq, LenProperties
    <2>2. PICK s : s = [k \in 1 .. 2 * l - 1 |-> IF k % 2 = 1 THEN tags[(k + 1) \div 2] ELSE Comma]
      OBVIOUS
    <2>3. ASSUME NEW k \in 1 .. 2 * l - 1
          PROVE  (IF k % 2 = 1 THEN tags[(k + 1) \div 2] ELSE Comma) \in Seq(Letter)
      <3>1. CASE k % 2 = 1
        <4>1. (k + 1) \div 2 \in 1 .. l
          BY <3>1
        <4>2. tags[(k + 1) \div 2] \in Seq(TagByte)
          BY <2>1, <4>1
        <4> QED BY <3>1, <4>2, WiderSeq, Letters
      <3>2. CASE k % 2 # 1
        BY <3>2, Letters DEF Comma
      <3> QED BY <3>1, <3>2
    <2>4. s \in Seq(Seq(Letter))
      <3>1. s \in [1 .. 2 * l - 1 -> Seq(Letter)]
        BY <2>2, <2>3
      <3>2. PICK m \in Nat : m = 2 * l - 1
        <4>1. l \in Nat \ {0}
          OBVIOUS
        <4>2. 2 * l - 1 \in Nat
          BY <4>1
        <4> QED BY <4>2
      <3>3. s \in [1 .. m -> Seq(Letter)]
        BY <3>1, <3>2
      <3> QED BY <3>3
    <2>5. Joined(tags) = FlattenSeq(s)
      BY <1>2, <2>1, <2>2 DEF Joined
    <2> QED BY <2>4, <2>5, FlatType
  <1> QED BY <1>1, <1>2

-------------------------------------------------------------------------------
(* Entries.                                                                    *)

\* What cclipd has stored.
Entry == {e \in [id : Nat, data : Seq(Byte), type : Seq(Letter), tags : Seq(Seq(TagByte)), preview : Seq(Letter)] :
            e.preview = GeneratePreview(e.data, e.type, TextPrefix, PreviewLen)}

\* A preview has no byte that would break a line.
LEMMA PreviewType ==
  ASSUME NEW data \in Seq(Byte), NEW type \in Seq(Letter)
  PROVE  GeneratePreview(data, type, TextPrefix, PreviewLen) \in Seq(Letter)
  <1>1. PICK size \in Nat \ {0} : size = PreviewLen
    BY CclipAssumption
  <1>2. TextPreview(data, size) \in Seq(Letter)
    <2>1. PICK p : p = TextPreview(data, size)
      OBVIOUS
    <2>2. p \in Seq(Byte) /\ Readable(p)
      BY <2>1, TextReadable
    <2>3. PICK l \in Nat : l = Len(p)
      BY <2>2, LenProperties
    <2>4. p \in [1 .. l -> Letter]
      <3>1. p \in [1 .. l -> Byte] /\ DOMAIN p = 1 .. l
        BY <2>2, <2>3, LenProperties
      <3>2. \A i \in 1 .. l : p[i] \in Byte /\ Printable(p[i])
        BY <2>2, <3>1 DEF Readable
      <3> QED BY <3>1, <3>2, Letters
    <2> QED BY <2>1, <2>4
  <1>3. BinaryPreview(type, size) \in Seq(Letter)
    <2>1. PICK s : s = type \o <<Space, 124, Space>>
      OBVIOUS
    <2>2. s \in Seq(Letter)
      <3>1. <<Space, 124, Space>> \in Seq(Letter)
        BY Letters
      <3> QED BY <2>1, <3>1, ConcatProperties
    <2>3. PICK k \in 0 .. Len(s) : Cut(s, size - 1) = SubSeq(s, 1, k)
      <3>1. PICK m, l : m = size - 1 /\ l = Len(s)
        OBVIOUS
      <3>2. m \in Nat /\ l \in Nat
        BY <2>2, <3>1, LenProperties
      <3>3. (IF l < m THEN l ELSE m) \in 0 .. l
        BY <3>2
      <3> QED BY <3>1, <3>3 DEF Cut
    <2>4. SubSeq(s, 1, k) \in Seq(Letter)
      BY <2>2, PrefixOf
    <2> QED BY <2>1, <2>3, <2>4 DEF BinaryPreview
  <1> QED BY <1>1, <1>2, <1>3 DEF GeneratePreview

\* Entries begin as what cclipd makes of the contents.
LEMMA StoredType ==
  ASSUME NEW s \in Scenario, NEW i \in DOMAIN s.contents
  PROVE  Stored(s.contents[i]) \in Entry
  <1>1. PICK c : c = s.contents[i]
    OBVIOUS
  <1>2. IsContent(c)
    BY <1>1, CclipAssumption
  <1>3. c.id \in Nat /\ c.data \in Seq(Byte) /\ c.type \in Seq(Byte) /\ c.tags \in Seq(Seq(TagByte))
    BY <1>2 DEF IsContent
  <1>4. c.type \in Seq(Letter)
    <2>1. CASE PlainTypes
      <3>1. ToSet(c.type) \cap {9, 10} = {}
        BY <1>1, <2>1 DEF PlainTypes
      <3>2. PICK t, l : t = c.type /\ l = Len(t)
        OBVIOUS
      <3>3. t \in Seq(Byte) /\ l \in Nat /\ t \in [1 .. l -> Byte] /\ DOMAIN t = 1 .. l
        BY <1>3, <3>2, LenProperties
      <3>4. \A k \in 1 .. l : t[k] \in Byte \ {9, 10}
        BY <3>1, <3>2, <3>3 DEF ToSet
      <3>5. t \in [1 .. l -> Letter]
        BY <2>1, <3>3, <3>4 DEF Letter
      <3> QED BY <3>2, <3>3, <3>5
    <2>2. CASE ~PlainTypes
      BY <1>3, <2>2 DEF Letter
    <2> QED BY <2>1, <2>2
  <1>5. PICK p : p = GeneratePreview(c.data, c.type, TextPrefix, PreviewLen)
    OBVIOUS
  <1>6. p \in Seq(Letter)
    BY <1>3, <1>4, <1>5, PreviewType
  <1>7. PICK e : e = Stored(c)
    OBVIOUS
  <1>8. e = [id |-> c.id, data |-> c.data, type |-> c.type, tags |-> c.tags, preview |-> p]
    BY <1>5, <1>7 DEF Stored
  <1>9. e \in [id : Nat, data : Seq(Byte), type : Seq(Letter), tags : Seq(Seq(TagByte)), preview : Seq(Letter)]
    BY <1>3, <1>4, <1>6, <1>8
  <1>10. e.preview = GeneratePreview(e.data, e.type, TextPrefix, PreviewLen)
    BY <1>5, <1>8
  <1> QED BY <1>1, <1>7, <1>9, <1>10 DEF Entry

\* No field of an entry breaks a line.
LEMMA ColumnType ==
  ASSUME NEW e \in Entry, NEW f \in DOMAIN FieldNames
  PROVE  Column(e, f) \in Seq(Letter)
  <1>1. /\ e.id \in Nat /\ e.data \in Seq(Byte) /\ e.type \in Seq(Letter)
        /\ e.tags \in Seq(Seq(TagByte)) /\ e.preview \in Seq(Letter)
    BY DEF Entry
  <1>2. f \in {"id", "preview", "mime_type", "data_size", "timestamp", "tags"}
    BY DEF FieldNames
  <1>3. ASSUME NEW n \in Nat PROVE Decimal(n) \in Seq(Letter)
    BY DecimalType, WiderSeq, Letters
  <1>4. Decimal(e.id) \in Seq(Letter) /\ Decimal(e.id + 10) \in Seq(Letter) /\ Decimal(Len(e.data)) \in Seq(Letter)
    <2>1. e.id + 10 \in Nat /\ Len(e.data) \in Nat
      BY <1>1, LenProperties
    <2> QED BY <1>1, <1>3, <2>1
  <1>5. Joined(e.tags) \in Seq(Letter)
    BY <1>1, JoinedType
  <1> QED BY <1>1, <1>2, <1>4, <1>5 DEF Column

-------------------------------------------------------------------------------
(* Rows.                                                                       *)

\* build_field_list: each field once, so a row fits its array.
LEMMA FieldsType ==
  ASSUME NEW l, IsLine(l)
  PROVE  /\ Fields(l) \in Seq(DOMAIN FieldNames)
         /\ Len(Fields(l)) <= Cardinality(DOMAIN FieldNames)
  <1>1. PICK tokens : tokens = IF l.fields = {} THEN DefaultFields ELSE CHOOSE ts \in l.fields : TRUE
    OBVIOUS
  <1>2. PICK n \in Nat : DOMAIN tokens = 1 .. n
    <2>1. CASE l.fields = {}
      <3>1. tokens = <<"rowid", "mime_type", "preview">>
        BY <1>1, <2>1 DEF DefaultFields
      <3>2. DOMAIN tokens = 1 .. 3
        BY <3>1
      <3> QED BY <3>2
    <2>2. CASE l.fields # {}
      <3>1. tokens \in l.fields
        BY <1>1, <2>2
      <3>2. tokens \in Seq(STRING)
        BY <3>1 DEF IsLine
      <3>3. Len(tokens) \in Nat /\ DOMAIN tokens = 1 .. Len(tokens)
        BY <3>2, LenProperties
      <3> QED BY <3>3
    <2> QED BY <2>1, <2>2
  <1>3. PICK fs : fs = Fields(l)
    OBVIOUS
  <1>4. PICK F : F = DOMAIN FieldNames
    OBVIOUS
  <1>5. IsFiniteSet(F) /\ Cardinality(F) \in Nat
    <2>1. F = {"id", "preview", "mime_type", "data_size", "timestamp", "tags"}
      BY <1>4 DEF FieldNames
    <2>2. IsFiniteSet({}) /\ IsFiniteSet({"id"})
      BY FS_EmptySet, FS_Singleton
    <2>3. IsFiniteSet({"id"} \cup {"preview"} \cup {"mime_type"} \cup {"data_size"} \cup {"timestamp"} \cup {"tags"})
      BY FS_Singleton, FS_Union
    <2>4. F = {"id"} \cup {"preview"} \cup {"mime_type"} \cup {"data_size"} \cup {"timestamp"} \cup {"tags"}
      BY <2>1
    <2> QED BY <2>3, <2>4, FS_CardinalityType
  <1>6. CASE /\ \A i \in DOMAIN tokens : IsField(tokens[i])
             /\ \A i, j \in DOMAIN tokens : FieldOf(tokens[i]) = FieldOf(tokens[j]) => i = j
    <2>1. fs = [i \in 1 .. n |-> FieldOf(tokens[i])]
      BY <1>1, <1>2, <1>3, <1>6 DEF Fields, BuildFieldList
    <2>2. ASSUME NEW i \in 1 .. n PROVE FieldOf(tokens[i]) \in F
      BY <1>2, <1>4, <1>6 DEF IsField, FieldOf
    <2>3. fs \in [1 .. n -> F]
      BY <2>1, <2>2
    <2>4. fs \in Seq(F) /\ Len(fs) = n
      BY <2>3
    <2>5. \A i, j \in 1 .. n : fs[i] = fs[j] => i = j
      BY <1>2, <1>6, <2>1
    <2>6. fs \in Injection(1 .. n, F)
      BY <2>3, <2>5 DEF Injection, IsInjective
    <2>7. Cardinality(1 .. n) <= Cardinality(F)
      BY <1>5, <2>6, FS_Injection
    <2>8. Cardinality(1 .. n) = n
      BY FS_Interval
    <2> QED BY <1>3, <1>4, <2>4, <2>7, <2>8
  <1>7. CASE ~ (/\ \A i \in DOMAIN tokens : IsField(tokens[i])
                /\ \A i, j \in DOMAIN tokens : FieldOf(tokens[i]) = FieldOf(tokens[j]) => i = j)
    <2>1. fs = << >>
      BY <1>1, <1>3, <1>7 DEF Fields, BuildFieldList
    <2> QED BY <1>3, <1>4, <1>5, <2>1
  <1> QED BY <1>6, <1>7

LEMMA RowType ==
  ASSUME NEW l, IsLine(l), NEW e \in Entry
  PROVE  RowOf(e, l) \in [1 .. Len(Fields(l)) -> Seq(Letter)]
  <1>1. PICK fs, n : fs = Fields(l) /\ n = Len(fs)
    OBVIOUS
  <1>2. fs \in Seq(DOMAIN FieldNames)
    BY <1>1, FieldsType
  <1>3. DOMAIN fs = 1 .. n /\ \A i \in 1 .. n : fs[i] \in DOMAIN FieldNames
    BY <1>1, <1>2, LenProperties
  <1>4. RowOf(e, l) = [i \in 1 .. n |-> Column(e, fs[i])]
    BY <1>1, <1>3 DEF RowOf
  <1>5. \A i \in 1 .. n : Column(e, fs[i]) \in Seq(Letter)
    BY <1>3, ColumnType
  <1> QED BY <1>1, <1>4, <1>5

NoTwice(s) == \A i, j \in DOMAIN s : s[i] = s[j] => i = j

LEMMA OneMore ==
  ASSUME NEW S, NEW s \in Seq(S), NEW x \in S
  PROVE  /\ ToSet(Append(s, x)) = ToSet(s) \cup {x}
         /\ NoTwice(s) /\ x \notin ToSet(s) => NoTwice(Append(s, x))
  <1>1. PICK t, n : t = Append(s, x) /\ n = Len(s)
    OBVIOUS
  <1>2. /\ n \in Nat /\ DOMAIN s = 1 .. n /\ DOMAIN t = 1 .. n + 1
        /\ (\A i \in 1 .. n : t[i] = s[i]) /\ t[n + 1] = x
    BY <1>1, AppendProperties, LenProperties
  <1>3. \A i \in 1 .. n + 1 : i \in 1 .. n \/ i = n + 1
    BY <1>2
  <1>4. n + 1 \in 1 .. n + 1 /\ \A i \in 1 .. n : i \in 1 .. n + 1
    BY <1>2
  <1>5. ToSet(t) = ToSet(s) \cup {x}
    BY <1>2, <1>3, <1>4 DEF ToSet
  <1>6. ASSUME NoTwice(s), x \notin ToSet(s) PROVE NoTwice(t)
    <2>1. \A i \in 1 .. n : s[i] # x
      BY <1>2, <1>6 DEF ToSet
    <2> QED BY <1>2, <1>3, <1>6, <2>1 DEF NoTwice
  <1> QED BY <1>1, <1>5, <1>6

\* SELECT DISTINCT leaves each of its rows once.
LEMMA DistinctRows ==
  ASSUME NEW S, NEW s \in Seq(S)
  PROVE  Distinct(s) \in Seq(S) /\ ToSet(Distinct(s)) = ToSet(s) /\ NoTwice(Distinct(s))
  <1> DEFINE Value(b, i) == IF s[i] \in ToSet(b) THEN b ELSE Append(b, s[i])
             Loop(t) == t = [i \in 0 .. Len(s) |-> IF i = 0 THEN << >> ELSE IF s[i] \in ToSet(t[i - 1]) THEN t[i - 1]
                                                  ELSE Append(t[i - 1], s[i])]
  <1> PICK l \in Nat : l = Len(s)
    BY LenProperties
  <1>1. PICK Q : Q = Seq(S) /\ l = Len(s)
    OBVIOUS
  <1>2. PICK G : G = [i \in 1 .. l |-> [b \in Q |-> Value(b, i)]]
    OBVIOUS
  <1>3. ASSUME NEW i \in 1 .. l, NEW b \in Q PROVE Value(b, i) \in Q
    <2>1. s[i] \in S
      BY <1>1
    <2> QED BY <1>1, <2>1, AppendProperties
  <1>4. << >> \in Q
    BY <1>1
  <1>5. PICK f \in Runs(l, Q, << >>, G) : TRUE
    <2>1. G \in Steps(l, Q)
      <3> HIDE DEF Value
      <3> QED BY <1>2, <1>3 DEF Steps
    <2> QED BY <1>4, <2>1, Recursion
  <1>6. f \in [0 .. l -> Q] /\ f[0] = << >> /\ \A i \in 1 .. l : f[i] = Value(f[i - 1], i)
    <2>1. f \in [0 .. l -> Q] /\ f[0] = << >>
      BY <1>5 DEF Runs
    <2>2. ASSUME NEW i \in 1 .. l PROVE f[i] = Value(f[i - 1], i)
      <3> HIDE DEF Value
      <3>1. f[i] = G[i][f[i - 1]]
        BY <1>5 DEF Runs
      <3>2. i - 1 \in 0 .. l
        OBVIOUS
      <3>3. f[i - 1] \in Q
        BY <2>1, <3>2
      <3> QED BY <1>2, <3>1, <3>3
    <2> QED BY <2>1, <2>2
  <1>7. Loop(f)
    <2>1. f = [i \in 0 .. l |-> IF i = 0 THEN << >> ELSE Value(f[i - 1], i)]
      <3> HIDE DEF Value
      <3> QED BY <1>6
    <2> QED BY <1>1, <2>1
  <1>8. PICK seen : seen = CHOOSE t : Loop(t)
    OBVIOUS
  <1>9. Loop(seen)
    BY <1>7, <1>8
  <1>10. Distinct(s) = seen[l]
    BY <1>1, <1>8 DEF Distinct
  <1>11. seen[0] = << >> /\ \A i \in 1 .. l : seen[i] = Value(seen[i - 1], i)
    <2>1. seen = [i \in 0 .. l |-> IF i = 0 THEN << >> ELSE Value(seen[i - 1], i)]
      BY <1>1, <1>9
    <2> HIDE DEF Value
    <2> QED BY <2>1
  <1>12. PICK T : T = {i \in 0 .. l : /\ seen[i] \in Q /\ NoTwice(seen[i])
                                     /\ ToSet(seen[i]) = {s[j] : j \in 1 .. i}}
    OBVIOUS
  <1>13. 0 \in T
    <2>1. NoTwice(<< >>) /\ ToSet(<< >>) = {}
      BY DEF NoTwice, ToSet
    <2>2. {s[j] : j \in 1 .. 0} = {}
      OBVIOUS
    <2> QED BY <1>4, <1>11, <1>12, <2>1, <2>2
  <1>14. ASSUME NEW i \in 1 .. l, i - 1 \in T PROVE i \in T
    <2>1. PICK b, x : b = seen[i - 1] /\ x = s[i]
      OBVIOUS
    <2>2. PICK A : A = {s[j] : j \in 1 .. i - 1}
      OBVIOUS
    <2>3. b \in Seq(S) /\ NoTwice(b) /\ ToSet(b) = A
      BY <1>1, <1>12, <1>14, <2>1, <2>2
    <2>4. x \in S
      BY <1>1, <2>1
    <2>5. seen[i] = IF x \in A THEN b ELSE Append(b, x)
      BY <1>11, <2>1, <2>3
    <2>6. {s[j] : j \in 1 .. i} = A \cup {x}
      <3>1. \A j \in 1 .. i : j \in 1 .. i - 1 \/ j = i
        OBVIOUS
      <3>2. i \in 1 .. i /\ \A j \in 1 .. i - 1 : j \in 1 .. i
        OBVIOUS
      <3> QED BY <2>1, <2>2, <3>1, <3>2
    <2>7. CASE x \in A
      BY <1>1, <1>12, <2>3, <2>5, <2>6, <2>7
    <2>8. CASE x \notin A
      <3>1. PICK c : c = Append(b, x)
        OBVIOUS
      <3>2. c \in Seq(S) /\ ToSet(c) = A \cup {x} /\ NoTwice(c)
        BY <2>3, <2>4, <2>8, <3>1, OneMore, AppendProperties
      <3>3. seen[i] = c
        BY <2>5, <2>8, <3>1
      <3>4. ToSet(seen[i]) = {s[j] : j \in 1 .. i}
        BY <2>6, <3>2, <3>3, Zenon
      <3>5. i \in 0 .. l /\ seen[i] \in Q /\ NoTwice(seen[i])
        BY <1>1, <3>2, <3>3
      <3> QED BY <1>12, <3>4, <3>5
    <2> QED BY <2>7, <2>8
  <1>15. l \in T
    <2>1. \A i \in 0 .. l : i \in T
      BY <1>13, <1>14, Induction
    <2> QED BY <2>1
  <1>16. ToSet(s) = {s[j] : j \in 1 .. l}
    <2>1. DOMAIN s = 1 .. l
      BY <1>1, LenProperties
    <2> QED BY <2>1 DEF ToSet
  <1> QED BY <1>1, <1>10, <1>12, <1>15, <1>16

\* What flattening leaves of the elements.
LEMMA FlatSet ==
  ASSUME NEW S, NEW seqs \in Seq(Seq(S))
  PROVE  ToSet(FlattenSeq(seqs)) = UNION {ToSet(seqs[i]) : i \in 1 .. Len(seqs)}
  <1>1. PICK f : IsFlat(S, seqs, f)
    BY Flat
  <1>2. PICK l \in Nat : l = Len(seqs)
    BY LenProperties
  <1>3. PICK T : T = {i \in 0 .. l : f[i] \in Seq(S) /\ ToSet(f[i]) = UNION {ToSet(seqs[j]) : j \in 1 .. i}}
    OBVIOUS
  <1>4. 0 \in T
    <2>1. f[0] = << >> /\ << >> \in Seq(S) /\ ToSet(<< >>) = {}
      BY <1>1 DEF IsFlat, ToSet
    <2>2. 1 .. 0 = {}
      OBVIOUS
    <2>3. UNION {ToSet(seqs[j]) : j \in 1 .. 0} = {}
      BY <2>2, Zenon
    <2>4. 0 \in 0 .. l
      OBVIOUS
    <2> QED BY <1>3, <2>1, <2>3, <2>4
  <1>5. ASSUME NEW i \in 1 .. l, i - 1 \in T PROVE i \in T
    <2>1. PICK a, b : a = f[i - 1] /\ b = seqs[i]
      OBVIOUS
    <2>2. a \in Seq(S) /\ b \in Seq(S) /\ f[i] = a \o b
      <3>1. i \in 1 .. Len(seqs)
        BY <1>2
      <3>2. f[i - 1] \in Seq(S) /\ f[i] = f[i - 1] \o seqs[i]
        BY <1>1, <3>1 DEF IsFlat
      <3>3. seqs[i] \in Seq(S)
        BY <3>1
      <3> QED BY <2>1, <3>2, <3>3
    <2>3. f[i] \in Seq(S) /\ ToSet(f[i]) = ToSet(a) \cup ToSet(b)
      BY <2>2, ConcatSet, ConcatProperties
    <2>4. PICK A : A = UNION {ToSet(seqs[j]) : j \in 1 .. i - 1}
      OBVIOUS
    <2>5. ToSet(a) = A
      BY <1>3, <1>5, <2>1, <2>4
    <2>6. UNION {ToSet(seqs[j]) : j \in 1 .. i} = A \cup ToSet(b)
      <3>1. \A j \in 1 .. i : j \in 1 .. i - 1 \/ j = i
        OBVIOUS
      <3>2. i \in 1 .. i /\ \A j \in 1 .. i - 1 : j \in 1 .. i
        OBVIOUS
      <3> QED BY <2>1, <2>4, <3>1, <3>2
    <2> QED BY <1>3, <2>3, <2>5, <2>6
  <1>6. l \in T
    <2>1. \A i \in 0 .. l : i \in T
      BY <1>4, <1>5, Induction
    <2> QED BY <2>1
  <1> QED BY <1>1, <1>2, <1>3, <1>6 DEF IsFlat

\* The rows of a list of some columns, and of the other queries.
ListRow(l) == [1 .. Len(Fields(l)) -> Seq(Letter)]

OneColumn(C) == {row \in Seq(C) : Len(row) = 1}

LEMMA OneColumnRow ==
  ASSUME NEW C, NEW c \in C
  PROVE  <<c>> \in OneColumn(C)
  BY DEF OneColumn

\* A list has a row for every entry it lets through, and none twice.
LEMMA ListRowsWhole ==
  ASSUME NEW l, IsLine(l), NEW entries \in Seq(Entry)
  PROVE  /\ ListRows(entries, l) \in Seq(ListRow(l)) /\ NoTwice(ListRows(entries, l))
         /\ ToSet(ListRows(entries, l)) = {RowOf(e, l) : e \in {e \in ToSet(entries) : Listed(e, l)}}
  <1>1. PICK R : R = ListRow(l)
    OBVIOUS
  <1>2. PICK n \in Nat : n = Len(entries)
    BY LenProperties
  <1>3. DOMAIN entries = 1 .. n /\ \A i \in 1 .. n : entries[i] \in Entry
    BY <1>2, LenProperties
  <1>4. PICK m : m = [i \in 1 .. n |-> IF Listed(entries[i], l) THEN <<RowOf(entries[i], l)>> ELSE << >>]
    OBVIOUS
  <1>5. ListRows(entries, l) = Distinct(FlattenSeq(m))
    BY <1>3, <1>4 DEF ListRows, Mapped
  <1>6. ASSUME NEW i \in 1 .. n PROVE (IF Listed(entries[i], l) THEN <<RowOf(entries[i], l)>> ELSE << >>) \in Seq(R)
    <2>1. RowOf(entries[i], l) \in R
      BY <1>1, <1>3, RowType DEF ListRow
    <2> QED BY <2>1
  <1>7. m \in Seq(Seq(R))
    <2>1. m \in [1 .. n -> Seq(R)]
      BY <1>4, <1>6
    <2> QED BY <2>1
  <1>8. FlattenSeq(m) \in Seq(R)
    BY <1>7, FlatType
  <1>9. PICK A : A = {RowOf(e, l) : e \in {e \in ToSet(entries) : Listed(e, l)}}
    OBVIOUS
  <1>10. ToSet(FlattenSeq(m)) = UNION {ToSet(m[i]) : i \in 1 .. n}
    <2>1. Len(m) = n
      BY <1>4
    <2> QED BY <1>7, <2>1, FlatSet
  <1>11. ASSUME NEW i \in 1 .. n PROVE ToSet(m[i]) = IF Listed(entries[i], l) THEN {RowOf(entries[i], l)} ELSE {}
    <2>1. PICK r : r = RowOf(entries[i], l)
      OBVIOUS
    <2>2. ToSet(<<r>>) = {r} /\ ToSet(<< >>) = {}
      BY DEF ToSet
    <2> QED BY <1>4, <2>1, <2>2
  <1>12. ToSet(FlattenSeq(m)) = A
    <2>1. ToSet(entries) = {entries[i] : i \in 1 .. n}
      BY <1>3 DEF ToSet
    <2>2. PICK F : F = ToSet(FlattenSeq(m))
      OBVIOUS
    <2>3. ASSUME NEW r \in F PROVE r \in A
      <3>1. PICK i \in 1 .. n : r \in ToSet(m[i])
        BY <1>10, <2>2, <2>3
      <3>2. Listed(entries[i], l) /\ r = RowOf(entries[i], l)
        <4>1. CASE Listed(entries[i], l)
          <5>1. ToSet(m[i]) = {RowOf(entries[i], l)}
            BY <1>11, <4>1
          <5> QED BY <3>1, <4>1, <5>1
        <4>2. CASE ~Listed(entries[i], l)
          <5>1. ToSet(m[i]) = {}
            BY <1>11, <4>2
          <5> QED BY <3>1, <5>1
        <4> QED BY <4>1, <4>2
      <3>3. entries[i] \in ToSet(entries)
        BY <2>1
      <3> QED BY <1>9, <3>2, <3>3
    <2>4. ASSUME NEW r \in A PROVE r \in F
      <3>1. PICK e \in ToSet(entries) : Listed(e, l) /\ r = RowOf(e, l)
        BY <1>9, <2>4
      <3>2. PICK i \in 1 .. n : e = entries[i]
        BY <2>1, <3>1
      <3>3. r \in ToSet(m[i])
        BY <1>11, <3>1, <3>2
      <3> QED BY <1>10, <2>2, <3>3
    <2> QED BY <2>2, <2>3, <2>4
  <1> QED BY <1>1, <1>5, <1>8, <1>9, <1>12, DistinctRows

\* The id tells rows apart.
LEMMA IdTells ==
  ASSUME NEW l, IsLine(l), "id" \in ToSet(Fields(l)), NEW d \in Entry, NEW e \in Entry, RowOf(d, l) = RowOf(e, l)
  PROVE  d.id = e.id
  <1>1. PICK k \in DOMAIN Fields(l) : Fields(l)[k] = "id"
    BY DEF ToSet
  <1>2. RowOf(d, l)[k] = Column(d, "id") /\ RowOf(e, l)[k] = Column(e, "id")
    BY <1>1 DEF RowOf
  <1>3. Decimal(d.id) = Decimal(e.id)
    BY <1>2 DEF Column
  <1>4. d.id \in Nat /\ e.id \in Nat
    BY DEF Entry
  <1> QED BY <1>3, <1>4, DecimalInjective

\* As many rows as entries, if no two entries share theirs.
LEMMA AsManyRows ==
  ASSUME NEW E, NEW Q, NEW rs \in Seq(Q), NEW row, NoTwice(rs), ToSet(rs) = {row[e] : e \in E},
         \A d, e \in E : row[d] = row[e] => d = e
  PROVE  Len(rs) = Cardinality(E)
  <1>1. PICK n \in Nat : n = Len(rs)
    BY LenProperties
  <1>2. DOMAIN rs = 1 .. n
    BY <1>1, LenProperties
  <1>3. PICK h : h = [i \in 1 .. n |-> CHOOSE e \in E : row[e] = rs[i]]
    OBVIOUS
  <1>4. ASSUME NEW i \in 1 .. n PROVE h[i] \in E /\ row[h[i]] = rs[i]
    <2>1. rs[i] \in ToSet(rs)
      BY <1>2 DEF ToSet
    <2>2. \E e \in E : row[e] = rs[i]
      BY <2>1
    <2> QED BY <1>3, <2>2
  <1>5. h \in [1 .. n -> E]
    BY <1>3, <1>4
  <1>6. \A i, j \in 1 .. n : h[i] = h[j] => i = j
    BY <1>2, <1>4 DEF NoTwice
  <1>7. ASSUME NEW e \in E PROVE \E i \in 1 .. n : h[i] = e
    <2>1. PICK i \in 1 .. n : rs[i] = row[e]
      <3>1. row[e] \in ToSet(rs)
        OBVIOUS
      <3> QED BY <1>2, <3>1 DEF ToSet
    <2>2. h[i] \in E /\ row[h[i]] = row[e]
      BY <1>4, <2>1
    <2> QED BY <2>2
  <1>8. h \in Bijection(1 .. n, E)
    BY <1>5, <1>6, <1>7 DEF Bijection, Injection, Surjection, IsInjective
  <1>9. IsFiniteSet(1 .. n) /\ Cardinality(1 .. n) = n
    BY FS_Interval
  <1>10. ExistsBijection(1 .. n, E)
    BY <1>8 DEF ExistsBijection
  <1>11. Cardinality(E) = Cardinality(1 .. n)
    BY <1>9, <1>10, FS_Bijection
  <1> QED BY <1>1, <1>9, <1>11

LEMMA TagRowsType ==
  ASSUME table \in Seq(Entry), orphans \in Seq(Seq(TagByte))
  PROVE  TagRows \in Seq(OneColumn(Seq(Letter)))
  <1>1. PICK n \in Nat : n = Len(table)
    BY LenProperties
  <1>2. DOMAIN table = 1 .. n /\ \A i \in 1 .. n : table[i] \in Entry
    BY <1>1, LenProperties
  <1>3. PICK m : m = [i \in 1 .. n |-> table[i].tags]
    OBVIOUS
  <1>4. m \in Seq(Seq(Seq(TagByte)))
    <2>1. \A i \in 1 .. n : table[i].tags \in Seq(Seq(TagByte))
      BY <1>2 DEF Entry
    <2>2. m \in [1 .. n -> Seq(Seq(TagByte))]
      BY <1>3, <2>1
    <2> QED BY <2>2
  <1>5. PICK f : f = FlattenSeq(m) \o orphans
    OBVIOUS
  <1>6. f \in Seq(Seq(TagByte))
    BY <1>4, <1>5, FlatType, ConcatProperties
  <1>7. PICK k \in Nat : k = Len(f)
    BY <1>6, LenProperties
  <1>8. DOMAIN f = 1 .. k /\ \A i \in 1 .. k : f[i] \in Seq(TagByte)
    BY <1>6, <1>7, LenProperties
  <1>9. PICK r : r = [i \in 1 .. k |-> <<f[i]>>]
    OBVIOUS
  <1>10. TagRows = Distinct(r)
    BY <1>2, <1>3, <1>5, <1>8, <1>9 DEF TagRows, Mapped
  <1>11. r \in Seq(OneColumn(Seq(Letter)))
    <2>1. ASSUME NEW i \in 1 .. k PROVE <<f[i]>> \in OneColumn(Seq(Letter))
      <3>1. f[i] \in Seq(Letter)
        BY <1>8, WiderSeq, Letters
      <3> QED BY <3>1, OneColumnRow
    <2>2. r \in [1 .. k -> OneColumn(Seq(Letter))]
      BY <1>9, <2>1
    <2> QED BY <2>2
  <1> QED BY <1>10, <1>11, DistinctRows

LEMMA EntryRowType ==
  ASSUME NEW l, IsLine(l), table \in Seq(Entry)
  PROVE  IF l.action = "get" /\ l.fields # {} THEN EntryRow(l) \in Seq(ListRow(l))
         ELSE EntryRow(l) \in Seq(OneColumn(Seq(Byte)))
  <1>1. CASE WithId(l.id) = {}
    BY <1>1 DEF EntryRow
  <1>2. CASE WithId(l.id) # {}
    <2>1. PICK e : e = CHOOSE x \in WithId(l.id) : TRUE
      OBVIOUS
    <2>2. e \in WithId(l.id)
      BY <1>2, <2>1
    <2>3. e \in Entry
      <3>1. ToSet(table) \subseteq Entry
        BY OwnElements
      <3> QED BY <2>2, <3>1 DEF WithId
    <2>4. EntryRow(l) = IF l.action = "get" /\ l.fields # {} THEN <<RowOf(e, l)>> ELSE <<<<e.data>>>>
      BY <1>2, <2>1 DEF EntryRow
    <2>5. RowOf(e, l) \in ListRow(l)
      BY <2>3, RowType DEF ListRow
    <2>6. <<e.data>> \in OneColumn(Seq(Byte))
      <3>1. e.data \in Seq(Byte)
        BY <2>3 DEF Entry
      <3> QED BY <3>1, OneColumnRow
    <2> QED BY <2>4, <2>5, <2>6
  <1> QED BY <1>1, <1>2

\* What a command prints a row of.
Row(l) == IF l.action = "list" THEN ListRow(l)
          ELSE {row \in Seq(Seq(Byte)) : Len(row) <= Cardinality(DOMAIN FieldNames)}

LEMMA RowFits ==
  ASSUME NEW l, IsLine(l)
  PROVE  \A row \in Row(l) : row \in Seq(Seq(Byte)) /\ Len(row) <= Cardinality(DOMAIN FieldNames)
  <1>1. PICK n \in Nat : n = Len(Fields(l)) /\ n <= Cardinality(DOMAIN FieldNames)
    BY FieldsType, LenProperties
  <1>2. ASSUME NEW row \in ListRow(l) PROVE row \in Seq(Seq(Byte)) /\ Len(row) = n
    <2>1. row \in [1 .. n -> Seq(Letter)]
      BY <1>1 DEF ListRow
    <2>2. \A i \in 1 .. n : row[i] \in Seq(Byte)
      BY <2>1, WiderSeq, Letters
    <2>3. row \in [1 .. n -> Seq(Byte)]
      BY <2>1, <2>2
    <2> QED BY <2>3
  <1> QED BY <1>1, <1>2 DEF Row

\* Whatever the command line asks for, its query has such rows.
LEMMA QueryType ==
  ASSUME NEW l, IsLine(l), table \in Seq(Entry), orphans \in Seq(Seq(TagByte)), l.action \in Reads
  PROVE  Query(l) \in Seq(Row(l))
  <1>1. PICK c \in Nat : c = Cardinality(DOMAIN FieldNames) /\ c >= 1
    <2>1. DOMAIN FieldNames = {"id", "preview", "mime_type", "data_size", "timestamp", "tags"}
      BY DEF FieldNames
    <2>2. IsFiniteSet(DOMAIN FieldNames)
      <3>1. IsFiniteSet({"id"} \cup {"preview"} \cup {"mime_type"} \cup {"data_size"} \cup {"timestamp"} \cup {"tags"})
        BY FS_Singleton, FS_Union
      <3>2. DOMAIN FieldNames
              = {"id"} \cup {"preview"} \cup {"mime_type"} \cup {"data_size"} \cup {"timestamp"} \cup {"tags"}
        BY <2>1
      <3> QED BY <3>1, <3>2
    <2>3. Cardinality(DOMAIN FieldNames) # 0
      BY <2>1, <2>2, FS_EmptySet
    <2> QED BY <2>2, <2>3, FS_CardinalityType
  <1>2. CASE l.action = "list"
    BY <1>2, ListRowsWhole DEF Query, Row
  <1>3. ASSUME l.action # "list", NEW C, C \subseteq Byte, NEW rs \in Seq(OneColumn(Seq(C)))
        PROVE  rs \in Seq(Row(l))
    <2>1. ASSUME NEW row \in OneColumn(Seq(C)) PROVE row \in Row(l)
      <3>1. row \in Seq(Seq(Byte))
        <4>1. Seq(C) \subseteq Seq(Byte)
          BY <1>3
        <4>2. row \in Seq(Seq(C))
          BY DEF OneColumn
        <4> QED BY <4>1, <4>2, WiderSeq
      <3>2. Len(row) <= c
        BY <1>1 DEF OneColumn
      <3> QED BY <1>1, <1>3, <3>1, <3>2 DEF Row
    <2> QED BY <2>1, WiderSeq
  <1>4. CASE l.action = "tags"
    <2>1. Query(l) = TagRows /\ l.action # "list"
      BY <1>4 DEF Query
    <2> QED BY <1>3, <2>1, TagRowsType, Letters
  <1>5. CASE l.action \in {"get", "copy"}
    <2>1. Query(l) = EntryRow(l) /\ l.action # "list"
      BY <1>5 DEF Query
    <2>2. CASE l.action = "get" /\ l.fields # {}
      <3>1. EntryRow(l) \in Seq(ListRow(l))
        BY <2>2, EntryRowType
      <3>2. PICK n \in Nat : n = Len(Fields(l)) /\ n <= c
        BY <1>1, FieldsType, LenProperties
      <3>3. ASSUME NEW row \in ListRow(l) PROVE row \in Row(l)
        <4>1. row \in [1 .. n -> Seq(Letter)]
          BY <3>2 DEF ListRow
        <4>2. \A i \in 1 .. n : row[i] \in Seq(Byte)
          BY <4>1, WiderSeq, Letters
        <4>3. row \in [1 .. n -> Seq(Byte)]
          BY <4>1, <4>2
        <4>4. row \in Seq(Seq(Byte)) /\ Len(row) = n
          BY <4>3
        <4> QED BY <1>1, <2>1, <3>2, <4>4 DEF Row
      <3> QED BY <2>1, <3>1, <3>3, WiderSeq
    <2>3. CASE ~(l.action = "get" /\ l.fields # {})
      <3>1. EntryRow(l) \in Seq(OneColumn(Seq(Byte)))
        BY <2>3, EntryRowType
      <3> QED BY <1>3, <2>1, <3>1
    <2> QED BY <2>2, <2>3
  <1> QED BY <1>2, <1>4, <1>5 DEF Reads

-------------------------------------------------------------------------------
(* The statement and the database.                                             *)

\* Every path finalizes before it closes.
LEMMA HandlesStep ==
  ASSUME Handles, Next \/ UNCHANGED vars
  PROVE  Handles'
  <1> USE DEF Handles, At, Goto, Out, Exit, Finalize
  <1>1. CASE Main \/ Args \/ SetSecureDelete \/ Prepare
    BY <1>1 DEF Main, Args, SetSecureDelete, Prepare, handles
  <1>2. CASE StartQuery \/ Delete
    BY <1>2 DEF StartQuery, Delete, handles
  <1>3. CASE TagsDelete
    BY <1>3 DEF TagsDelete
  <1>4. CASE NextRow \/ NoRow \/ Writev \/ RowWritten \/ WriteFails
    BY <1>4 DEF NextRow, NoRow, Writev, RowWritten, WriteFails, handles
  <1>5. CASE Leave
    BY <1>5 DEF Leave
  <1>6. CASE Copied \/ Connect
    BY <1>6 DEF Copied, Connect, handles
  <1>7. CASE Cancelled \/ DisplayLost \/ StartSend \/ Send \/ SendFails
    BY <1>7 DEF Cancelled, DisplayLost, StartSend, Send, SendFails, Dispatching, handles
  <1>8. CASE Environment \/ UNCHANGED vars
    BY <1>8 DEF Environment, OtherDeletes, Replace, Paste, GiveUp, Stall, vars, process, handles
  <1> QED BY <1>1, <1>2, <1>3, <1>4, <1>5, <1>6, <1>7, <1>8 DEF Next, Process

\* What the handles and the exit code are.
Types == /\ code \in {0, 1} /\ secure \in BOOLEAN
         /\ db \in {"none", "open", "closed"} /\ stmt \in {"null", "live", "freed"}

LEMMA TypesStep ==
  ASSUME Types, Next \/ UNCHANGED vars
  PROVE  Types'
  <1> USE DEF Types, At, Goto, Out, Exit, Finalize
  <1>1. CASE Main \/ Args \/ SetSecureDelete \/ Prepare
    BY <1>1 DEF Main, Args, SetSecureDelete, Prepare, handles, file
  <1>2. CASE StartQuery \/ Delete \/ TagsDelete
    BY <1>2 DEF StartQuery, Delete, TagsDelete, handles, file
  <1>3. CASE NextRow \/ NoRow \/ Writev \/ RowWritten \/ WriteFails \/ Leave
    BY <1>3 DEF NextRow, NoRow, Writev, RowWritten, WriteFails, Leave, handles, file
  <1>4. CASE Copied \/ Connect \/ Cancelled \/ DisplayLost \/ StartSend \/ Send \/ SendFails
    BY <1>4 DEF Copied, Connect, Cancelled, DisplayLost, StartSend, Send, SendFails, Dispatching, handles, file
  <1>5. CASE Environment \/ UNCHANGED vars
    BY <1>5 DEF Environment, OtherDeletes, Replace, Paste, GiveUp, Stall, vars, process, handles, file
  <1> QED BY <1>1, <1>2, <1>3, <1>4, <1>5 DEF Next, Process

-------------------------------------------------------------------------------
(* The payload.                                                                *)

\* An id is of one entry.
Keyed(entries) == \A e, f \in ToSet(entries) : e.id = f.id => e = f

\* The command line stays, and whatever is deleted, the entries that are left.
Entries == /\ IsLine(line) /\ orphans \in Seq(Seq(TagByte))
           /\ table \in Seq(Entry) /\ Keyed(table)

LEMMA EntriesStep ==
  ASSUME Entries, Next \/ UNCHANGED vars
  PROVE  Entries'
  <1>1. line' = line
    BY DEF Next, Process, Main, Args, SetSecureDelete, Prepare, StartQuery, Delete, TagsDelete, NextRow, NoRow,
           Writev, RowWritten, WriteFails, Leave, Copied, Connect, Cancelled, DisplayLost, StartSend, Send,
           SendFails, Dispatching, At, Environment, OtherDeletes, Replace, Paste, GiveUp, Stall, vars, process
  <1>2. CASE UNCHANGED <<table, orphans>>
    BY <1>1, <1>2 DEF Entries
  <1>3. ASSUME NEW i \in DOMAIN table, table' = RemoveAt(table, i), UNCHANGED orphans
        PROVE  Entries'
    <2>1. table' \in Seq(Entry) /\ ToSet(table') \subseteq ToSet(table)
      BY <1>3, Removed DEF Entries
    <2>2. Keyed(table)'
      BY <2>1 DEF Entries, Keyed
    <2> QED BY <1>1, <1>3, <2>1, <2>2 DEF Entries
  <1>4. CASE Delete
    <2>1. /\ UNCHANGED table \/ \E i \in DOMAIN table : table' = RemoveAt(table, i)
          /\ UNCHANGED orphans
      BY <1>4 DEF Delete
    <2> QED BY <1>2, <1>3, <2>1
  <1>5. CASE OtherDeletes
    BY <1>3, <1>5 DEF OtherDeletes
  <1> QED BY <1>2, <1>4, <1>5 DEF Next, Process, Main, Args, SetSecureDelete, Prepare, StartQuery, TagsDelete,
       NextRow, NoRow, Writev, RowWritten, WriteFails, Leave, Copied, Connect, Cancelled, DisplayLost, StartSend,
       Send, SendFails, Dispatching, Environment, Replace, Paste, GiveUp, Stall, vars, file

\* The query of cclip copy finds a payload, or nothing.
LEMMA CopyQuery ==
  ASSUME Entries, line.action = "copy", Query(line) # << >>
  PROVE  Head(Head(Query(line))) \in Seq(Byte)
  <1>1. Query(line) = EntryRow(line)
    BY DEF Query
  <1>2. EntryRow(line) \in Seq(OneColumn(Seq(Byte)))
    BY EntryRowType DEF Entries
  <1>3. Head(Query(line)) \in OneColumn(Seq(Byte))
    BY <1>1, <1>2
  <1>4. PICK row : row = Head(Query(line))
    OBVIOUS
  <1>5. row \in Seq(Seq(Byte)) /\ Len(row) = 1
    BY <1>3, <1>4 DEF OneColumn
  <1>6. Head(row) \in Seq(Byte)
    BY <1>5
  <1> QED BY <1>4, <1>6

\* What cclip copy holds is the payload its query found, or nothing.
LEMMA FoundStep ==
  ASSUME Handles, Entries, Found, Next \/ UNCHANGED vars
  PROVE  Found'
  <1>1. CASE StartQuery
    <2>1. /\ pc = "query" /\ UNCHANGED <<held, line>> /\ pc' \in {"step", "out"}
          /\ pc' = "step" => rows' = Query(line) /\ result' = Query(line)
      BY <1>1 DEF StartQuery, At, Goto, Out, copying
    <2>2. held = << >>
      BY <2>1 DEF Found
    <2>3. ASSUME pc' = "step", line.action = "copy", rows' # << >> PROVE Head(Head(rows')) \in Seq(Byte)
      BY <2>1, <2>3, CopyQuery
    <2> QED BY <2>1, <2>2, <2>3 DEF Found
  <1>2. CASE Copied
    <2>1. /\ pc = "step" /\ line.action = "copy" /\ rows # << >> /\ pc' = "connect"
          /\ held' = Head(Head(rows)) /\ result' = result
      BY <1>2 DEF Copied, At, Goto
    <2> QED BY <2>1 DEF Found
  <1>3. CASE UNCHANGED <<held, line, result>> /\ (pc' # "step" \/ line.action # "copy" \/ UNCHANGED <<pc, rows>>)
             /\ (pc \in {"connect", "serve", "exited", "killed"} => pc' \in {"connect", "serve", "exited", "killed"})
    BY <1>3 DEF Found
  <1>4. CASE NextRow \/ NoRow \/ Writev \/ RowWritten \/ WriteFails
    BY <1>3, <1>4 DEF NextRow, NoRow, Writev, RowWritten, WriteFails, At, Goto, Out, output, copying,
       Handles
  <1>5. CASE Main \/ Args \/ SetSecureDelete \/ Prepare \/ Delete \/ TagsDelete \/ Leave \/ Connect
    BY <1>3, <1>5 DEF Main, Args, SetSecureDelete, Prepare, Delete, TagsDelete, Leave, Connect,
       At, Goto, Out, Exit, output, copying, Handles
  <1>6. CASE Cancelled \/ DisplayLost \/ StartSend \/ Send \/ SendFails
    BY <1>3, <1>6 DEF Cancelled, DisplayLost, StartSend, Send, SendFails, Dispatching, At, Goto, Exit, output, copying
  <1>7. CASE Environment \/ UNCHANGED vars
    BY <1>3, <1>7 DEF Environment, OtherDeletes, Replace, Paste, GiveUp, Stall, vars, process, output, copying
  <1> QED BY <1>1, <1>2, <1>4, <1>5, <1>6, <1>7 DEF Next, Process

-------------------------------------------------------------------------------
(* What is printed.                                                            *)

\* The buffers for a row.
LEMMA IovType ==
  ASSUME NEW S, 9 \in S, 10 \in S, NEW columns \in Seq(Seq(S))
  PROVE  Iov(columns) \in Seq(Seq(S)) /\ Len(Iov(columns)) = 2 * Len(columns)
  <1>1. PICK n \in Nat : n = Len(columns)
    BY LenProperties
  <1>2. PICK m \in Nat : m = 2 * n
    <2>1. 2 * n \in Nat
      OBVIOUS
    <2> QED BY <2>1
  <1>3. ASSUME NEW k \in 1 .. m
        PROVE  (IF k % 2 = 1 THEN columns[(k + 1) \div 2] ELSE IF k < m THEN Tab ELSE NewLine) \in Seq(S)
    <2>1. CASE k % 2 = 1
      <3>1. (k + 1) \div 2 \in 1 .. n
        BY <1>2, <2>1
      <3>2. columns[(k + 1) \div 2] \in Seq(S)
        BY <1>1, <3>1
      <3> QED BY <2>1, <3>2
    <2>2. CASE k % 2 # 1
      <3>1. Tab \in Seq(S) /\ NewLine \in Seq(S)
        BY DEF Tab, NewLine
      <3> QED BY <2>2, <3>1
    <2> QED BY <2>1, <2>2
  <1>4. Iov(columns) = [k \in 1 .. m |-> IF k % 2 = 1 THEN columns[(k + 1) \div 2] ELSE IF k < m THEN Tab ELSE NewLine]
    BY <1>1, <1>2 DEF Iov
  <1>5. PICK v : v = Iov(columns)
    OBVIOUS
  <1>6. v \in [1 .. m -> Seq(S)]
    BY <1>3, <1>4, <1>5
  <1>7. v \in Seq(Seq(S)) /\ Len(v) = m
    BY <1>6
  <1> QED BY <1>1, <1>2, <1>5, <1>7

LEMMA PrintedType ==
  ASSUME NEW l, IsLine(l), NEW row \in Row(l)
  PROVE  Printed(row, l) \in Seq(Seq(Byte))
  <1>1. row \in Seq(Seq(Byte))
    BY RowFits
  <1>2. 9 \in Byte /\ 10 \in Byte
    BY DEF Byte
  <1>3. Iov(row) \in Seq(Seq(Byte))
    BY <1>1, <1>2, IovType
  <1> QED BY <1>1, <1>3 DEF Printed

\* The rows one after the other.
LEMMA WholeEmpty ==
  ASSUME NEW l
  PROVE  Whole(<< >>, l) = << >>
  <1>1. Mapped(<< >>, LAMBDA r : FlattenSeq(Printed(r, l))) = << >>
    BY DEF Mapped
  <1> QED BY <1>1, FlatEmpty DEF Whole

LineOf(row, l) == FlattenSeq(Printed(row, l))

LEMMA WholeText ==
  ASSUME NEW l, IsLine(l), NEW rs \in Seq(Row(l))
  PROVE  \E v \in Seq(Seq(Byte)) : /\ Whole(rs, l) = FlattenSeq(v) /\ Len(v) = Len(rs)
                                   /\ \A i \in 1 .. Len(rs) : v[i] = LineOf(rs[i], l)
  <1>1. PICK n \in Nat : n = Len(rs)
    BY LenProperties
  <1>2. PICK v : v = [i \in 1 .. n |-> LineOf(rs[i], l)]
    OBVIOUS
  <1>3. ASSUME NEW i \in 1 .. n PROVE LineOf(rs[i], l) \in Seq(Byte)
    <2>1. rs[i] \in Row(l)
      BY <1>1
    <2> QED BY <2>1, PrintedType, FlatType DEF LineOf
  <1>4. v \in [1 .. n -> Seq(Byte)]
    BY <1>2, <1>3
  <1>5. v \in Seq(Seq(Byte)) /\ Len(v) = n
    BY <1>4
  <1>6. DOMAIN rs = 1 .. n
    BY <1>1, LenProperties
  <1>7. Whole(rs, l) = FlattenSeq(v)
    BY <1>2, <1>6 DEF Whole, Mapped, LineOf
  <1>8. \A i \in 1 .. n : v[i] = LineOf(rs[i], l)
    BY <1>2
  <1> QED BY <1>1, <1>5, <1>7, <1>8

LEMMA WholeRows ==
  ASSUME NEW l, IsLine(l), NEW rs \in Seq(Row(l))
  PROVE  /\ Whole(rs, l) \in Seq(Byte)
         /\ rs # << >> => Whole(rs, l) = FlattenSeq(Printed(Head(rs), l)) \o Whole(Tail(rs), l)
  <1>1. Whole(rs, l) \in Seq(Byte)
    BY WholeText, FlatType
  <1>2. ASSUME rs # << >> PROVE Whole(rs, l) = LineOf(Head(rs), l) \o Whole(Tail(rs), l)
    <2>1. PICK n \in Nat \ {0} : n = Len(rs)
      BY <1>2, EmptySeq, LenProperties
    <2>2. PICK h, t : h = Head(rs) /\ t = Tail(rs)
      OBVIOUS
    <2>3. /\ h \in Row(l) /\ t \in Seq(Row(l)) /\ Len(t) = n - 1 /\ h = rs[1]
          /\ \A i \in 1 .. n - 1 : t[i] = rs[i + 1]
      BY <1>2, <2>1, <2>2, HeadTailProperties
    <2>4. PICK v \in Seq(Seq(Byte)) : /\ Whole(rs, l) = FlattenSeq(v) /\ Len(v) = n
                                      /\ \A i \in 1 .. n : v[i] = LineOf(rs[i], l)
      BY <2>1, WholeText
    <2>5. PICK w \in Seq(Seq(Byte)) : /\ Whole(t, l) = FlattenSeq(w) /\ Len(w) = n - 1
                                      /\ \A i \in 1 .. n - 1 : w[i] = LineOf(t[i], l)
      BY <2>3, WholeText
    <2>6. PICK x : x = LineOf(h, l)
      OBVIOUS
    <2>7. x \in Seq(Byte)
      BY <2>3, <2>6, PrintedType, FlatType DEF LineOf
    <2>8. PICK u : u = <<x>> \o w
      OBVIOUS
    <2>9. u \in Seq(Seq(Byte)) /\ Len(u) = n /\ u[1] = x /\ \A i \in 2 .. n : u[i] = w[i - 1]
      BY <2>5, <2>7, <2>8
    <2>10. ASSUME NEW i \in 1 .. n PROVE v[i] = u[i]
      <3>1. CASE i = 1
        BY <2>3, <2>4, <2>6, <2>9, <3>1
      <3>2. CASE i # 1
        <4>1. i \in 2 .. n /\ i - 1 \in 1 .. n - 1 /\ (i - 1) + 1 = i
          BY <3>2
        <4>2. t[i - 1] = rs[i]
          BY <2>3, <4>1
        <4>3. w[i - 1] = LineOf(rs[i], l) /\ u[i] = w[i - 1]
          BY <2>5, <2>9, <4>1, <4>2
        <4> QED BY <2>4, <4>3
      <3> QED BY <3>1, <3>2
    <2>11. v = u
      BY <2>4, <2>9, <2>10, SeqEqual
    <2>12. <<x>> \in Seq(Seq(Byte)) /\ FlattenSeq(<<x>>) = x
      BY <2>7, FlatOne
    <2>13. FlattenSeq(u) = x \o FlattenSeq(w)
      BY <2>5, <2>8, <2>12, FlatConcat
    <2> QED BY <2>2, <2>4, <2>5, <2>6, <2>11, <2>13
  <1> QED BY <1>1, <1>2 DEF LineOf

\* What has been written, what the buffers hold and the rows to come are the rows of the
\* query.
Printing ==
  /\ rows \in Seq(Row(line)) /\ result \in Seq(Row(line)) /\ iov \in Seq(Seq(Byte)) /\ out \in Seq(Byte)
  /\ line.action # "copy" => (out \o FlattenSeq(iov)) \o Whole(rows, line) = Whole(result, line)
  /\ pc \in {"main", "args", "pragma", "prepare", "query"} => out = << >> /\ rows = << >> /\ result = << >>
  /\ pc \notin {"write", "out", "exited", "killed"} => iov = << >>
  /\ pc \in {"connect", "serve"} => line.action = "copy"
  /\ pc \in {"out", "exited"} /\ code = 0 /\ line.action \in {"list", "tags"} => iov = << >> /\ rows = << >>

\* Bytes that have been written before others.
LEMMA Began ==
  ASSUME NEW S, NEW a \in Seq(S), NEW b \in Seq(S)
  PROVE  IsPrefix(a, a \o b)
  <1>1. PICK t : t = a \o b
    OBVIOUS
  <1>2. t \in Seq(S) /\ Len(t) = Len(a) + Len(b) /\ Len(a) \in Nat /\ Len(b) \in Nat
    BY <1>1, ConcatProperties, LenProperties
  <1>3. SubSeq(t, 1, Len(a)) = a /\ SubSeq(a, 1, Len(a)) = a
    BY <1>1
  <1> QED BY <1>1, <1>2, <1>3 DEF IsPrefix

\* The query.
LEMMA StartQueryPrinting ==
  ASSUME Handles, Entries, Printing, StartQuery
  PROVE  Printing'
  <1>1. /\ pc = "query" /\ line.action \in Reads /\ UNCHANGED <<line, iov, out>>
        /\ \/ pc' = "step" /\ rows' = Query(line) /\ result' = Query(line)
           \/ pc' = "out" /\ code' = 1 /\ UNCHANGED <<rows, result>>
    BY DEF StartQuery, At, Goto, Out
  <1>2. iov = << >> /\ out = << >>
    BY <1>1 DEF Printing
  <1>3. CASE pc' = "step"
    <2>1. PICK q : q = Query(line)
      OBVIOUS
    <2>2. q \in Seq(Row(line)) /\ Whole(q, line) \in Seq(Byte)
      BY <1>1, <2>1, QueryType, WholeRows DEF Entries
    <2>3. (<< >> \o FlattenSeq(<< >>)) \o Whole(q, line) = Whole(q, line)
      <3>1. << >> \o << >> = << >>
        BY << >> \in Seq(Byte), ConcatEmptySeq
      <3> QED BY <2>2, <3>1, FlatEmpty, ConcatEmptySeq
    <2> QED BY <1>1, <1>2, <1>3, <2>1, <2>2, <2>3 DEF Printing
  <1>4. CASE pc' = "out"
    BY <1>1, <1>4 DEF Printing
  <1> QED BY <1>1, <1>3, <1>4

\* The next row.
LEMMA NextRowPrinting ==
  ASSUME Handles, Entries, Printing, NextRow
  PROVE  Printing'
  <1>1. /\ pc = "step" /\ rows # << >> /\ line.action # "copy" /\ pc' = "write"
        /\ iov' = Printed(Head(rows), line) /\ rows' = Tail(rows) /\ UNCHANGED <<line, result, out>>
    BY DEF NextRow, At, Goto
  <1>2. iov = << >>
    BY <1>1 DEF Printing
  <1>3. rows \in Seq(Row(line)) /\ result \in Seq(Row(line)) /\ out \in Seq(Byte) /\ IsLine(line)
    BY DEF Printing, Entries
  <1>4. Head(rows) \in Row(line) /\ Tail(rows) \in Seq(Row(line))
    BY <1>1, <1>3, HeadTailProperties
  <1>5. iov' \in Seq(Seq(Byte))
    BY <1>1, <1>3, <1>4, PrintedType
  <1>6. PICK f, w : f = FlattenSeq(iov') /\ w = Whole(Tail(rows), line)
    OBVIOUS
  <1>7. f \in Seq(Byte) /\ w \in Seq(Byte)
    BY <1>3, <1>4, <1>5, <1>6, FlatType, WholeRows
  <1>8. Whole(rows, line) = f \o w
    BY <1>1, <1>3, <1>6, WholeRows
  <1>9. out \o Whole(rows, line) = Whole(result, line)
    <2>1. (out \o FlattenSeq(iov)) \o Whole(rows, line) = Whole(result, line)
      BY <1>1 DEF Printing
    <2>2. out \o FlattenSeq(iov) = out
      BY <1>2, <1>3, FlatEmpty, ConcatEmptySeq
    <2> QED BY <2>1, <2>2
  <1>10. (out \o f) \o w = Whole(result, line)
    <2>1. Reassociated(out, f, w)
      BY <1>3, <1>7, ThreeInARow
    <2> QED BY <1>8, <1>9, <2>1 DEF Reassociated
  <1> QED BY <1>1, <1>3, <1>4, <1>5, <1>6, <1>10 DEF Printing

\* One writev.
LEMMA WritevPrinting ==
  ASSUME Handles, Printing, Writev
  PROVE  Printing'
  <1>1. PICK n \in 1 .. Len(FlattenSeq(iov)) : out' = out \o SubSeq(FlattenSeq(iov), 1, n) /\ iov' = Remaining(iov, n)
    BY DEF Writev
  <1>2. pc = "write" /\ UNCHANGED <<line, pc, code, rows, result>>
    BY DEF Writev, At
  <1>3. iov \in Seq(Seq(Byte)) /\ out \in Seq(Byte)
    BY DEF Printing
  <1>4. PICK f, x, y : f = FlattenSeq(iov) /\ x = SubSeq(f, 1, n) /\ y = FlattenSeq(iov')
    OBVIOUS
  <1>5. iov' \in Seq(Seq(Byte)) /\ f = x \o y
    BY <1>1, <1>3, <1>4, RemainingBytes
  <1>6. f \in Seq(Byte) /\ y \in Seq(Byte)
    BY <1>3, <1>4, <1>5, FlatType
  <1>7. x \in Seq(Byte)
    <2>1. n \in 0 .. Len(f)
      BY <1>4
    <2> QED BY <1>4, <1>6, <2>1, PrefixOf
  <1>8. out' = out \o x /\ out' \in Seq(Byte)
    BY <1>1, <1>3, <1>4, <1>7, ConcatProperties
  <1>9. out \o f = out' \o y
    <2>1. Reassociated(out, x, y)
      BY <1>3, <1>6, <1>7, ThreeInARow
    <2> QED BY <1>5, <1>8, <2>1 DEF Reassociated
  <1> QED BY <1>2, <1>4, <1>5, <1>8, <1>9 DEF Printing

LEMMA PrintingStep ==
  ASSUME Handles, Entries, Printing, Next \/ UNCHANGED vars
  PROVE  Printing'
  <1>1. CASE Main \/ Args \/ SetSecureDelete \/ Prepare \/ Delete \/ TagsDelete
    BY <1>1 DEF Main, Args, SetSecureDelete, Prepare, Delete, TagsDelete, At, Goto, Out, Exit, output, Printing
  <1>2. CASE NoRow \/ RowWritten \/ WriteFails
    <2>1. /\ UNCHANGED <<line, rows, result, iov, out>> /\ pc \in {"step", "write"} /\ pc' \in {"out", "step", "killed"}
          /\ pc' = "step" => iov = << >>
          /\ pc' = "out" /\ code' = 0 /\ line.action \in {"list", "tags"} => pc = "step" /\ rows = << >>
      <3>1. CASE NoRow
        BY <3>1 DEF NoRow, At, Out, output
      <3>2. CASE RowWritten
        BY <3>2 DEF RowWritten, At, Goto, Out, output
      <3>3. CASE WriteFails
        BY <3>3 DEF WriteFails, At, Goto, Out, output
      <3> QED BY <1>2, <3>1, <3>2, <3>3
    <2> QED BY <2>1 DEF Printing
  <1>3. CASE Leave \/ Connect \/ DisplayLost
    BY <1>3 DEF Leave, Connect, DisplayLost, Dispatching, At, Goto, Exit, output, Printing
  <1>4. CASE Copied
    <2>1. /\ pc = "step" /\ line.action = "copy" /\ rows # << >> /\ rows' = Tail(rows) /\ pc' = "connect"
          /\ UNCHANGED <<line, result, iov, out>>
      BY <1>4 DEF Copied, At, Goto
    <2>2. Tail(rows) \in Seq(Row(line))
      BY <2>1, HeadTailProperties DEF Printing
    <2> QED BY <2>1, <2>2 DEF Printing
  <1>5. CASE Cancelled \/ StartSend \/ Send \/ SendFails
    BY <1>5 DEF Cancelled, StartSend, Send, SendFails, Dispatching, At, Goto, Exit, output, Printing
  <1>6. CASE Environment \/ UNCHANGED vars
    BY <1>6 DEF Environment, OtherDeletes, Replace, Paste, GiveUp, Stall, vars, process, output, Printing
  <1> QED BY <1>1, <1>2, <1>3, <1>4, <1>5, <1>6, StartQueryPrinting, NextRowPrinting, WritevPrinting DEF Next, Process

\* cclip list does not print without fields.
Listing == /\ line.action = "list" /\ line.usage = "ok"
           /\ \/ pc \in {"pragma", "prepare", "query", "step", "write"}
              \/ pc \in {"out", "exited"} /\ code = 0
           => Fields(line) # << >>

LEMMA ListingStep ==
  ASSUME Printing, Listing, Next \/ UNCHANGED vars
  PROVE  Listing'
  <1>1. CASE Args
    BY <1>1 DEF Args, ValidLine, At, Goto, Out, Listing
  <1>2. CASE Main \/ SetSecureDelete \/ Prepare \/ StartQuery \/ Delete \/ TagsDelete
    BY <1>2 DEF Main, SetSecureDelete, Prepare, StartQuery, Delete, TagsDelete, At, Goto, Out, Exit, Listing
  <1>3. CASE NextRow \/ NoRow \/ Writev \/ RowWritten \/ WriteFails \/ Leave
    BY <1>3 DEF NextRow, NoRow, Writev, RowWritten, WriteFails, Leave, At, Goto, Out, Listing
  <1>4. CASE Copied \/ Connect \/ Cancelled \/ DisplayLost \/ StartSend \/ Send \/ SendFails
    BY <1>4 DEF Copied, Connect, Cancelled, DisplayLost, StartSend, Send, SendFails, Dispatching, At, Goto, Exit,
       Printing, Listing
  <1>5. CASE Environment \/ UNCHANGED vars
    BY <1>5 DEF Environment, OtherDeletes, Replace, Paste, GiveUp, Stall, vars, process, Listing
  <1> QED BY <1>1, <1>2, <1>3, <1>4, <1>5 DEF Next, Process

\* The rows of a list are those of the entries the statement saw.
Imaged ==
  /\ image \in Seq(Entry) /\ Keyed(image)
  /\ /\ line.action = "list"
     /\ \/ pc \in {"step", "write"}
        \/ pc \in {"out", "exited"} /\ code = 0 /\ line.usage = "ok"
     => result = ListRows(image, line)

LEMMA ImagedStep ==
  ASSUME Entries, Printing, Imaged, Next \/ UNCHANGED vars
  PROVE  Imaged'
  <1>1. ASSUME UNCHANGED <<line, image, result>>,
               line.action = "list",
               pc' \in {"step", "write"} => pc \in {"step", "write"},
               pc' \in {"out", "exited"} /\ code' = 0 /\ line.usage = "ok"
                 => pc \in {"step", "write"} \/ (pc \in {"out", "exited"} /\ code = 0)
        PROVE  Imaged'
    BY <1>1 DEF Imaged, Keyed
  <1>2. ASSUME UNCHANGED <<line, image, result>>, line.action # "list" PROVE Imaged'
    BY <1>2 DEF Imaged, Keyed
  <1>3. CASE StartQuery
    <2>1. /\ UNCHANGED line
          /\ \/ pc' = "step" /\ result' = Query(line) /\ image' = table
             \/ pc' = "out" /\ code' = 1 /\ UNCHANGED <<image, result>>
      BY <1>3 DEF StartQuery, At, Goto, Out
    <2>2. CASE pc' = "step"
      <3>1. line.action = "list" => Query(line) = ListRows(table, line)
        BY DEF Query
      <3>2. table \in Seq(Entry) /\ Keyed(table)
        BY DEF Entries
      <3>3. image' \in Seq(Entry) /\ Keyed(image)'
        BY <2>1, <2>2, <3>2 DEF Keyed
      <3>4. line.action = "list" => result' = ListRows(image', line')
        BY <2>1, <2>2, <3>1
      <3> QED BY <2>1, <3>3, <3>4 DEF Imaged
    <2>3. CASE pc' = "out"
      BY <1>1, <1>2, <2>1, <2>3
    <2> QED BY <2>1, <2>2, <2>3
  <1>4. CASE Main \/ Args \/ SetSecureDelete \/ Prepare \/ Delete \/ TagsDelete
    BY <1>1, <1>2, <1>4 DEF Main, Args, SetSecureDelete, Prepare, Delete, TagsDelete, ValidLine, At, Goto, Out, Exit, output
  <1>5. CASE NextRow \/ NoRow \/ Writev \/ RowWritten \/ WriteFails \/ Leave
    BY <1>1, <1>2, <1>5 DEF NextRow, NoRow, Writev, RowWritten, WriteFails, Leave, At, Goto, Out, output
  <1>6. CASE Copied \/ Connect \/ Cancelled \/ DisplayLost \/ StartSend \/ Send \/ SendFails
    BY <1>1, <1>2, <1>6 DEF Copied, Connect, Cancelled, DisplayLost, StartSend, Send, SendFails, Dispatching, At, Goto,
       Exit, output, Printing
  <1>7. CASE Environment \/ UNCHANGED vars
    BY <1>1, <1>2, <1>7 DEF Environment, OtherDeletes, Replace, Paste, GiveUp, Stall, vars, process, output
  <1> QED BY <1>3, <1>4, <1>5, <1>6, <1>7 DEF Next, Process

-------------------------------------------------------------------------------
(* Taking lines apart.                                                         *)

\* The parts before, with one more byte.
LEMMA StepOf ==
  ASSUME NEW p \in Seq(Seq(Byte)), NEW w \in Seq(Byte), NEW at, NEW b \in Byte
  PROVE  SplitStep(Append(p, w), at, b) = IF b = at THEN Append(Append(p, w), << >>) ELSE Append(p, Append(w, b))
  <1>1. PICK s : s = Append(p, w)
    OBVIOUS
  <1>2. PICK n \in Nat : n = Len(p)
    BY LenProperties
  <1>3. s \in Seq(Seq(Byte)) /\ Len(s) = n + 1 /\ s[n + 1] = w /\ \A i \in 1 .. n : s[i] = p[i]
    BY <1>1, <1>2, AppendProperties
  <1>4. Last(s) = w
    BY <1>3 DEF Last
  <1>5. Front(s) = p
    <2>1. (n + 1) - 1 = n
      OBVIOUS
    <2>2. Front(s) = SubSeq(s, 1, n)
      BY <1>3, <2>1 DEF Front
    <2>3. SubSeq(s, 1, n) = p
      BY <1>1, <1>2
    <2> QED BY <2>2, <2>3
  <1> QED BY <1>1, <1>4, <1>5 DEF SplitStep

\* Parts are never none.
Parts == {Append(p, w) : p \in Seq(Seq(Byte)), w \in Seq(Byte)}

LEMMA PartsOf ==
  ASSUME NEW p \in Seq(Seq(Byte)), NEW w \in Seq(Byte)
  PROVE  Append(p, w) \in Parts
  BY DEF Parts

LEMMA StepType ==
  ASSUME NEW parts \in Parts, NEW at, NEW b \in Byte
  PROVE  SplitStep(parts, at, b) \in Parts
  <1>1. PICK p \in Seq(Seq(Byte)), w \in Seq(Byte) : parts = Append(p, w)
    BY DEF Parts
  <1>2. Append(p, w) \in Seq(Seq(Byte)) /\ Append(w, b) \in Seq(Byte) /\ << >> \in Seq(Byte)
    BY AppendProperties
  <1>3. SplitStep(parts, at, b) = IF b = at THEN Append(Append(p, w), << >>) ELSE Append(p, Append(w, b))
    BY <1>1, StepOf
  <1>4. Append(Append(p, w), << >>) \in Parts
    BY <1>2, PartsOf
  <1>5. Append(p, Append(w, b)) \in Parts
    BY <1>2, PartsOf
  <1> QED BY <1>3, <1>4, <1>5

\* What Split goes through.
IsSplit(s, at, parts) ==
  /\ parts[0] = << << >> >>
  /\ \A i \in 1 .. Len(s) : parts[i - 1] \in Parts /\ parts[i] = SplitStep(parts[i - 1], at, s[i])
  /\ parts[Len(s)] = Split(s, at)

LEMMA SplitParts ==
  ASSUME NEW s \in Seq(Byte), NEW at
  PROVE  \E parts : IsSplit(s, at, parts)
  <1> DEFINE Loop(t) == t = [i \in 0 .. Len(s) |-> IF i = 0 THEN << << >> >> ELSE SplitStep(t[i - 1], at, s[i])]
  <1> PICK l \in Nat : l = Len(s)
    BY LenProperties
  <1>0. PICK S, none : S = Parts /\ l = Len(s) /\ none = << << >> >>
    OBVIOUS
  <1>1. PICK G : G = [i \in 1 .. l |-> [t \in S |-> SplitStep(t, at, s[i])]]
    OBVIOUS
  <1>2. ASSUME NEW i \in 1 .. l, NEW t \in S PROVE SplitStep(t, at, s[i]) \in S
    <2>1. s[i] \in Byte
      BY <1>0
    <2> QED BY <1>0, <2>1, StepType
  <1>3. none \in S
    <2>1. << >> \in Seq(Seq(Byte)) /\ << >> \in Seq(Byte)
      OBVIOUS
    <2>2. none = Append(<< >>, << >>)
      BY <1>0
    <2>3. Append(<< >>, << >>) \in Parts
      BY <2>1, PartsOf
    <2> QED BY <1>0, <2>2, <2>3
  <1>4. PICK f \in Runs(l, S, none, G) : TRUE
    <2>1. G \in Steps(l, S)
      BY <1>1, <1>2 DEF Steps
    <2> QED BY <1>3, <2>1, Recursion
  <1>5. \A i \in 1 .. l : f[i - 1] \in S /\ f[i] = SplitStep(f[i - 1], at, s[i])
    <2> SUFFICES ASSUME NEW i \in 1 .. l
                 PROVE  f[i - 1] \in S /\ f[i] = SplitStep(f[i - 1], at, s[i])
      OBVIOUS
    <2>1. f[i - 1] \in S /\ f[i] = G[i][f[i - 1]]
      BY <1>4 DEF Runs
    <2> QED BY <1>1, <2>1
  <1>6. Loop(f)
    <2>1. f \in [0 .. l -> S] /\ f[0] = none
      BY <1>4 DEF Runs
    <2>2. f = [i \in 0 .. l |-> IF i = 0 THEN none ELSE SplitStep(f[i - 1], at, s[i])]
      BY <1>5, <2>1
    <2> QED BY <1>0, <2>2
  <1>7. PICK parts : parts = CHOOSE t : Loop(t)
    OBVIOUS
  <1>8. Loop(parts)
    BY <1>6, <1>7
  <1>9. Split(s, at) = parts[Len(s)]
    BY <1>7 DEF Split
  <1>10. parts[0] = none /\ \A i \in 1 .. l : parts[i] = SplitStep(parts[i - 1], at, s[i])
    <2>1. parts = [i \in 0 .. l |-> IF i = 0 THEN none ELSE SplitStep(parts[i - 1], at, s[i])]
      BY <1>0, <1>8
    <2> QED BY <2>1
  <1>11. \A i \in 0 .. l : parts[i] \in S
    <2>1. PICK T : T = {i \in 0 .. l : parts[i] \in S}
      OBVIOUS
    <2>2. 0 \in T
      BY <1>3, <1>10, <2>1
    <2>3. ASSUME NEW i \in 1 .. l, i - 1 \in T PROVE i \in T
      BY <1>2, <1>10, <2>1, <2>3
    <2>4. \A i \in 0 .. l : i \in T
      BY <2>2, <2>3, Induction
    <2> QED BY <2>1, <2>4
  <1> QED BY <1>0, <1>9, <1>10, <1>11 DEF IsSplit

LEMMA SplitEmpty ==
  ASSUME NEW at
  PROVE  Split(<< >>, at) = << << >> >>
  <1>1. PICK parts : IsSplit(<< >>, at, parts)
    BY << >> \in Seq(Byte), SplitParts
  <1> QED BY <1>1 DEF IsSplit

\* One more byte, one more step.
LEMMA SplitAppend ==
  ASSUME NEW s \in Seq(Byte), NEW b \in Byte, NEW at
  PROVE  Split(Append(s, b), at) = SplitStep(Split(s, at), at, b)
  <1>1. PICK u, l : u = Append(s, b) /\ l = Len(s)
    OBVIOUS
  <1>2. /\ u \in Seq(Byte) /\ l \in Nat /\ Len(u) = l + 1
        /\ (\A i \in 1 .. l : u[i] = s[i]) /\ u[l + 1] = b
    BY <1>1, AppendProperties, LenProperties
  <1>3. PICK v : IsSplit(s, at, v)
    BY SplitParts
  <1>4. PICK w : IsSplit(u, at, w)
    BY <1>2, SplitParts
  <1>5. PICK T : T = {i \in 0 .. l : v[i] = w[i]}
    OBVIOUS
  <1>6. 0 \in T
    <2>1. v[0] = w[0]
      BY <1>3, <1>4 DEF IsSplit
    <2> QED BY <1>2, <1>5, <2>1
  <1>7. ASSUME NEW i \in 1 .. l, i - 1 \in T PROVE i \in T
    <2>1. i \in 1 .. Len(s) /\ i \in 1 .. Len(u) /\ i \in 0 .. l
      BY <1>1, <1>2
    <2>2. v[i] = SplitStep(v[i - 1], at, s[i])
      BY <1>3, <2>1 DEF IsSplit
    <2>3. w[i] = SplitStep(w[i - 1], at, u[i])
      BY <1>4, <2>1 DEF IsSplit
    <2>4. v[i] = w[i]
      BY <1>2, <1>5, <1>7, <2>2, <2>3
    <2> QED BY <1>5, <2>1, <2>4
  <1>8. v[l] = w[l] /\ v[l] = Split(s, at)
    <2>1. \A i \in 0 .. l : i \in T
      BY <1>2, <1>6, <1>7, Induction
    <2>2. l \in T
      BY <1>2, <2>1
    <2> QED BY <1>1, <1>3, <1>5, <2>2 DEF IsSplit
  <1>9. w[l + 1] = SplitStep(w[l], at, b) /\ w[l + 1] = Split(u, at)
    <2>1. l + 1 \in 1 .. Len(u) /\ (l + 1) - 1 = l
      BY <1>2
    <2> QED BY <1>2, <1>4, <2>1 DEF IsSplit
  <1> QED BY <1>1, <1>8, <1>9

\* One more at the end of both.
Appended(s, c, b) == s \o Append(c, b) = Append(s \o c, b)

LEMMA AppendLast ==
  ASSUME NEW S, NEW s \in Seq(S), NEW c \in Seq(S), NEW b \in S
  PROVE  Appended(s, c, b)
  <1>1. s \o Append(c, b) = Append(s \o c, b)
    OBVIOUS
  <1> QED BY <1>1 DEF Appended

\* Bytes other than the separator make the last part longer.
LEMMA SplitConcat ==
  ASSUME NEW s \in Seq(Byte), NEW at, NEW p \in Seq(Seq(Byte)), NEW w \in Seq(Byte), Split(s, at) = Append(p, w),
         NEW u \in Seq(Byte \ {at})
  PROVE  Split(s \o u, at) = Append(p, w \o u)
  <1>1. PICK l \in Nat : l = Len(u)
    BY LenProperties
  <1>2. u \in Seq(Byte)
    BY WiderSeq
  <1>3. PICK T : T = {k \in 0 .. l : Split(s \o SubSeq(u, 1, k), at) = Append(p, w \o SubSeq(u, 1, k))}
    OBVIOUS
  <1>4. 0 \in T
    <2>1. SubSeq(u, 1, 0) = << >>
      BY SubSeqEmpty
    <2>2. s \o << >> = s /\ w \o << >> = w
      BY ConcatEmptySeq
    <2>3. Split(s \o SubSeq(u, 1, 0), at) = Append(p, w \o SubSeq(u, 1, 0))
      BY <2>1, <2>2
    <2>4. 0 \in 0 .. l
      OBVIOUS
    <2> QED BY <1>3, <2>3, <2>4, Zenon
  <1>5. ASSUME NEW k \in 1 .. l, k - 1 \in T PROVE k \in T
    <2>1. PICK c, b : c = SubSeq(u, 1, k - 1) /\ b = u[k]
      OBVIOUS
    <2>2. c \in Seq(Byte) /\ SubSeq(u, 1, k) = Append(c, b) /\ b \in Byte
      BY <1>1, <1>2, <2>1, PrefixAppend
    <2>3. b # at
      <3>1. u[k] \in Byte \ {at}
        BY <1>1
      <3> QED BY <2>1, <3>1
    <2>4. Split(s \o c, at) = Append(p, w \o c)
      BY <1>3, <1>5, <2>1
    <2>5. PICK d \in Seq(Byte), e \in Seq(Byte) : d = s \o c /\ e = w \o c
      BY <2>2, ConcatProperties
    <2>6. s \o Append(c, b) = Append(s \o c, b) /\ w \o Append(c, b) = Append(w \o c, b)
      <3>1. c \in Seq(Byte) /\ b \in Byte
        BY <2>2
      <3>2. Appended(s, c, b) /\ Appended(w, c, b)
        BY <3>1, AppendLast
      <3> QED BY <3>2 DEF Appended
    <2>7. Split(Append(d, b), at) = SplitStep(Split(d, at), at, b)
      BY <2>2, SplitAppend
    <2>8. SplitStep(Append(p, e), at, b) = Append(p, Append(e, b))
      BY <2>2, <2>3, StepOf, SMTT(20)
    <2>9. Split(s \o SubSeq(u, 1, k), at) = Append(p, w \o SubSeq(u, 1, k))
      BY <2>2, <2>4, <2>5, <2>6, <2>7, <2>8
    <2>10. k \in 0 .. l
      OBVIOUS
    <2> QED BY <1>3, <2>9, <2>10, Zenon
  <1>6. l \in T
    <2>1. \A i \in 0 .. l : i \in T
      BY <1>4, <1>5, Induction
    <2> QED BY <2>1
  <1>7. SubSeq(u, 1, l) = u
    BY <1>1, SubSeqFull
  <1> QED BY <1>3, <1>6, <1>7

\* The separator begins the next part.
LEMMA SplitAt ==
  ASSUME NEW s \in Seq(Byte), NEW at \in Byte, NEW p \in Seq(Seq(Byte)), NEW w \in Seq(Byte),
         Split(s, at) = Append(p, w)
  PROVE  Split(Append(s, at), at) = Append(Append(p, w), << >>)
  <1>1. Split(Append(s, at), at) = SplitStep(Append(p, w), at, at)
    BY SplitAppend
  <1> QED BY <1>1, StepOf

\* A line of columns without tabs: taken apart at the tabs it is the columns, and its only
\* newline is its last byte.
IsLineOf(row, text) == \E body \in Seq(Byte \ {10}) : text = Append(body, 10) /\ Split(body, 9) = row

\* The buffers of one more column.
LEMMA ColumnText ==
  ASSUME NEW row \in Seq(Seq(Byte)), NEW j \in 1 .. Len(row)
  PROVE  FlattenSeq(SubSeq(Iov(row), 1, 2 * j))
           = Append(FlattenSeq(SubSeq(Iov(row), 1, 2 * (j - 1))) \o row[j], IF j < Len(row) THEN 9 ELSE 10)
  <1>1. PICK n \in Nat : n = Len(row)
    BY LenProperties
  <1>2. PICK m \in Nat : m = 2 * n
    <2>1. 2 * n \in Nat
      OBVIOUS
    <2> QED BY <2>1
  <1>3. PICK iv, c : iv = Iov(row) /\ c = row[j]
    OBVIOUS
  <1>4. PICK after : after = IF j < n THEN 9 ELSE 10
    OBVIOUS
  <1>5. /\ iv \in Seq(Seq(Byte)) /\ Len(iv) = m
        /\ \A i \in 1 .. m : iv[i] = IF i % 2 = 1 THEN row[(i + 1) \div 2] ELSE IF i < m THEN Tab ELSE NewLine
    <2>1. 9 \in Byte /\ 10 \in Byte
      BY DEF Byte
    <2>2. iv \in Seq(Seq(Byte)) /\ Len(iv) = m
      BY <1>1, <1>2, <1>3, <2>1, IovType
    <2>3. iv = [i \in 1 .. m |-> IF i % 2 = 1 THEN row[(i + 1) \div 2] ELSE IF i < m THEN Tab ELSE NewLine]
      BY <1>1, <1>2, <1>3 DEF Iov
    <2> QED BY <2>2, <2>3
  <1>6. PICK e, d : e = 2 * j - 1 /\ d = 2 * j
    OBVIOUS
  <1>7. /\ e \in 1 .. m /\ d \in 1 .. m /\ e % 2 = 1 /\ (e + 1) \div 2 = j /\ d % 2 # 1 /\ (d < m <=> j < n)
        /\ d - 1 = e /\ e - 1 = 2 * (j - 1) /\ d \in 1 .. Len(iv) /\ e \in 1 .. Len(iv)
    BY <1>1, <1>2, <1>5, <1>6
  <1>8. iv[e] = c /\ iv[d] = <<after>>
    BY <1>3, <1>4, <1>5, <1>7 DEF Tab, NewLine
  <1>9. PICK x, y, z : x = SubSeq(iv, 1, e - 1) /\ y = SubSeq(iv, 1, e) /\ z = SubSeq(iv, 1, d)
    OBVIOUS
  <1>10. x \in Seq(Seq(Byte)) /\ y = Append(x, c)
    <2>1. iv \in Seq(Seq(Byte)) /\ e \in 1 .. Len(iv)
      BY <1>5, <1>7
    <2>2. SubSeq(iv, 1, e - 1) \in Seq(Seq(Byte)) /\ SubSeq(iv, 1, e) = Append(SubSeq(iv, 1, e - 1), iv[e])
      BY <2>1, PrefixAppend
    <2> QED BY <1>8, <1>9, <2>2
  <1>11. y \in Seq(Seq(Byte)) /\ z = Append(y, <<after>>)
    <2>1. iv \in Seq(Seq(Byte)) /\ d \in 1 .. Len(iv)
      BY <1>5, <1>7
    <2>2. SubSeq(iv, 1, d - 1) \in Seq(Seq(Byte)) /\ SubSeq(iv, 1, d) = Append(SubSeq(iv, 1, d - 1), iv[d])
      BY <2>1, PrefixAppend
    <2> QED BY <1>7, <1>8, <1>9, <2>2
  <1>12. c \in Seq(Byte) /\ after \in Byte /\ <<after>> \in Seq(Byte)
    BY <1>3, <1>4 DEF Byte
  <1>13. FlattenSeq(y) = FlattenSeq(x) \o c
    BY <1>10, <1>12, FlatAppend
  <1>14. FlattenSeq(z) = FlattenSeq(y) \o <<after>>
    BY <1>11, <1>12, FlatAppend
  <1>15. FlattenSeq(y) \o <<after>> = Append(FlattenSeq(y), after)
    <2>1. PICK s : s = FlattenSeq(y)
      OBVIOUS
    <2>2. s \in Seq(Byte)
      BY <1>11, <2>1, FlatType
    <2>3. s \o <<after>> = Append(s, after)
      BY <1>12, <2>2
    <2> QED BY <2>1, <2>3
  <1>16. x = SubSeq(Iov(row), 1, 2 * (j - 1)) /\ z = SubSeq(Iov(row), 1, 2 * j)
    BY <1>3, <1>6, <1>7, <1>9
  <1>17. FlattenSeq(z) = Append(FlattenSeq(x) \o c, after)
    BY <1>13, <1>14, <1>15
  <1> QED BY <1>1, <1>3, <1>4, <1>16, <1>17

\* The first columns of a line, each with the tab after it.
ColumnsOf(row, k, s) == /\ s \in Seq(Byte \ {10}) /\ s = FlattenSeq(SubSeq(Iov(row), 1, 2 * k))
                        /\ Split(s, 9) = Append(SubSeq(row, 1, k), << >>)

\* One more column, before the byte after it.
LEMMA NextColumn ==
  ASSUME NEW row \in Seq(Seq(Byte \ {9, 10})), NEW j \in 1 .. Len(row), NEW a, ColumnsOf(row, j - 1, a)
  PROVE  \E s \in Seq(Byte \ {10}) :
           /\ FlattenSeq(SubSeq(Iov(row), 1, 2 * j)) = Append(s, IF j < Len(row) THEN 9 ELSE 10)
           /\ Split(s, 9) = SubSeq(row, 1, j) /\ SubSeq(row, 1, j) = Append(SubSeq(row, 1, j - 1), row[j])
           /\ SubSeq(row, 1, j - 1) \in Seq(Seq(Byte)) /\ row[j] \in Seq(Byte)
  <1>1. PICK C, b, c : C = Byte \ {10} /\ b = SubSeq(row, 1, j - 1) /\ c = row[j]
    OBVIOUS
  <1>2. row \in Seq(Seq(Byte)) /\ C \subseteq Byte
    <2>1. Byte \ {9, 10} \subseteq Byte /\ C \subseteq Byte
      BY <1>1
    <2>2. Seq(Byte \ {9, 10}) \subseteq Seq(Byte)
      BY <2>1
    <2> QED BY <2>1, <2>2, WiderSeq
  <1>3. a \in Seq(C) /\ a \in Seq(Byte) /\ Split(a, 9) = Append(b, << >>)
    <2>1. a \in Seq(C) /\ Split(a, 9) = Append(b, << >>)
      BY <1>1 DEF ColumnsOf
    <2> QED BY <1>2, <2>1, WiderSeq
  <1>4. b \in Seq(Seq(Byte)) /\ SubSeq(row, 1, j) = Append(b, c)
    BY <1>1, <1>2, PrefixAppend
  <1>5. c \in Seq(C) /\ c \in Seq(Byte) /\ c \in Seq(Byte \ {9})
    <2>1. c \in Seq(Byte \ {9, 10})
      BY <1>1
    <2>2. Byte \ {9, 10} \subseteq C /\ Byte \ {9, 10} \subseteq Byte /\ Byte \ {9, 10} \subseteq Byte \ {9}
      BY <1>1
    <2> QED BY <2>1, <2>2, WiderSeq
  <1>6. PICK s : s = a \o c
    OBVIOUS
  <1>7. s \in Seq(C)
    BY <1>3, <1>5, <1>6, ConcatProperties
  <1>8. Split(s, 9) = Append(b, c)
    <2>1. PICK w \in Seq(Byte) : w = << >>
      <3>1. << >> \in Seq(Byte)
        OBVIOUS
      <3> QED BY <3>1
    <2>2. w \o c = c
      BY <1>5, <2>1, ConcatEmptySeq
    <2>3. a \in Seq(Byte) /\ b \in Seq(Seq(Byte)) /\ c \in Seq(Byte \ {9}) /\ Split(a, 9) = Append(b, w)
      BY <1>3, <1>4, <1>5, <2>1
    <2>4. Split(a \o c, 9) = Append(b, w \o c)
      BY <2>3, SplitConcat
    <2> QED BY <1>6, <2>2, <2>4
  <1>9. FlattenSeq(SubSeq(Iov(row), 1, 2 * j)) = Append(s, IF j < Len(row) THEN 9 ELSE 10)
    <2>1. FlattenSeq(SubSeq(Iov(row), 1, 2 * j))
            = Append(FlattenSeq(SubSeq(Iov(row), 1, 2 * (j - 1))) \o row[j], IF j < Len(row) THEN 9 ELSE 10)
      BY <1>2, ColumnText
    <2>2. a = FlattenSeq(SubSeq(Iov(row), 1, 2 * (j - 1)))
      BY DEF ColumnsOf
    <2> QED BY <1>1, <1>6, <2>1, <2>2
  <1> QED BY <1>1, <1>4, <1>5, <1>7, <1>8, <1>9

LEMMA Columns ==
  ASSUME NEW row \in Seq(Seq(Byte \ {9, 10})), NEW n \in Nat, n + 1 = Len(row)
  PROVE  \E s : ColumnsOf(row, n, s)
  <1>1. PICK T : T = {j \in 0 .. n : \E s : ColumnsOf(row, j, s)}
    OBVIOUS
  <1>2. 0 \in T
    <2>1. SubSeq(Iov(row), 1, 2 * 0) = << >> /\ SubSeq(row, 1, 0) = << >>
      BY SubSeqEmpty
    <2>2. Split(<< >>, 9) = Append(<< >>, << >>)
      BY SplitEmpty
    <2>3. << >> \in Seq(Byte \ {10})
      OBVIOUS
    <2>4. ColumnsOf(row, 0, << >>)
      BY <2>1, <2>2, <2>3, FlatEmpty DEF ColumnsOf
    <2>5. 0 \in 0 .. n
      OBVIOUS
    <2> QED BY <1>1, <2>4, <2>5
  <1>3. ASSUME NEW j \in 1 .. n, j - 1 \in T PROVE j \in T
    <2>1. PICK a : ColumnsOf(row, j - 1, a)
      BY <1>1, <1>3
    <2>2. j \in 1 .. Len(row) /\ j < Len(row) /\ j \in 0 .. n
      OBVIOUS
    <2>3. PICK s \in Seq(Byte \ {10}) :
            /\ FlattenSeq(SubSeq(Iov(row), 1, 2 * j)) = Append(s, IF j < Len(row) THEN 9 ELSE 10)
            /\ Split(s, 9) = SubSeq(row, 1, j) /\ SubSeq(row, 1, j) = Append(SubSeq(row, 1, j - 1), row[j])
            /\ SubSeq(row, 1, j - 1) \in Seq(Seq(Byte)) /\ row[j] \in Seq(Byte)
      BY <2>1, <2>2, NextColumn
    <2>4. FlattenSeq(SubSeq(Iov(row), 1, 2 * j)) = Append(s, 9)
      BY <2>2, <2>3
    <2>5. Append(s, 9) \in Seq(Byte \ {10})
      <3>1. 9 \in Byte \ {10}
        BY DEF Byte
      <3> QED BY <3>1, AppendProperties
    <2>6. PICK b \in Seq(Seq(Byte)), c \in Seq(Byte) : SubSeq(row, 1, j) = Append(b, c)
      BY <2>3
    <2>7. Split(Append(s, 9), 9) = Append(SubSeq(row, 1, j), << >>)
      <3>1. 9 \in Byte /\ s \in Seq(Byte)
        BY WiderSeq DEF Byte
      <3>2. Split(s, 9) = Append(b, c)
        BY <2>3, <2>6
      <3>3. Split(Append(s, 9), 9) = Append(Append(b, c), << >>)
        BY <3>1, <3>2, SplitAt
      <3> QED BY <2>6, <3>3
    <2>8. ColumnsOf(row, j, Append(s, 9))
      BY <2>4, <2>5, <2>7 DEF ColumnsOf
    <2> QED BY <1>1, <2>2, <2>8
  <1>4. n \in T
    <2>1. \A j \in 0 .. n : j \in T
      BY <1>2, <1>3, Induction
    <2> QED BY <2>1
  <1> QED BY <1>1, <1>4

LEMMA RowLine ==
  ASSUME NEW row \in Seq(Seq(Byte \ {9, 10})), row # << >>
  PROVE  IsLineOf(row, FlattenSeq(Iov(row)))
  <1>1. PICK n \in Nat : n + 1 = Len(row)
    <2>1. PICK l \in Nat \ {0} : l = Len(row)
      BY EmptySeq, LenProperties
    <2>2. l - 1 \in Nat /\ (l - 1) + 1 = l
      OBVIOUS
    <2> QED BY <2>1, <2>2
  <1>2. PICK a : ColumnsOf(row, n, a)
    BY <1>1, Columns
  <1>3. PICK j : j = n + 1
    OBVIOUS
  <1>4. j \in 1 .. Len(row) /\ ~(j < Len(row)) /\ j - 1 = n
    BY <1>1, <1>3
  <1>5. ColumnsOf(row, j - 1, a)
    BY <1>2, <1>4
  <1>6. PICK s \in Seq(Byte \ {10}) :
          /\ FlattenSeq(SubSeq(Iov(row), 1, 2 * j)) = Append(s, IF j < Len(row) THEN 9 ELSE 10)
          /\ Split(s, 9) = SubSeq(row, 1, j) /\ SubSeq(row, 1, j) = Append(SubSeq(row, 1, j - 1), row[j])
          /\ SubSeq(row, 1, j - 1) \in Seq(Seq(Byte)) /\ row[j] \in Seq(Byte)
    BY <1>4, <1>5, NextColumn
  <1>7. SubSeq(row, 1, j) = row
    BY <1>1, <1>3, SubSeqFull
  <1>8. SubSeq(Iov(row), 1, 2 * j) = Iov(row)
    <2>1. row \in Seq(Seq(Byte))
      <3>1. Byte \ {9, 10} \subseteq Byte
        OBVIOUS
      <3>2. Seq(Byte \ {9, 10}) \subseteq Seq(Byte)
        BY <3>1
      <3> QED BY <3>2, WiderSeq
    <2>2. 9 \in Byte /\ 10 \in Byte
      BY DEF Byte
    <2>3. Iov(row) \in Seq(Seq(Byte)) /\ Len(Iov(row)) = 2 * Len(row)
      BY <2>1, <2>2, IovType
    <2>4. 2 * Len(row) = 2 * j
      BY <1>1, <1>3
    <2> QED BY <2>3, <2>4, SubSeqFull
  <1>9. FlattenSeq(Iov(row)) = Append(s, 10)
    BY <1>4, <1>6, <1>8
  <1> QED BY <1>6, <1>7, <1>9 DEF IsLineOf

\* Lines taken apart at the newlines, and each of them at its tabs, are the rows.
IsTable(rs, text) == \E lines \in Seq(Seq(Byte)) :
                       /\ Split(text, 10) = Append(lines, << >>) /\ Len(lines) = Len(rs)
                       /\ \A i \in 1 .. Len(rs) : Split(lines[i], 9) = rs[i]

LEMMA NextLine ==
  ASSUME NEW rs, NEW r, NEW text \in Seq(Byte), IsTable(rs, text), NEW more, IsLineOf(r, more),
         Len(rs) \in Nat, NEW us, Len(us) = Len(rs) + 1, us[Len(rs) + 1] = r, \A i \in 1 .. Len(rs) : us[i] = rs[i]
  PROVE  IsTable(us, text \o more)
  <1>1. PICK n \in Nat : n = Len(rs)
    OBVIOUS
  <1>2. PICK lines \in Seq(Seq(Byte)) : /\ Split(text, 10) = Append(lines, << >>) /\ Len(lines) = n
                                        /\ \A i \in 1 .. n : Split(lines[i], 9) = rs[i]
    BY <1>1 DEF IsTable
  <1>3. PICK body \in Seq(Byte \ {10}) : more = Append(body, 10) /\ Split(body, 9) = r
    BY DEF IsLineOf
  <1>4. body \in Seq(Byte) /\ 10 \in Byte
    BY WiderSeq DEF Byte
  <1>5. PICK w \in Seq(Byte) : w = << >>
    <2>1. << >> \in Seq(Byte)
      OBVIOUS
    <2> QED BY <2>1
  <1>6. Split(text \o body, 10) = Append(lines, body)
    <2>1. Split(text, 10) = Append(lines, w)
      BY <1>2, <1>5
    <2>2. Split(text \o body, 10) = Append(lines, w \o body)
      BY <2>1, SplitConcat
    <2>3. w \o body = body
      BY <1>4, <1>5, ConcatEmptySeq
    <2> QED BY <2>2, <2>3
  <1>7. PICK s \in Seq(Byte) : s = text \o body
    BY <1>4, ConcatProperties
  <1>8. text \o more = Append(s, 10)
    <2>1. Appended(text, body, 10)
      BY <1>4, AppendLast
    <2> QED BY <1>3, <1>7, <2>1 DEF Appended
  <1>9. PICK ls : ls = Append(lines, body)
    OBVIOUS
  <1>10. Split(Append(s, 10), 10) = Append(ls, << >>)
    <2>1. Split(s, 10) = Append(lines, body)
      BY <1>6, <1>7
    <2> QED BY <1>4, <1>9, <2>1, SplitAt
  <1>11. /\ ls \in Seq(Seq(Byte)) /\ Len(ls) = n + 1 /\ ls[n + 1] = body
         /\ \A i \in 1 .. n : ls[i] = lines[i]
    BY <1>2, <1>4, <1>9, AppendProperties
  <1>12. ASSUME NEW i \in 1 .. n + 1 PROVE Split(ls[i], 9) = us[i]
    <2>1. CASE i = n + 1
      BY <1>1, <1>3, <1>11, <2>1
    <2>2. CASE i # n + 1
      <3>1. i \in 1 .. n
        BY <2>2
      <3>2. ls[i] = lines[i] /\ us[i] = rs[i]
        BY <1>1, <1>11, <3>1
      <3> QED BY <1>2, <3>1, <3>2
    <2> QED BY <2>1, <2>2
  <1> QED BY <1>1, <1>8, <1>10, <1>11, <1>12 DEF IsTable

\* What a list prints can be taken apart.
LEMMA WholeLines ==
  ASSUME NEW l, IsLine(l), l.action = "list", NEW rs \in Seq(Row(l)), PlainTypes, Fields(l) # << >>
  PROVE  IsTable(rs, Whole(rs, l))
  <1>1. PICK n \in Nat : n = Len(rs)
    BY LenProperties
  <1>2. PICK v \in Seq(Seq(Byte)) : /\ Whole(rs, l) = FlattenSeq(v) /\ Len(v) = n
                                    /\ \A i \in 1 .. n : v[i] = LineOf(rs[i], l)
    BY <1>1, WholeText
  <1>3. ASSUME NEW i \in 1 .. n PROVE IsLineOf(rs[i], v[i])
    <2>1. PICK row : row = rs[i]
      OBVIOUS
    <2>2. PICK m \in Nat \ {0} : m = Len(Fields(l))
      BY FieldsType, EmptySeq, LenProperties
    <2>3. row \in Row(l)
      BY <1>1, <2>1
    <2>4. row \in [1 .. m -> Seq(Byte \ {9, 10})]
      <3>1. row \in [1 .. m -> Seq(Letter)]
        BY <2>2, <2>3 DEF Row, ListRow
      <3>2. Letter = Byte \ {9, 10}
        BY DEF Letter
      <3> QED BY <3>1, <3>2
    <2>5. row \in Seq(Seq(Byte \ {9, 10})) /\ row # << >>
      <3>1. row \in Seq(Seq(Byte \ {9, 10})) /\ Len(row) = m
        BY <2>4
      <3> QED BY <3>1
    <2>6. v[i] = FlattenSeq(Iov(row))
      <3>1. Printed(row, l) = Iov(row)
        BY DEF Printed
      <3> QED BY <1>2, <2>1, <3>1 DEF LineOf
    <2> QED BY <2>1, <2>5, <2>6, RowLine
  <1>4. PICK T : T = {k \in 0 .. n : IsTable(SubSeq(rs, 1, k), FlattenSeq(SubSeq(v, 1, k)))}
    OBVIOUS
  <1>5. 0 \in T
    <2>1. SubSeq(rs, 1, 0) = << >> /\ SubSeq(v, 1, 0) = << >>
      BY SubSeqEmpty
    <2>2. FlattenSeq(SubSeq(v, 1, 0)) = << >>
      BY <2>1, FlatEmpty
    <2>3. Split(<< >>, 10) = Append(<< >>, << >>)
      BY SplitEmpty
    <2>4. << >> \in Seq(Seq(Byte)) /\ Len(<< >>) = 0 /\ 1 .. 0 = {}
      OBVIOUS
    <2>5. IsTable(<< >>, << >>)
      BY <2>3, <2>4 DEF IsTable
    <2>6. 0 \in 0 .. n
      OBVIOUS
    <2> QED BY <1>4, <2>1, <2>2, <2>5, <2>6
  <1>6. ASSUME NEW k \in 1 .. n, k - 1 \in T PROVE k \in T
    <2>1. PICK a, b, c, d : /\ a = SubSeq(rs, 1, k - 1) /\ b = SubSeq(rs, 1, k)
                            /\ c = SubSeq(v, 1, k - 1) /\ d = SubSeq(v, 1, k)
      OBVIOUS
    <2>2. k \in 1 .. Len(rs) /\ k \in 1 .. Len(v) /\ k \in 0 .. n /\ k - 1 \in Nat /\ k - 1 \in 0 .. Len(rs)
      BY <1>1, <1>2
    <2>3. a \in Seq(Row(l)) /\ b = Append(a, rs[k]) /\ rs[k] \in Row(l)
      BY <2>1, <2>2, PrefixAppend
    <2>4. c \in Seq(Seq(Byte)) /\ d = Append(c, v[k]) /\ v[k] \in Seq(Byte)
      BY <2>1, <2>2, PrefixAppend
    <2>5. Len(a) = k - 1
      BY <2>1, <2>2, PrefixOf
    <2>6. Len(b) = Len(a) + 1 /\ b[Len(a) + 1] = rs[k] /\ \A i \in 1 .. Len(a) : b[i] = a[i]
      BY <2>3, AppendProperties
    <2>7. PICK text : text = FlattenSeq(c)
      OBVIOUS
    <2>8. text \in Seq(Byte) /\ FlattenSeq(d) = text \o v[k]
      BY <2>4, <2>7, FlatType, FlatAppend
    <2>9. IsTable(a, text)
      BY <1>4, <1>6, <2>1, <2>7
    <2>10. Len(a) \in Nat /\ IsLineOf(rs[k], v[k])
      BY <1>3, <2>2, <2>5
    <2>11. IsTable(b, text \o v[k])
      BY <2>6, <2>8, <2>9, <2>10, NextLine
    <2>12. IsTable(SubSeq(rs, 1, k), FlattenSeq(SubSeq(v, 1, k)))
      BY <2>1, <2>8, <2>11
    <2> QED BY <1>4, <2>2, <2>12, Zenon
  <1>7. n \in T
    <2>1. \A k \in 0 .. n : k \in T
      BY <1>5, <1>6, Induction
    <2> QED BY <2>1
  <1>8. SubSeq(rs, 1, n) = rs /\ SubSeq(v, 1, n) = v
    BY <1>1, <1>2, SubSeqFull
  <1> QED BY <1>2, <1>4, <1>7, <1>8

-------------------------------------------------------------------------------
(* The readers.                                                                *)

\* The steps that leave selection and readers alone.
LEMMA ReadersUntouched ==
  ASSUME Readers, UNCHANGED <<held, wire, reader, serving>>,
         pc \in {"connect", "serve", "exited", "killed"} => pc' \in {"connect", "serve", "exited", "killed"}
  PROVE  Readers'
  BY DEF Readers

\* A reader's state may change to one that has what it should; the others stay.
LEMMA ReaderChanges ==
  ASSUME Readers, NEW r \in Reader, NEW new \in ReaderState, reader' = [reader EXCEPT ![r] = new],
         IsPrefix(new.got, held), new.state # "idle",
         new.state = "eof" /\ new.known /\ r \notin Nonblocking => new.got = held,
         new.known = reader[r].known \/ reader[r].state = "idle",
         UNCHANGED held, wire' \in Seq(Reader \cup {None}),
         \A i \in 1 .. Len(wire') : wire'[i] \in {None, r} \/ \E j \in 1 .. Len(wire) : wire'[i] = wire[j],
         serving' \in {serving, None},
         pc \in {"connect", "serve"}, pc' \in {"connect", "serve", "exited", "killed"}
  PROVE  Readers'
  <1>1. /\ reader' \in [Reader -> ReaderState] /\ reader'[r] = new
        /\ \A x \in Reader \ {r} : reader'[x] = reader[x]
    BY DEF Readers
  <1>2. \A i \in 1 .. Len(wire') : wire'[i] # None => reader'[wire'[i]].state # "idle"
    <2> SUFFICES ASSUME NEW i \in 1 .. Len(wire'), wire'[i] # None PROVE reader'[wire'[i]].state # "idle"
      OBVIOUS
    <2>1. CASE wire'[i] = r
      BY <1>1, <2>1
    <2>2. CASE wire'[i] # r
      <3>1. wire'[i] \in Reader /\ reader[wire'[i]].state # "idle"
        BY <2>2 DEF Readers
      <3> QED BY <1>1, <2>2, <3>1
    <2> QED BY <2>1, <2>2
  <1>3. serving' # None => reader'[serving'].known /\ reader'[serving'].state # "idle"
    <2>1. CASE serving' = r
      BY <1>1, <2>1 DEF Readers
    <2>2. CASE serving' # r
      BY <1>1, <2>2 DEF Readers
    <2> QED BY <2>1, <2>2
  <1>4. ASSUME NEW x \in Reader
        PROVE  /\ IsPrefix(reader'[x].got, held')
               /\ reader'[x].state = "eof" /\ reader'[x].known /\ x \notin Nonblocking => reader'[x].got = held'
    BY <1>1 DEF Readers
  <1>5. serving' \in Reader \cup {None}
    BY DEF Readers
  <1> QED BY <1>1, <1>2, <1>3, <1>4, <1>5 DEF Readers

\* What the updates of a reader's state make of it.
LEMMA NewState ==
  ASSUME NEW o \in ReaderState, NEW s
  PROVE  [o EXCEPT !.state = s] = [state |-> s, known |-> o.known, got |-> o.got]
  BY DEF ReaderState

LEMMA NewGot ==
  ASSUME NEW o \in ReaderState, NEW g
  PROVE  [o EXCEPT !.got = g] = [state |-> o.state, known |-> o.known, got |-> g]
  BY DEF ReaderState

\* A paste starts a reader that has nothing yet.
LEMMA PasteStep ==
  ASSUME Readers, Found, NEW r \in Reader, Paste(r)
  PROVE  Readers'
  <1>1. PICK k \in BOOLEAN : reader' = [reader EXCEPT ![r].state = "asked", ![r].known = k]
    BY DEF Paste
  <1>2. reader[r] \in ReaderState /\ reader \in [Reader -> ReaderState] /\ IsPrefix(reader[r].got, held)
    BY DEF Readers
  <1> DEFINE new == [state |-> "asked", known |-> k, got |-> reader[r].got]
  <1>3. new \in ReaderState /\ reader' = [reader EXCEPT ![r] = new]
    <2>1. new \in ReaderState
      BY <1>2 DEF ReaderState
    <2>2. reader' = [reader EXCEPT ![r] = [@ EXCEPT !.state = "asked", !.known = k]]
      BY <1>1, <1>2 DEF ReaderState
    <2>3. PICK o \in ReaderState : o = reader[r]
      BY <1>2
    <2>4. PICK m : m = [o EXCEPT !.state = "asked"]
      OBVIOUS
    <2>5. PICK b, g : m = [state |-> "asked", known |-> b, got |-> g] /\ b = o.known /\ g = o.got
      BY <2>4, NewState
    <2>6. [m EXCEPT !.known = k] = [state |-> "asked", known |-> k, got |-> g]
      BY <2>5
    <2>7. [o EXCEPT !.state = "asked", !.known = k] = [state |-> "asked", known |-> k, got |-> g]
      BY <2>4, <2>6
    <2>8. reader' = [reader EXCEPT ![r] = [o EXCEPT !.state = "asked", !.known = k]]
      BY <2>2, <2>3
    <2>9. new = [state |-> "asked", known |-> k, got |-> g]
      BY <2>3, <2>5
    <2> QED BY <2>1, <2>7, <2>8, <2>9
  <1>4. /\ wire' = Append(wire, r) /\ UNCHANGED <<held, serving, pc>> /\ pc = "serve"
        /\ reader[r].state = "idle"
    BY DEF Paste, process
  <1>5. /\ wire' \in Seq(Reader \cup {None})
        /\ \A i \in 1 .. Len(wire') : wire'[i] \in {None, r} \/ \E j \in 1 .. Len(wire) : wire'[i] = wire[j]
    <2>1. wire \in Seq(Reader \cup {None})
      BY DEF Readers
    <2> QED BY <1>4, <2>1
  <1> QED BY <1>2, <1>3, <1>4, <1>5, ReaderChanges

\* Clients that go away, stop reading or take the selection over.
LEMMA ClientStep ==
  ASSUME Readers, OtherDeletes \/ Replace \/ \E r \in Reader : GiveUp(r) \/ Stall(r)
  PROVE  Readers'
  <1>1. CASE OtherDeletes
    BY <1>1, ReadersUntouched DEF OtherDeletes, process, copying
  <1>2. CASE Replace
    <2>1. wire' = Append(wire, None) /\ UNCHANGED <<held, reader, serving, pc>>
      BY <1>2 DEF Replace, process
    <2>2. wire \in Seq(Reader \cup {None})
      BY DEF Readers
    <2>3. /\ wire' \in Seq(Reader \cup {None})
          /\ \A i \in 1 .. Len(wire') : wire'[i] # None => reader[wire'[i]].state # "idle"
      BY <2>1, <2>2 DEF Readers
    <2> QED BY <2>1, <2>3 DEF Readers
  <1>3. ASSUME NEW r \in Reader, GiveUp(r) \/ Stall(r)
        PROVE  Readers'
    <2>1. PICK s \in {"closed", "stalled"} : reader' = [reader EXCEPT ![r].state = s]
      BY <1>3 DEF GiveUp, Stall
    <2>2. reader[r] \in ReaderState /\ reader \in [Reader -> ReaderState] /\ IsPrefix(reader[r].got, held)
      BY DEF Readers
    <2> DEFINE new == [state |-> s, known |-> reader[r].known, got |-> reader[r].got]
    <2>3. new \in ReaderState /\ reader' = [reader EXCEPT ![r] = new]
      <3>1. new \in ReaderState
        BY <2>2 DEF ReaderState
      <3>2. reader' = [reader EXCEPT ![r] = [@ EXCEPT !.state = s]]
        BY <2>1, <2>2 DEF ReaderState
      <3> QED BY <2>2, <3>1, <3>2, NewState
    <2>4. UNCHANGED <<held, wire, serving, pc>> /\ pc = "serve"
      BY <1>3 DEF GiveUp, Stall, process
    <2>5. wire' \in Seq(Reader \cup {None})
      BY <2>4 DEF Readers
    <2> QED BY <2>2, <2>3, <2>4, <2>5, ReaderChanges
  <1> QED BY <1>1, <1>2, <1>3

\* The events of the data source, taken off the wire.
LEMMA EventTaken ==
  ASSUME Readers, wire # << >>, wire' = Tail(wire)
  PROVE  /\ wire' \in Seq(Reader \cup {None})
         /\ \A i \in 1 .. Len(wire') : \E j \in 1 .. Len(wire) : wire'[i] = wire[j]
         /\ Head(wire) \in Reader \cup {None}
         /\ Head(wire) # None => reader[Head(wire)].state # "idle"
  <1>1. wire \in Seq(Reader \cup {None}) /\ Len(wire) \in Nat \ {0}
    BY EmptySeq DEF Readers
  <1>2. /\ wire' \in Seq(Reader \cup {None}) /\ Len(wire') = Len(wire) - 1
        /\ \A i \in 1 .. Len(wire') : wire'[i] = wire[i + 1]
    BY <1>1, HeadTailProperties
  <1>3. Head(wire) = wire[1] /\ wire[1] \in Reader \cup {None}
    BY <1>1
  <1> QED BY <1>1, <1>2, <1>3 DEF Readers

\* on_data_control_source_send and its writes.
LEMMA SendStep ==
  ASSUME Readers, Found, Cancelled \/ StartSend \/ Send \/ SendFails
  PROVE  Readers'
  <1>0. /\ pc = "serve" /\ UNCHANGED held /\ pc' \in {"serve", "exited", "killed"}
        /\ reader \in [Reader -> ReaderState] /\ serving \in Reader \cup {None} /\ held \in Seq(Byte)
        /\ wire \in Seq(Reader \cup {None})
    BY DEF Cancelled, StartSend, Send, SendFails, Dispatching, At, Goto, Exit, Readers, Found
  <1>1. CASE Cancelled
    <2>1. UNCHANGED <<held, reader, serving>> /\ wire # << >> /\ wire' = Tail(wire)
      BY <1>1 DEF Cancelled
    <2>2. /\ wire' \in Seq(Reader \cup {None})
          /\ \A i \in 1 .. Len(wire') : \E j \in 1 .. Len(wire) : wire'[i] = wire[j]
      BY <2>1, EventTaken
    <2> QED BY <1>0, <2>1, <2>2 DEF Readers
  <1>2. CASE StartSend
    <2>1. PICK r : r = Head(wire)
      OBVIOUS
    <2>2. /\ serving = None /\ wire # << >> /\ r # None /\ wire' = Tail(wire) /\ UNCHANGED <<pc, held>>
          /\ IF reader[r].known THEN serving' = r /\ UNCHANGED reader ELSE Done(r) /\ UNCHANGED serving
      BY <1>2, <2>1 DEF StartSend, Dispatching
    <2>3. /\ wire' \in Seq(Reader \cup {None}) /\ r \in Reader /\ reader[r].state # "idle"
          /\ \A i \in 1 .. Len(wire') : \E j \in 1 .. Len(wire) : wire'[i] = wire[j]
      BY <2>1, <2>2, EventTaken
    <2>4. CASE reader[r].known
      BY <2>2, <2>3, <2>4 DEF Readers
    <2>5. CASE ~reader[r].known
      <3> DEFINE new == [state |-> IF reader[r].state = "closed" THEN "closed" ELSE "eof",
                         known |-> reader[r].known, got |-> reader[r].got]
      <3>1. reader[r] \in ReaderState
        BY <1>0, <2>3
      <3>2. new \in ReaderState /\ reader' = [reader EXCEPT ![r] = new]
        BY <1>0, <2>2, <2>5, <3>1 DEF ReaderState, Done
      <3>3. IsPrefix(new.got, held)
        BY <2>3 DEF Readers
      <3>4. serving' = serving
        BY <2>2, <2>5
      <3> QED BY <1>0, <2>2, <2>3, <2>5, <3>2, <3>3, <3>4, ReaderChanges
    <2> QED BY <2>4, <2>5
  <1>3. CASE Send
    <2>1. PICK r : r = serving
      OBVIOUS
    <2>2. PICK n \in Len(reader[r].got) + 1 .. Len(held) :
            /\ reader' = [reader EXCEPT ![r] = [@ EXCEPT !.got = SubSeq(held, 1, n),
                                                       !.state = IF n = Len(held) THEN "eof" ELSE "asked"]]
            /\ serving' = IF n = Len(held) THEN None ELSE serving
      BY <1>3, <2>1 DEF Send, Got
    <2>3. /\ r \in Reader /\ reader[r].state = "asked" /\ UNCHANGED wire /\ reader[r].known
      BY <1>0, <1>3, <2>1 DEF Send, Readers
    <2>4. reader[r] \in ReaderState /\ Len(held) \in Nat /\ Len(reader[r].got) \in Nat
      BY <1>0, <2>3 DEF ReaderState
    <2>5. n \in 0 .. Len(held)
      BY <2>4
    <2>6. /\ SubSeq(held, 1, n) \in Seq(Byte) /\ IsPrefix(SubSeq(held, 1, n), held)
          /\ n = Len(held) => SubSeq(held, 1, n) = held
      BY <1>0, <2>5, PrefixOf, SubSeqFull
    <2> DEFINE new == [state |-> IF n = Len(held) THEN "eof" ELSE "asked",
                       known |-> reader[r].known, got |-> SubSeq(held, 1, n)]
    <2>7. new \in ReaderState /\ reader' = [reader EXCEPT ![r] = new]
      <3>1. new \in ReaderState
        BY <2>4, <2>6 DEF ReaderState
      <3>2. PICK o, g, s : /\ o = reader[r] /\ g = SubSeq(held, 1, n)
                            /\ s = IF n = Len(held) THEN "eof" ELSE "asked"
        OBVIOUS
      <3>3. reader' = [reader EXCEPT ![r] = [o EXCEPT !.got = g, !.state = s]]
        BY <1>0, <2>2, <2>3, <3>2
      <3>4. PICK m : m = [o EXCEPT !.got = g]
        OBVIOUS
      <3>5. PICK a, b : m = [state |-> a, known |-> b, got |-> g] /\ b = o.known
        BY <2>4, <3>2, <3>4, NewGot
      <3>6. [m EXCEPT !.state = s] = [state |-> s, known |-> b, got |-> g]
        BY <3>5
      <3>7. [o EXCEPT !.got = g, !.state = s] = [state |-> s, known |-> b, got |-> g]
        BY <3>4, <3>6
      <3>8. new = [state |-> s, known |-> b, got |-> g]
        BY <2>3, <3>2, <3>5
      <3> QED BY <3>1, <3>3, <3>7, <3>8
    <2>8. serving' \in {serving, None} /\ wire' = wire
      BY <2>2, <2>3
    <2> QED BY <1>0, <2>3, <2>6, <2>7, <2>8, ReaderChanges
  <1>4. CASE SendFails /\ UNCHANGED reader
    BY <1>0, <1>4, ReadersUntouched DEF SendFails, Readers, Done
  <1>5. CASE SendFails /\ ~UNCHANGED reader
    <2>1. PICK r : r = serving
      OBVIOUS
    <2>2. /\ r \in Reader /\ Done(r) /\ serving' = None /\ UNCHANGED wire
          /\ reader[r].state = "closed" \/ r \in Nonblocking
      BY <1>0, <1>5, <2>1 DEF SendFails
    <2> DEFINE new == [state |-> IF reader[r].state = "closed" THEN "closed" ELSE "eof",
                       known |-> reader[r].known, got |-> reader[r].got]
    <2>3. reader[r] \in ReaderState /\ IsPrefix(reader[r].got, held)
      BY <1>0, <2>2 DEF Readers
    <2>4. new \in ReaderState /\ reader' = [reader EXCEPT ![r] = new]
      <3>1. new \in ReaderState
        BY <2>3 DEF ReaderState
      <3>2. reader' = [reader EXCEPT ![r] = [@ EXCEPT !.state = new.state]]
        BY <1>0, <2>2, <2>3 DEF Done, ReaderState
      <3> QED BY <2>3, <3>1, <3>2, NewState
    <2> QED BY <1>0, <2>2, <2>3, <2>4, ReaderChanges
  <1> QED BY <1>1, <1>2, <1>3, <1>4, <1>5

\* Every step keeps what the readers have a beginning of the payload.
LEMMA ReadersStep ==
  ASSUME Handles, Found, Readers, Next \/ UNCHANGED vars
  PROVE  Readers'
  <1>1. CASE Main \/ Args \/ SetSecureDelete \/ Prepare \/ StartQuery \/ Delete \/ TagsDelete
             \/ NextRow \/ NoRow \/ Writev \/ RowWritten \/ WriteFails
    BY <1>1, ReadersUntouched DEF Main, Args, SetSecureDelete, Prepare, StartQuery, Delete, TagsDelete,
       NextRow, NoRow, Writev, RowWritten, WriteFails, At, copying
  <1>2. CASE Leave \/ Connect \/ DisplayLost
    BY <1>2, ReadersUntouched DEF Leave, Connect, DisplayLost, Dispatching, At, Goto, Exit, copying
  <1>3. CASE Copied
    <2>1. pc = "step" /\ UNCHANGED <<wire, reader, serving>> /\ pc' = "connect" /\ held' = Head(Head(rows))
          /\ line.action = "copy" /\ rows # << >>
      BY <1>3 DEF Copied, At, Goto
    <2>2. held' \in Seq(Byte)
      BY <2>1 DEF Found
    <2>3. \A r \in Reader : reader[r].state = "idle" /\ reader[r].got = << >>
      BY <2>1 DEF Readers
    <2>4. IsPrefix(<< >>, held')
      BY <2>2, NothingIsPrefix
    <2> QED BY <2>1, <2>3, <2>4 DEF Readers
  <1>4. CASE Environment
    BY <1>4, PasteStep, ClientStep DEF Environment
  <1>5. CASE UNCHANGED vars
    BY <1>5, ReadersUntouched DEF vars, process, copying
  <1> QED BY <1>1, <1>2, <1>3, <1>4, <1>5, SendStep DEF Next, Process

-------------------------------------------------------------------------------
(* The theorems.                                                               *)

\* The inductive invariant.
CclipInv == Handles /\ Types /\ Entries /\ Printing /\ Listing /\ Imaged /\ Found /\ Readers

\* main starts with nothing open and nothing held.
LEMMA InitInv ==
  ASSUME Init
  PROVE  CclipInv
  <1>1. Handles
    BY DEF Init, Handles
  <1>2. Entries
    <2>1. PICK s \in Scenario : table = [i \in DOMAIN s.contents |-> Stored(s.contents[i])]
      BY DEF Init
    <2>2. s.contents \in Seq({s.contents[i] : i \in DOMAIN s.contents})
      BY CclipAssumption
    <2>3. PICK n \in Nat : DOMAIN s.contents = 1 .. n
      BY <2>2, LenProperties
    <2>4. table \in [1 .. n -> Entry]
      BY <2>1, <2>3, StoredType
    <2>5. table \in Seq(Entry)
      BY <2>4
    <2>6. IsLine(line) /\ orphans \in Seq(Seq(TagByte))
      BY CclipAssumption DEF Init
    <2>7. Keyed(table)
      <3>1. ASSUME NEW d \in ToSet(table), NEW e \in ToSet(table), d.id = e.id PROVE d = e
        <4>1. PICK i \in 1 .. n, j \in 1 .. n : d = Stored(s.contents[i]) /\ e = Stored(s.contents[j])
          BY <2>1, <2>3 DEF ToSet
        <4>2. s.contents[i].id = s.contents[j].id
          BY <3>1, <4>1 DEF Stored
        <4>3. i = j
          BY <2>3, <4>2, CclipAssumption
        <4> QED BY <4>1, <4>3
      <3> QED BY <3>1 DEF Keyed
    <2> QED BY <2>5, <2>6, <2>7 DEF Entries
  <1>3. Found
    BY DEF Init, Found
  <1>4. Readers
    <2>1. IsPrefix(<< >>, held)
      BY NothingIsPrefix, << >> \in Seq(Byte) DEF Init
    <2>2. << >> \in Seq(Byte) /\ << >> \in Seq(Reader \cup {None})
      OBVIOUS
    <2> QED BY <2>1, <2>2 DEF Init, Readers, ReaderState
  <1>5. Types /\ Listing
    BY DEF Init, Types, Listing
  <1>6. Printing
    <2>1. rows = << >> /\ result = << >> /\ iov = << >> /\ out = << >> /\ pc = "main"
      BY DEF Init
    <2>2. Whole(<< >>, line) = << >> /\ FlattenSeq(<< >>) = << >>
      BY WholeEmpty, FlatEmpty
    <2>3. << >> \o << >> = << >>
      BY << >> \in Seq(Byte), ConcatEmptySeq
    <2>4. << >> \in Seq(Row(line)) /\ << >> \in Seq(Seq(Byte)) /\ << >> \in Seq(Byte)
      OBVIOUS
    <2> QED BY <2>1, <2>2, <2>3, <2>4 DEF Printing
  <1>7. Imaged
    BY DEF Init, Imaged, Keyed, ToSet
  <1> QED BY <1>1, <1>2, <1>3, <1>4, <1>5, <1>6, <1>7 DEF CclipInv

\* CclipInv is an invariant of every command line, whichever call fails.
THEOREM CclipInvariant == Spec => []CclipInv
  <1>1. CclipInv /\ [Next]_vars => CclipInv'
    BY HandlesStep, TypesStep, EntriesStep, PrintingStep, ListingStep, ImagedStep, FoundStep, ReadersStep DEF CclipInv
  <1> QED BY InitInv, <1>1, PTL DEF Spec

\* Whatever is stored and asked for, the variables have their types, and a row fits the
\* array of the columns.
THEOREM CclipTypes == Spec => []TypeOK
  <1>1. CclipInv => TypeOK
    <2> SUFFICES ASSUME CclipInv PROVE TypeOK
      OBVIOUS
    <2>1. Handles /\ Types /\ Entries /\ Printing /\ Readers
      BY DEF CclipInv
    <2>2. \A i \in DOMAIN result : Len(result[i]) <= Cardinality(DOMAIN FieldNames)
      <3>1. result \in Seq(Row(line)) /\ IsLine(line)
        BY <2>1 DEF Printing, Entries
      <3>2. \A i \in DOMAIN result : result[i] \in Row(line)
        BY <3>1, LenProperties
      <3> QED BY <3>1, <3>2, RowFits
    <2>3. \A i \in DOMAIN out : out[i] \in Byte
      BY <2>1, LenProperties DEF Printing
    <2>4. /\ serving \in {None} \cup Reader
          /\ \A r \in Reader : reader[r].state \in {"idle", "asked", "stalled", "closed", "eof"}
      BY <2>1 DEF Readers, ReaderState
    <2> QED BY <2>1, <2>2, <2>3, <2>4 DEF TypeOK, Handles, Types, Entries
  <1> QED BY <1>1, CclipInvariant, PTL

\* Standard output has the beginning of the rows of the query, however writev splits them
\* and whatever fails, and all of them after a list that exits with 0: those of every
\* entry to list that the statement saw, once, and one for each if the id is asked for.
THEOREM OutputWholeTheorem == Spec => []OutputWhole
  <1>1. CclipInv => OutputWhole
    <2> SUFFICES ASSUME CclipInv PROVE OutputWhole
      OBVIOUS
    <2>1. Printing /\ IsLine(line)
      BY DEF CclipInv, Entries
    <2>2. PICK o, f, w : o = out /\ f = FlattenSeq(iov) /\ w = Whole(rows, line)
      OBVIOUS
    <2>3. o \in Seq(Byte) /\ f \in Seq(Byte) /\ w \in Seq(Byte)
      BY <2>1, <2>2, FlatType, WholeRows DEF Printing
    <2>4. ASSUME line.action # "copy" PROVE IsPrefix(o, Whole(result, line))
      <3>1. (o \o f) \o w = Whole(result, line)
        BY <2>1, <2>2, <2>4 DEF Printing
      <3>2. (o \o f) \o w = o \o (f \o w)
        BY <2>3
      <3>3. f \o w \in Seq(Byte)
        BY <2>3, ConcatProperties
      <3>4. IsPrefix(o, o \o (f \o w))
        BY <2>3, <3>3, Began
      <3> QED BY <3>1, <3>2, <3>4
    <2>5. ASSUME pc = "exited", code = 0, line.action \in {"list", "tags"} PROVE o = Whole(result, line)
      <3>1. iov = << >> /\ rows = << >> /\ (o \o f) \o w = Whole(result, line)
        BY <2>1, <2>2, <2>5 DEF Printing
      <3>2. f = << >> /\ w = << >>
        BY <2>2, <3>1, FlatEmpty, WholeEmpty
      <3>3. (o \o << >>) \o << >> = o
        BY <2>3, ConcatEmptySeq
      <3> QED BY <3>1, <3>2, <3>3
    <2>6. ASSUME pc = "exited", code = 0, line.action = "list", line.usage = "ok" PROVE RowsOfAll
      <3>1. image \in Seq(Entry) /\ Keyed(image) /\ result = ListRows(image, line)
        BY <2>6 DEF CclipInv, Imaged
      <3>2. /\ result \in Seq(ListRow(line)) /\ NoTwice(result)
            /\ ToSet(result) = {RowOf(e, line) : e \in ToList}
        BY <2>1, <3>1, ListRowsWhole DEF ToList
      <3>3. PICK E : E = ToList
        OBVIOUS
      <3>4. \A d, e \in E : d \in Entry /\ (d.id = e.id => d = e)
        <4>1. E \subseteq ToSet(image) /\ ToSet(image) \subseteq Entry
          BY <3>1, <3>3, OwnElements DEF ToList
        <4> QED BY <3>1, <4>1 DEF Keyed
      <3>5. ASSUME "id" \in ToSet(Fields(line)) PROVE Len(result) = Cardinality(E)
        <4>1. PICK row : row = [e \in E |-> RowOf(e, line)]
          OBVIOUS
        <4>2. ToSet(result) = {row[e] : e \in E}
          BY <3>2, <3>3, <4>1
        <4>3. ASSUME NEW d \in E, NEW e \in E, row[d] = row[e] PROVE d = e
          <5>1. RowOf(d, line) = RowOf(e, line)
            BY <4>1, <4>3
          <5>2. d.id = e.id
            BY <2>1, <3>4, <3>5, <5>1, IdTells
          <5> QED BY <3>4, <5>2
        <4> QED BY <3>2, <4>2, <4>3, AsManyRows
      <3> QED BY <3>2, <3>3, <3>5 DEF RowsOfAll, NoTwice
    <2> QED BY <2>2, <2>4, <2>5, <2>6 DEF OutputWhole
  <1> QED BY <1>1, CclipInvariant, PTL

\* Unless a MIME type has a tab or a newline, what a list prints can be taken apart again:
\* a line for each row of its query and a column for each field.
THEOREM LinesParseTheorem == Spec => []LinesParse
  <1>1. CclipInv /\ OutputWhole => LinesParse
    <2> SUFFICES ASSUME CclipInv, OutputWhole, PlainTypes,
                        pc = "exited", code = 0, line.action = "list", line.usage = "ok"
                 PROVE  LET lines == Split(out, 10) IN
                        /\ Len(lines) = Len(result) + 1 /\ lines[Len(lines)] = << >>
                        /\ \A i \in DOMAIN result : Split(lines[i], 9) = result[i]
      BY DEF LinesParse
    <2>1. IsLine(line) /\ result \in Seq(Row(line)) /\ Fields(line) # << >>
      BY DEF CclipInv, Entries, Printing, Listing
    <2>2. out = Whole(result, line)
      BY DEF OutputWhole
    <2>3. PICK rs : rs = result
      OBVIOUS
    <2>4. IsTable(rs, out)
      BY <2>1, <2>2, <2>3, WholeLines
    <2>5. PICK ls \in Seq(Seq(Byte)) : /\ Split(out, 10) = Append(ls, << >>) /\ Len(ls) = Len(rs)
                                       /\ \A i \in 1 .. Len(rs) : Split(ls[i], 9) = rs[i]
      BY <2>4 DEF IsTable
    <2>6. PICK n \in Nat : n = Len(rs)
      BY <2>1, <2>3, LenProperties
    <2>7. PICK lines : lines = Split(out, 10)
      OBVIOUS
    <2>8. Len(lines) = n + 1 /\ lines[n + 1] = << >> /\ \A i \in 1 .. n : lines[i] = ls[i]
      <3>1. PICK e : e = << >>
        OBVIOUS
      <3>2. e \in Seq(Byte) /\ lines = Append(ls, e) /\ Len(ls) = n
        BY <2>5, <2>6, <2>7, <3>1
      <3> QED BY <3>1, <3>2, AppendProperties
    <2>9. DOMAIN result = 1 .. n
      BY <2>1, <2>3, <2>6, LenProperties
    <2>10. \A i \in 1 .. n : Split(lines[i], 9) = rs[i]
      BY <2>5, <2>6, <2>8
    <2> QED BY <2>3, <2>6, <2>7, <2>8, <2>9, <2>10
  <1> QED BY <1>1, CclipInvariant, OutputWholeTheorem, PTL

\* The previews of text in the database are faithful to their payloads.
THEOREM PreviewFaithfulTheorem == Spec => []PreviewFaithful
  <1>1. CclipInv => PreviewFaithful
    <2> SUFFICES ASSUME CclipInv, NEW i \in DOMAIN table, IsPrefix(TextPrefix, table[i].type)
                 PROVE  Faithful(table[i].data, table[i].preview, PreviewLen)
      BY DEF PreviewFaithful
    <2>1. PICK e : e = table[i]
      OBVIOUS
    <2>2. e \in Entry
      BY <2>1, LenProperties DEF CclipInv, Entries
    <2>3. e.data \in Seq(Byte) /\ e.preview = TextPreview(e.data, PreviewLen)
      BY <2>1, <2>2 DEF Entry, GeneratePreview
    <2>4. Faithful(e.data, TextPreview(e.data, PreviewLen), PreviewLen)
      BY <2>3, TextFaithful, CclipAssumption
    <2> QED BY <2>1, <2>3, <2>4
  <1> QED BY <1>1, CclipInvariant, PTL

\* A statement is finalized once, but for cclip tags delete, and never outlives its
\* database; a process that serves a selection holds neither.
THEOREM StatementsReleasedTheorem == Spec => []StatementsReleased
  <1>1. CclipInv => StatementsReleased
    BY DEF CclipInv, Handles, StatementsReleased
  <1> QED BY <1>1, CclipInvariant, PTL

\* Readers get the payload of the entry that was found and nothing else, and all of it
\* before they are told that it ends, whatever becomes of the entry.
THEOREM CopyServesTheorem == Spec => []CopyServes
  <1>1. CclipInv => CopyServes
    BY DEF CclipInv, Found, Readers, CopyServes
  <1> QED BY <1>1, CclipInvariant, PTL
===============================================================================
