--------------------------- MODULE RingQueueProofs ---------------------------
(* Lemmas about the ring of module RingQueue: it stays a ring, and seen as the  *)
(* sequence of its Contents, pushing appends to it and popping takes its head,  *)
(* whether or not the ring grows.                                               *)
EXTENDS RingQueue, SequenceTheorems, TLAPS

USE RingAssumption

-------------------------------------------------------------------------------
(* The ring's operators keep a queue a queue.                                  *)

\* The remainder of a division by n is below n.
LEMMA ModRange == ASSUME NEW n \in Nat \ {0}, NEW x \in Int
                  PROVE  x % n \in 0 .. n - 1
  OBVIOUS

\* IsQueue in the form the provers use: field by field.
LEMMA QueueFields ==
  ASSUME NEW q, IsQueue(q)
  PROVE  /\ q.size \in Nat /\ q.read \in Nat /\ q.write \in Nat
         /\ q.ring \in [0 .. q.size - 1 -> Cell]
         /\ q = [ring |-> q.ring, size |-> q.size, read |-> q.read, write |-> q.write]
  BY DEF IsQueue

\* start_db_thread leaves a queue: the ring it allocates is empty cells, whatever the indices.
LEMMA FreshType == ASSUME NEW q, IsQueue(q) PROVE IsQueue(Fresh(q))
  BY QueueFields DEF IsQueue, Fresh, Cell, Null

\* A queue whose ring was freed is still a queue, of size 0.
LEMMA FreedType == ASSUME NEW q, IsQueue(q) PROVE IsQueue(Freed(q)) /\ Freed(q).size = 0
  BY QueueFields DEF IsQueue, Freed, Cell, Null

\* queue_push counts fewer entries than the ring has cells.
LEMMA CountRange == ASSUME NEW q, IsQueue(q), q.size > 0
                    PROVE  Count(q) \in 0 .. q.size - 1
  BY QueueFields, ModRange DEF Count

\* Growing makes a queue of RingGrow more cells.
LEMMA GrowType == ASSUME NEW q, IsQueue(q), q.size > 0
                  PROVE  IsQueue(Grow(q)) /\ Grow(q).size = q.size + RingGrow
  <1> DEFINE n == q.size + RingGrow
             r == [i \in 0 .. n - 1 |-> IF i < Count(q) THEN q.ring[(q.read + i) % q.size] ELSE Null]
  <1>1. n \in Nat
    BY QueueFields
  <1>2. r \in [0 .. n - 1 -> Cell]
    <2> SUFFICES ASSUME NEW i \in 0 .. n - 1
                 PROVE  q.ring[(q.read + i) % q.size] \in Cell
      BY DEF Cell, Null
    <2>1. (q.read + i) % q.size \in 0 .. q.size - 1
      BY <1>1, QueueFields, ModRange
    <2> QED BY <2>1, QueueFields
  <1>3. Grow(q) = [ring |-> r, size |-> n, read |-> 0, write |-> Count(q)]
    BY DEF Grow
  <1>4. Count(q) \in Nat
    BY CountRange, QueueFields
  <1> HIDE DEF n, r
  <1>5. IsQueue(Grow(q))
    BY <1>1, <1>2, <1>3, <1>4 DEF IsQueue
  <1> QED BY <1>3, <1>5 DEF n

\* Storing an entry leaves the ring as large as it was.
LEMMA StoredType == ASSUME NEW q, IsQueue(q), q.size > 0, NEW e \in Cell
                    PROVE  IsQueue(Stored(q, e)) /\ Stored(q, e).size = q.size
  <1>1. Next1(q.write, q.size) \in Nat
    BY QueueFields, ModRange DEF Next1
  <1>2. [i \in 0 .. q.size - 1 |-> IF i = q.write THEN e ELSE q.ring[i]] \in [0 .. q.size - 1 -> Cell]
    BY QueueFields
  <1> QED BY <1>1, <1>2, QueueFields DEF Stored, IsQueue

\* queue_push leaves a queue, and never a smaller one.
LEMMA PushType == ASSUME NEW q, IsQueue(q), q.size > 0, NEW e \in Cell
                  PROVE  IsQueue(Push(q, e)) /\ Push(q, e).size >= q.size
  <1>1. CASE IsFull(q)
    <2>1. Push(q, e) = Stored(Grow(q), e)
      BY <1>1 DEF Push, Room
    <2>2. Grow(q).size > 0 /\ Grow(q).size >= q.size
      BY GrowType, QueueFields
    <2> QED BY <2>1, <2>2, GrowType, StoredType
  <1>2. CASE ~IsFull(q)
    <2>1. Push(q, e) = Stored(q, e)
      BY <1>2 DEF Push, Room
    <2> QED BY <2>1, StoredType, QueueFields
  <1> QED BY <1>1, <1>2

\* queue_pop leaves a queue and returns a cell of it.
LEMMA PopType == ASSUME NEW q, IsQueue(q), q.size > 0
                 PROVE  IsQueue(Pop(q)) /\ Pop(q).size = q.size /\ Front(q) \in Cell
  <1>1. Next1(q.read, q.size) \in Nat
    BY QueueFields, ModRange DEF Next1
  <1>2. IsQueue(Pop(q)) /\ Pop(q).size = q.size
    BY <1>1, QueueFields DEF Pop, IsQueue
  <1>3. Front(q) \in Cell
    BY QueueFields DEF Front, Cell, Junk
  <1> QED BY <1>2, <1>3


-------------------------------------------------------------------------------
(* Index arithmetic.                                                           *)

\* An index below n is its own remainder.
LEMMA ModLow == ASSUME NEW n \in Nat \ {0}, NEW x \in 0 .. n - 1 PROVE x % n = x
  OBVIOUS

\* An index that went past the end of n cells starts over.
LEMMA ModHigh == ASSUME NEW n \in Nat \ {0}, NEW x \in n .. 2 * n - 1 PROVE x % n = x - n
  OBVIOUS

\* The difference of two indices, when it is negative, counts from the end.
LEMMA ModNegative == ASSUME NEW n \in Nat \ {0}, NEW x \in (-n) .. -1 PROVE x % n = x + n
  OBVIOUS

\* The successor of an index, without the remainder.
LEMMA NextCases == ASSUME NEW n \in Nat \ {0}, NEW i \in 0 .. n - 1
                   PROVE  Next1(i, n) = IF i = n - 1 THEN 0 ELSE i + 1
  <1>1. CASE i = n - 1
    BY <1>1, ModHigh, n \in n .. 2 * n - 1 DEF Next1
  <1>2. CASE i # n - 1
    BY <1>2, ModLow, i + 1 \in 0 .. n - 1 DEF Next1
  <1> QED BY <1>1, <1>2

\* The number of entries, without the remainder.
LEMMA CountCases ==
  ASSUME NEW q, IsQueue(q), q.size > 0, InBounds(q)
  PROVE  Count(q) = IF q.read <= q.write THEN q.write - q.read
                                         ELSE q.write - q.read + q.size
  <1> DEFINE d == q.write - q.read
  <1>1. /\ q.size \in Nat \ {0} /\ q.read \in 0 .. q.size - 1 /\ q.write \in 0 .. q.size - 1
    BY QueueFields DEF InBounds
  <1>2. CASE q.read <= q.write
    <2>1. d \in 0 .. q.size - 1
      BY <1>1, <1>2
    <2> QED BY <1>1, <1>2, <2>1, ModLow DEF Count
  <1>3. CASE ~(q.read <= q.write)
    <2>1. d \in (-q.size) .. -1
      BY <1>1, <1>3
    <2> QED BY <1>1, <1>3, <2>1, ModNegative DEF Count
  <1> QED BY <1>2, <1>3

\* The cell k places behind the read index.
At(q, k) == IF q.read + k < q.size THEN q.read + k ELSE q.read + k - q.size

\* The index k cells behind the read index, without the remainder.
LEMMA AtCases ==
  ASSUME NEW q, IsQueue(q), q.size > 0, InBounds(q), NEW k \in 0 .. q.size - 1
  PROVE  (q.read + k) % q.size = At(q, k) /\ At(q, k) \in 0 .. q.size - 1
  <1>1. q.size \in Nat \ {0} /\ q.read \in 0 .. q.size - 1
    BY QueueFields DEF InBounds
  <1>2. CASE q.read + k < q.size
    <2>1. q.read + k \in 0 .. q.size - 1
      BY <1>1, <1>2
    <2> QED BY <1>1, <1>2, <2>1, ModLow DEF At
  <1>3. CASE ~(q.read + k < q.size)
    <2>1. q.read + k \in q.size .. 2 * q.size - 1
      BY <1>1, <1>3
    <2>2. (q.read + k) % q.size = q.read + k - q.size
      BY <1>1, <2>1, ModHigh
    <2>3. At(q, k) = q.read + k - q.size
      BY <1>3 DEF At
    <2>4. q.read + k - q.size \in 0 .. q.size - 1
      BY <1>1, <1>3
    <2> QED BY <2>2, <2>3, <2>4
  <1> QED BY <1>2, <1>3

-------------------------------------------------------------------------------
(* The ring as a sequence.                                                     *)

\* The contents are a sequence of Count cells, the oldest entry at the read index.
LEMMA ContentsSeq ==
  ASSUME NEW q, IsQueue(q), q.size > 0, InBounds(q)
  PROVE  /\ Contents(q) \in Seq(Cell) /\ Len(Contents(q)) = Count(q)
         /\ \A i \in 1 .. Count(q) : Contents(q)[i] = q.ring[At(q, i - 1)]
  <1>1. Count(q) \in 0 .. q.size - 1 /\ q.size \in Nat
    BY CountRange, QueueFields
  <1>2. \A i \in 1 .. Count(q) : /\ (q.read + i - 1) % q.size = At(q, i - 1)
                                 /\ At(q, i - 1) \in 0 .. q.size - 1
    <2> SUFFICES ASSUME NEW i \in 1 .. Count(q)
                 PROVE  /\ (q.read + i - 1) % q.size = At(q, i - 1)
                        /\ At(q, i - 1) \in 0 .. q.size - 1
      OBVIOUS
    <2>1. i - 1 \in 0 .. q.size - 1 /\ q.read + i - 1 = q.read + (i - 1)
      BY <1>1, QueueFields
    <2> QED BY <2>1, AtCases
  <1>3. \A i \in 1 .. Count(q) : q.ring[At(q, i - 1)] \in Cell
    BY <1>2, QueueFields
  <1>4. Contents(q) = [i \in 1 .. Count(q) |-> q.ring[At(q, i - 1)]]
    BY <1>2 DEF Contents
  <1>5. Count(q) \in Nat
    BY <1>1
  <1> HIDE DEF At
  <1> QED BY <1>3, <1>4, <1>5

\* The indices of a queue that is InBounds, popped when it is not empty.
LEMMA PopContents ==
  ASSUME NEW q, IsQueue(q), q.size > 0, InBounds(q), ~IsEmpty(q)
  PROVE  InBounds(Pop(q)) /\ Contents(q) = <<Front(q)>> \o Contents(Pop(q))
  <1> DEFINE p == Pop(q)
  <1>1. /\ q.size \in Nat \ {0} /\ q.read \in 0 .. q.size - 1 /\ q.write \in 0 .. q.size - 1
        /\ q.read # q.write
    BY QueueFields DEF InBounds, IsEmpty
  <1>2. /\ p.size = q.size /\ p.ring = q.ring /\ p.write = q.write
        /\ p.read = IF q.read = q.size - 1 THEN 0 ELSE q.read + 1
    BY <1>1, NextCases DEF Pop
  <1>3. IsQueue(p) /\ InBounds(p) /\ p.size > 0
    BY <1>1, <1>2, PopType DEF InBounds
  <1>4. Count(q) = Count(p) + 1 /\ Count(p) \in Nat
    BY <1>1, <1>2, <1>3, CountCases, CountRange
  <1>5. \A k \in 1 .. Count(p) : At(q, k) = At(p, k - 1)
    BY <1>1, <1>2, <1>3, CountRange DEF At
  <1>6. Front(q) = q.ring[At(q, 0)] /\ Front(q) \in Cell
    BY <1>1, PopType DEF Front, At
  <1> HIDE DEF p
  <1>7. /\ Contents(p) \in Seq(Cell) /\ Len(Contents(p)) = Count(p)
        /\ Contents(q) \in Seq(Cell) /\ Len(Contents(q)) = Count(p) + 1
    BY <1>3, <1>4, ContentsSeq
  <1>8. \A i \in 1 .. Count(p) + 1 :
          Contents(q)[i] = IF i <= 1 THEN Front(q) ELSE Contents(p)[i - 1]
    <2> SUFFICES ASSUME NEW i \in 1 .. Count(p) + 1
                 PROVE  Contents(q)[i] = IF i <= 1 THEN Front(q) ELSE Contents(p)[i - 1]
      OBVIOUS
    <2>1. Contents(q)[i] = q.ring[At(q, i - 1)]
      BY <1>4, ContentsSeq
    <2>2. CASE i <= 1
      BY <1>4, <1>6, <2>1, <2>2, i = 1
    <2>3. CASE ~(i <= 1)
      <3>1. i - 1 \in 1 .. Count(p)
        BY <1>4, <2>3
      <3>2. Contents(p)[i - 1] = p.ring[At(p, (i - 1) - 1)]
        BY <1>3, <3>1, ContentsSeq
      <3> QED BY <1>2, <1>5, <2>1, <2>3, <3>1, <3>2
    <2> QED BY <2>2, <2>3
  <1>9. Contents(q) = <<Front(q)>> \o Contents(p)
    <2>1. <<Front(q)>> \in Seq(Cell) /\ Len(<<Front(q)>>) = 1
      BY <1>6
    <2>2. /\ <<Front(q)>> \o Contents(p) \in Seq(Cell)
          /\ Len(<<Front(q)>> \o Contents(p)) = Count(p) + 1
          /\ \A i \in 1 .. Count(p) + 1 : (<<Front(q)>> \o Contents(p))[i] =
               IF i <= 1 THEN Front(q) ELSE Contents(p)[i - 1]
      BY <1>4, <1>7, <2>1, ConcatProperties
    <2> QED BY <1>4, <1>7, <1>8, <2>2, SeqEqual
  <1> QED BY <1>3, <1>9 DEF p

\* Storing in a ring that is not full.
LEMMA StoredContents ==
  ASSUME NEW q, IsQueue(q), q.size > 0, InBounds(q), ~IsFull(q), NEW e \in Cell
  PROVE  InBounds(Stored(q, e)) /\ Contents(Stored(q, e)) = Append(Contents(q), e)
  <1> DEFINE s == Stored(q, e)
  <1>1. /\ q.size \in Nat \ {0} /\ q.read \in 0 .. q.size - 1 /\ q.write \in 0 .. q.size - 1
    BY QueueFields DEF InBounds
  <1>2. /\ s.size = q.size /\ s.read = q.read
        /\ s.ring = [i \in 0 .. q.size - 1 |-> IF i = q.write THEN e ELSE q.ring[i]]
        /\ s.write = IF q.write = q.size - 1 THEN 0 ELSE q.write + 1
        /\ s.write # q.read
    BY <1>1, NextCases DEF Stored, IsFull
  <1>3. IsQueue(s) /\ InBounds(s) /\ s.size > 0
    BY <1>1, <1>2, StoredType DEF InBounds
  <1>4. Count(s) = Count(q) + 1 /\ Count(q) \in 0 .. q.size - 2
    <2>1. Count(q) = IF q.read <= q.write THEN q.write - q.read ELSE q.write - q.read + q.size
      BY CountCases
    <2>2. Count(s) = IF q.read <= s.write THEN s.write - q.read ELSE s.write - q.read + q.size
      BY <1>2, <1>3, CountCases
    <2>3. CASE q.write = q.size - 1
      BY <1>1, <1>2, <2>1, <2>2, <2>3
    <2>4. CASE q.write # q.size - 1
      <3>1. s.write = q.write + 1 /\ q.write + 1 # q.read /\ q.write <= q.size - 2
        BY <1>1, <1>2, <2>4
      <3>2. CASE q.read <= q.write
        BY <1>1, <2>1, <2>2, <3>1, <3>2
      <3>3. CASE ~(q.read <= q.write)
        BY <1>1, <2>1, <2>2, <3>1, <3>3
      <3> QED BY <3>2, <3>3
    <2> QED BY <2>3, <2>4
  <1>5. \A k \in 0 .. Count(q) : At(s, k) = At(q, k) /\ At(q, k) \in 0 .. q.size - 1
    BY <1>1, <1>2, <1>4 DEF At
  <1>6. /\ At(q, Count(q)) = q.write
        /\ \A k \in 0 .. Count(q) - 1 : At(q, k) # q.write
    BY <1>1, <1>4, CountCases DEF At
  <1> HIDE DEF s
  <1>7. /\ Contents(q) \in Seq(Cell) /\ Len(Contents(q)) = Count(q)
        /\ Contents(s) \in Seq(Cell) /\ Len(Contents(s)) = Count(q) + 1
    BY <1>1, <1>3, <1>4, ContentsSeq
  <1>8. \A i \in 1 .. Count(q) + 1 : Contents(s)[i] = s.ring[At(q, i - 1)]
    <2> SUFFICES ASSUME NEW i \in 1 .. Count(q) + 1
                 PROVE  Contents(s)[i] = s.ring[At(q, i - 1)]
      OBVIOUS
    <2>1. Contents(s)[i] = s.ring[At(s, i - 1)]
      BY <1>3, <1>4, ContentsSeq
    <2>2. i - 1 \in 0 .. Count(q)
      BY <1>4
    <2> QED BY <1>5, <2>1, <2>2
  <1>9. Contents(s) = Append(Contents(q), e)
    <2>1. \A i \in 1 .. Count(q) : Contents(s)[i] = Contents(q)[i]
      <3> SUFFICES ASSUME NEW i \in 1 .. Count(q)
                   PROVE  Contents(s)[i] = Contents(q)[i]
        OBVIOUS
      <3>1. i - 1 \in 0 .. Count(q) - 1 /\ i - 1 \in 0 .. Count(q) /\ i \in 1 .. Count(q) + 1
        BY <1>4
      <3>2. Contents(s)[i] = s.ring[At(q, i - 1)]
        BY <1>8, <3>1
      <3>3. s.ring[At(q, i - 1)] = q.ring[At(q, i - 1)]
        BY <1>2, <1>5, <1>6, <3>1
      <3>4. Contents(q)[i] = q.ring[At(q, i - 1)]
        BY <1>1, ContentsSeq
      <3> QED BY <3>2, <3>3, <3>4
    <2>2. Contents(s)[Count(q) + 1] = e
      <3>1. Contents(s)[Count(q) + 1] = s.ring[At(q, Count(q))]
        BY <1>4, <1>8
      <3> QED BY <1>1, <1>2, <1>6, <3>1
    <2>3. /\ Append(Contents(q), e) \in Seq(Cell)
          /\ Len(Append(Contents(q), e)) = Count(q) + 1
          /\ \A i \in 1 .. Count(q) : Append(Contents(q), e)[i] = Contents(q)[i]
          /\ Append(Contents(q), e)[Count(q) + 1] = e
      BY <1>7, AppendProperties
    <2>4. \A i \in 1 .. Count(q) + 1 : Contents(s)[i] = Append(Contents(q), e)[i]
      BY <1>4, <2>1, <2>2, <2>3
    <2> QED BY <1>7, <2>3, <2>4, SeqEqual
  <1> QED BY <1>3, <1>9 DEF s

\* Growing keeps the entries and their order, and makes room.
LEMMA GrowContents ==
  ASSUME NEW q, IsQueue(q), q.size > 0, InBounds(q), IsFull(q)
  PROVE  InBounds(Grow(q)) /\ ~IsFull(Grow(q)) /\ Contents(Grow(q)) = Contents(q)
  <1> DEFINE g == Grow(q)
  <1>1. q.size \in Nat \ {0} /\ RingGrow \in Nat \ {0} /\ Count(q) \in 0 .. q.size - 1
    BY QueueFields, CountRange
  <1>2. /\ g.size = q.size + RingGrow /\ g.read = 0 /\ g.write = Count(q)
        /\ g.ring = [i \in 0 .. g.size - 1 |->
                       IF i < Count(q) THEN q.ring[(q.read + i) % q.size] ELSE Null]
    BY DEF Grow
  <1>3. IsQueue(g) /\ g.size > 0 /\ InBounds(g)
    BY <1>1, <1>2, GrowType DEF InBounds
  <1> HIDE DEF g
  <1>4. ~IsFull(g)
    <2>1. g.size \in Nat \ {0} /\ g.write \in 0 .. g.size - 1 /\ g.write # g.size - 1
      BY <1>1, <1>2
    <2>2. Next1(g.write, g.size) = g.write + 1
      BY <2>1, NextCases
    <2> QED BY <1>1, <1>2, <2>2 DEF IsFull
  <1>5. Count(g) = Count(q)
    BY <1>1, <1>2, <1>3, CountCases
  <1>6. /\ Contents(q) \in Seq(Cell) /\ Len(Contents(q)) = Count(q)
        /\ Contents(g) \in Seq(Cell) /\ Len(Contents(g)) = Count(q)
    BY <1>3, <1>5, ContentsSeq
  <1>7. ASSUME NEW i \in 1 .. Count(q) PROVE Contents(g)[i] = Contents(q)[i]
    <2>1. i - 1 \in 0 .. q.size - 1 /\ i - 1 \in 0 .. g.size - 1 /\ i - 1 < Count(q)
      BY <1>1, <1>2
    <2>2. At(g, i - 1) = i - 1
      BY <1>1, <1>2, <2>1 DEF At
    <2>3. Contents(g)[i] = g.ring[i - 1]
      BY <1>3, <1>5, <2>2, ContentsSeq
    <2>4. g.ring[i - 1] = q.ring[(q.read + (i - 1)) % q.size]
      BY <1>2, <2>1
    <2>5. Contents(q)[i] = q.ring[At(q, i - 1)]
      BY ContentsSeq
    <2> QED BY <2>1, <2>3, <2>4, <2>5, AtCases
  <1>8. Contents(g) = Contents(q)
    BY <1>6, <1>7, SeqEqual
  <1> QED BY <1>3, <1>4, <1>8 DEF g

\* queue_push appends, whether or not it has to grow the ring first.
LEMMA PushContents ==
  ASSUME NEW q, IsQueue(q), q.size > 0, InBounds(q), NEW e \in Cell
  PROVE  InBounds(Push(q, e)) /\ Contents(Push(q, e)) = Append(Contents(q), e)
  <1>1. CASE IsFull(q)
    <2>1. Push(q, e) = Stored(Grow(q), e)
      BY <1>1 DEF Push, Room
    <2>2. IsQueue(Grow(q)) /\ Grow(q).size > 0
      BY GrowType, QueueFields
    <2> QED BY <1>1, <2>1, <2>2, GrowContents, StoredContents
  <1>2. CASE ~IsFull(q)
    <2>1. Push(q, e) = Stored(q, e)
      BY <1>2 DEF Push, Room
    <2> QED BY <1>2, <2>1, StoredContents
  <1> QED BY <1>1, <1>2

\* An empty ring, and the one a new thread is given when the indices fit it.
LEMMA FreshContents ==
  ASSUME NEW q, IsQueue(q), IsEmpty(q), q.read < RingInit
  PROVE  InBounds(Fresh(q)) /\ Contents(Fresh(q)) = << >>
  <1>1. /\ IsQueue(Fresh(q)) /\ Fresh(q).size = RingInit
        /\ Fresh(q).read = q.read /\ Fresh(q).write = q.read
    BY FreshType DEF Fresh, IsEmpty
  <1>2. InBounds(Fresh(q)) /\ Fresh(q).size > 0 /\ q.read \in Nat
    BY <1>1, QueueFields DEF InBounds
  <1>3. Count(Fresh(q)) = 0
    BY <1>1, <1>2, CountCases
  <1>4. Contents(Fresh(q)) \in Seq(Cell) /\ Len(Contents(Fresh(q))) = 0
    BY <1>1, <1>2, <1>3, ContentsSeq
  <1> QED BY <1>2, <1>4, EmptySeq

\* An empty ring has no contents.
LEMMA EmptyContents ==
  ASSUME NEW q, IsQueue(q), q.size > 0, InBounds(q), IsEmpty(q)
  PROVE  Contents(q) = << >>
  <1>1. Count(q) = 0
    BY CountCases, QueueFields DEF IsEmpty
  <1>2. Contents(q) \in Seq(Cell) /\ Len(Contents(q)) = 0
    BY <1>1, ContentsSeq
  <1> QED BY <1>2, EmptySeq

-------------------------------------------------------------------------------
(* The ring when nothing is known of its indices: a ring started with the       *)
(* indices of an earlier one is read and written outside, until it has wrapped. *)
(* What can still be said goes by the age of a cell, counted from the write     *)
(* index on: the cell to be written next has age 0, the one written last the    *)
(* greatest.                                                                    *)

Cells(q) == 0 .. q.size - 1

Age(q, i) == IF i >= q.write THEN i - q.write ELSE i - q.write + q.size

\* Younger entries are later ones, and no entry is later than n.
Ordered(q) == \A i, j \in Cells(q) :
                q.ring[i] > 0 /\ q.ring[j] > 0 /\ Age(q, i) < Age(q, j) => q.ring[i] < q.ring[j]

Known(q, n) == /\ \A i \in Cells(q) : q.ring[i] <= n
               /\ q.write < q.size => Ordered(q)
               /\ q.write >= q.size => \A i \in Cells(q) : q.ring[i] = Null

\* The cells a reader may still come to before it meets the write index; and that
\* they hold no entry up to n.
Unread(q, i) == q.read < q.size => q.read # q.write /\ Age(q, i) >= Age(q, q.read)

Above(q, n) == \A i \in Cells(q) : q.ring[i] > 0 /\ Unread(q, i) => q.ring[i] > n

\* Popping meets entries in increasing order.
LEMMA PopOnce ==
  ASSUME NEW q, IsQueue(q), q.size > 0, ~IsEmpty(q), NEW m \in Nat, Known(q, m)
  PROVE  /\ Known(Pop(q), m)
         /\ \A n \in Int : Above(q, n) => Above(Pop(q), n)
         /\ Front(q) <= m
         /\ Front(q) > 0 => /\ \A n \in Int : Above(q, n) => n < Front(q)
                            /\ Above(Pop(q), Front(q))
  <1> DEFINE p == Pop(q)
  <1>1. /\ q.size \in Nat \ {0} /\ q.read \in Nat /\ q.write \in Nat /\ q.read # q.write
        /\ \A i \in Cells(q) : q.ring[i] \in Int
    BY QueueFields DEF IsEmpty, Cells, Cell, Junk
  <1>2. p.size = q.size /\ p.ring = q.ring /\ p.write = q.write /\ p.read = Next1(q.read, q.size)
    BY DEF Pop
  <1>3. p.read \in Cells(q)
    <2>1. q.read + 1 \in Int
      BY <1>1
    <2>2. (q.read + 1) % q.size \in 0 .. q.size - 1
      BY <1>1, <2>1, ModRange
    <2> QED BY <1>2, <2>2 DEF Cells, Next1
  <1> HIDE DEF p
  <1>4. Cells(p) = Cells(q) /\ \A i : Age(p, i) = Age(q, i)
    BY <1>2 DEF Cells, Age
  <1>5. Known(p, m)
    BY <1>2, <1>4 DEF Known, Ordered
  <1>6. CASE q.write >= q.size
    BY <1>1, <1>2, <1>4, <1>5, <1>6 DEF Known, Front, Above, Cells, Null, Junk, p
  <1>7. CASE q.write < q.size /\ q.read >= q.size
    <2>1. Front(q) = Junk
      BY <1>1, <1>7 DEF Front
    <2>2. \A i \in Cells(q) : Unread(q, i)
      BY <1>1, <1>7 DEF Unread
    <2>3. \A n \in Int : Above(q, n) => Above(p, n)
      BY <1>2, <1>4, <2>2 DEF Above
    <2> QED BY <1>5, <2>1, <2>3 DEF Junk, p
  <1>8. CASE q.write < q.size /\ q.read < q.size
    <2>1. /\ q.read \in Cells(q) /\ Unread(q, q.read) /\ Front(q) = q.ring[q.read]
          /\ q.write \in Cells(q)
      BY <1>1, <1>8 DEF Cells, Unread, Front, Age
    <2>2. p.read # q.write => Age(q, p.read) = Age(q, q.read) + 1
      <3>1. p.read = IF q.read = q.size - 1 THEN 0 ELSE q.read + 1
        BY <1>1, <1>2, <2>1, NextCases DEF Cells
      <3> QED BY <1>1, <2>1, <3>1 DEF Age, Cells
    <2>3. \A i \in Cells(q) : Age(q, i) \in Int
      BY <1>1 DEF Age, Cells
    <2>4. \A i \in Cells(q) : Unread(p, i) => Age(q, i) > Age(q, q.read) /\ Unread(q, i)
      BY <1>1, <1>2, <1>3, <1>4, <2>1, <2>2, <2>3 DEF Unread, Cells
    <2>5. \A n \in Int : Above(q, n) => Above(p, n)
      BY <1>2, <1>4, <2>4 DEF Above
    <2>6. Front(q) > 0 => Above(p, Front(q))
      BY <1>2, <1>4, <1>8, <2>1, <2>4 DEF Above, Known, Ordered
    <2> QED BY <1>1, <1>5, <2>1, <2>5, <2>6 DEF Known, Above, p
  <1> QED BY <1>1, <1>6, <1>7, <1>8

\* A new entry goes to the youngest cell, or nowhere.
LEMMA StoredOnce ==
  ASSUME NEW q, IsQueue(q), q.size > 0, ~IsFull(q), NEW m \in Nat, Known(q, m)
  PROVE  /\ Known(Stored(q, m + 1), m + 1)
         /\ \A n \in Int : n <= m /\ Above(q, n) => Above(Stored(q, m + 1), n)
  <1> DEFINE s == Stored(q, m + 1)
  <1>1. /\ q.size \in Nat \ {0} /\ q.read \in Nat /\ q.write \in Nat
        /\ \A i \in Cells(q) : q.ring[i] \in Int
    BY QueueFields DEF Cells, Cell, Junk
  <1>2. /\ s.size = q.size /\ s.read = q.read /\ s.write = Next1(q.write, q.size)
        /\ \A i \in Cells(q) : s.ring[i] = IF i = q.write THEN m + 1 ELSE q.ring[i]
    BY DEF Stored, Cells
  <1>3. s.write \in Cells(q) /\ Cells(s) = Cells(q)
    <2>1. q.write + 1 \in Int
      BY <1>1
    <2>2. (q.write + 1) % q.size \in 0 .. q.size - 1
      BY <1>1, <2>1, ModRange
    <2> QED BY <1>2, <2>2 DEF Cells, Next1
  <1> HIDE DEF s
  <1>4. CASE q.write >= q.size
    <2>1. \A i \in Cells(q) : s.ring[i] = Null
      BY <1>1, <1>2, <1>4 DEF Known, Cells
    <2> QED BY <1>1, <1>2, <1>3, <2>1 DEF Known, Ordered, Above, Null, Cells, s
  <1>5. CASE q.write < q.size
    <2>1. q.write \in Cells(q)
      BY <1>1, <1>5 DEF Cells
    <2>2. s.write = IF q.write = q.size - 1 THEN 0 ELSE q.write + 1
      BY <1>1, <1>2, <2>1, NextCases DEF Cells
    <2>3. \A i \in Cells(q) : /\ Age(s, i) = IF i = q.write THEN q.size - 1 ELSE Age(q, i) - 1
                              /\ Age(q, i) \in 0 .. q.size - 1
      BY <1>1, <1>2, <2>1, <2>2 DEF Age, Cells
    <2>4. \A i \in Cells(q) : q.ring[i] < m + 1
      BY <1>1 DEF Known
    <2>5. Ordered(s)
      BY <1>1, <1>2, <1>3, <1>5, <2>1, <2>3, <2>4 DEF Ordered, Known
    <2>6. \A i \in Cells(q) : s.ring[i] <= m + 1
      BY <1>1, <1>2, <2>4
    <2>7. Known(s, m + 1)
      BY <1>1, <1>2, <1>3, <2>5, <2>6 DEF Known, Cells
    <2>8. \A i \in Cells(q) : i # q.write /\ Unread(s, i) => Unread(q, i)
      <3>1. CASE q.read >= q.size
        BY <1>1, <3>1 DEF Unread
      <3>2. CASE q.read < q.size
        <4>1. q.read \in Cells(q)
          BY <1>1, <3>2 DEF Cells
        <4> QED BY <1>1, <1>2, <2>1, <2>3, <3>2, <4>1 DEF Unread
      <3> QED BY <1>1, <3>1, <3>2
    <2>9. \A n \in Int : n <= m /\ Above(q, n) => Above(s, n)
      BY <1>2, <1>3, <2>8 DEF Above
    <2> QED BY <2>7, <2>9 DEF s
  <1> QED BY <1>1, <1>4, <1>5

\* Growing keeps the ages in order.
LEMMA GrowOnce ==
  ASSUME NEW q, IsQueue(q), q.size > 0, q.write < q.size, IsFull(q), NEW m \in Nat, Known(q, m)
  PROVE  /\ Known(Grow(q), m) /\ ~IsFull(Grow(q))
         /\ \A n \in Int : Above(q, n) => Above(Grow(q), n)
  <1> DEFINE g == Grow(q)
  <1>1. q.size \in Nat \ {0} /\ q.write \in Cells(q) /\ q.read \in Cells(q)
    BY QueueFields, ModRange DEF IsFull, Next1, Cells
  <1>2. InBounds(q) /\ Count(q) \in 0 .. q.size - 1 /\ RingGrow \in Nat \ {0}
        /\ \A i \in Cells(q) : q.ring[i] \in Int
    BY <1>1, CountRange, QueueFields DEF InBounds, Cells, Cell, Junk
  <1>3. /\ g.size = q.size + RingGrow /\ g.read = 0 /\ g.write = Count(q)
        /\ \A i \in Cells(g) : g.ring[i] = IF i < Count(q) THEN q.ring[(q.read + i) % q.size] ELSE Null
    BY DEF Grow, Cells
  <1> HIDE DEF g
  <1>4. \A i \in Cells(g) : i >= Count(q) => g.ring[i] = 0
    BY <1>2, <1>3 DEF Cells, Null
  <1>5. ASSUME NEW i \in Cells(g), i < Count(q)
        PROVE  /\ At(q, i) \in Cells(q) /\ g.ring[i] = q.ring[At(q, i)]
               /\ Age(q, At(q, i)) = q.size - Count(q) + i /\ Unread(q, At(q, i))
               /\ Age(g, i) = g.size - Count(q) + i
    <2>1. i \in 0 .. q.size - 1
      BY <1>1, <1>2, <1>5 DEF Cells
    <2>2. At(q, i) \in Cells(q) /\ g.ring[i] = q.ring[At(q, i)]
      BY <1>2, <1>3, <1>5, <2>1, AtCases DEF Cells
    <2>3. Count(q) = IF q.read <= q.write THEN q.write - q.read ELSE q.write - q.read + q.size
      BY <1>2, CountCases
    <2>4. Age(q, At(q, i)) = q.size - Count(q) + i
      BY <1>1, <1>5, <2>1, <2>3 DEF Age, At, Cells
    <2>5. Age(q, q.read) = q.size - Count(q) /\ q.read # q.write
      BY <1>1, <1>5, <2>1, <2>3 DEF Age, Cells
    <2>6. Unread(q, At(q, i))
      BY <1>1, <1>2, <2>1, <2>4, <2>5 DEF Unread
    <2>7. Age(g, i) = g.size - Count(q) + i
      BY <1>1, <1>2, <1>3, <1>5, <2>1 DEF Age
    <2> QED BY <2>2, <2>4, <2>6, <2>7
  <1>6. Ordered(g)
    <2> SUFFICES ASSUME NEW i \in Cells(g), NEW j \in Cells(g), g.ring[i] > 0, g.ring[j] > 0,
                        Age(g, i) < Age(g, j)
                 PROVE  g.ring[i] < g.ring[j]
      BY DEF Ordered
    <2>1. i < Count(q) /\ j < Count(q) /\ i \in Int /\ j \in Int
      BY <1>2, <1>4 DEF Cells
    <2>2. Age(q, At(q, i)) < Age(q, At(q, j))
      BY <1>1, <1>2, <1>3, <1>5, <2>1
    <2> QED BY <1>5, <2>1, <2>2 DEF Known, Ordered
  <1>7. \A i \in Cells(g) : g.ring[i] <= m
    BY <1>2, <1>4, <1>5 DEF Known, Cells
  <1>8. g.write < g.size /\ Known(g, m)
    BY <1>1, <1>2, <1>3, <1>6, <1>7 DEF Known
  <1>9. \A n \in Int : Above(q, n) => Above(g, n)
    BY <1>2, <1>4, <1>5 DEF Above, Cells
  <1> QED BY <1>2, <1>8, <1>9, GrowContents DEF g

\* queue_push, as long as a full ring is not given a write index out of range.
LEMMA PushOnce ==
  ASSUME NEW q, IsQueue(q), q.size > 0, q.write >= q.size => ~IsFull(q), NEW m \in Nat, Known(q, m)
  PROVE  /\ Known(Push(q, m + 1), m + 1)
         /\ \A n \in Int : n <= m /\ Above(q, n) => Above(Push(q, m + 1), n)
  <1>1. CASE IsFull(q)
    <2>1. Push(q, m + 1) = Stored(Grow(q), m + 1) /\ q.write < q.size
      BY <1>1, QueueFields DEF Push, Room
    <2>2. /\ IsQueue(Grow(q)) /\ Grow(q).size > 0 /\ Known(Grow(q), m) /\ ~IsFull(Grow(q))
          /\ \A n \in Int : Above(q, n) => Above(Grow(q), n)
      BY <1>1, <2>1, GrowType, GrowOnce, QueueFields
    <2> QED BY <2>1, <2>2, StoredOnce
  <1>2. CASE ~IsFull(q)
    BY <1>2, StoredOnce DEF Push, Room
  <1> QED BY <1>1, <1>2
===============================================================================
