------------------------------ MODULE RingQueue ------------------------------
(* The growing ring buffer of src/cclipd/sql.c (struct queue, queue_push and   *)
(* queue_pop) as pure operators on a record [ring, size, read, write].         *)
(*                                                                             *)
(* A cell holds the entry stored there: the number n of the n-th entry         *)
(* accepted from the clipboard, Null for a cell calloc has zeroed and nobody   *)
(* has written, Junk for whatever lies outside the allocated ring.  The code   *)
(* never compares an index with the size before it dereferences the ring, so   *)
(* neither do Pop and Push: reading out of range yields Junk, and a store out  *)
(* of range does not reach the ring.                                           *)
EXTENDS Integers, Sequences

CONSTANTS RingInit,  \* cells a fresh ring has (16 in start_db_thread)
          RingGrow   \* cells queue_push adds to a full ring (16)

ASSUME RingAssumption == /\ RingInit \in Nat /\ RingInit >= 2
                         /\ RingGrow \in Nat /\ RingGrow >= 1

Null == 0
Junk == -1
Cell == Nat \cup {Junk}

\* What struct queue can hold: ring and size change together, the indices need
\* not point into the ring.
IsQueue(q) == /\ q.size \in Nat
              /\ q \in [ring : [0 .. q.size - 1 -> Cell], size : Nat, read : Nat, write : Nat]

\* The queue the program's zeroed static storage starts with.
NoQueue == [ring |-> [i \in 0 .. -1 |-> Null], size |-> 0, read |-> 0, write |-> 0]

IsEmpty(q) == q.read = q.write

\* The advance of an index that queue_push and queue_pop share.
Next1(i, n) == (i + 1) % n

IsFull(q) == Next1(q.write, q.size) = q.read

\* Both indices point into the ring.
InBounds(q) == q.read < q.size /\ q.write < q.size

Count(q) == (q.write - q.read) % q.size

\* The entries a reader will pop, oldest first (for a queue that is InBounds).
Contents(q) == [i \in 1 .. Count(q) |-> q.ring[(q.read + i - 1) % q.size]]

-------------------------------------------------------------------------------
\* start_db_thread: a zeroed ring of the initial size; read and write stay.
Fresh(q) == [ring |-> [i \in 0 .. RingInit - 1 |-> Null], size |-> RingInit,
             read |-> q.read, write |-> q.write]

\* Mutant of Freed: the size outlives the ring.
FreedKeepsSize(q) == [ring |-> [i \in 0 .. -1 |-> Null], size |-> q.size,
                      read |-> q.read, write |-> q.write]

\* thread_entrypoint and the error path of start_db_thread: free(q->ring).
Freed(q) == [ring |-> [i \in 0 .. -1 |-> Null], size |-> 0,
             read |-> q.read, write |-> q.write]

\* Mutant of Grow: the read index is not moved with the entries.
GrowKeepsRead(q) == LET n == q.size + RingGrow IN
                    [ring |-> [i \in 0 .. n - 1 |->
                                 IF i < Count(q) THEN q.ring[(q.read + i) % q.size] ELSE Null],
                     size |-> n, read |-> q.read, write |-> Count(q)]

\* queue_push on a full ring: the entries move to the front of a larger one.
Grow(q) == LET n == q.size + RingGrow IN
           [ring |-> [i \in 0 .. n - 1 |->
                        IF i < Count(q) THEN q.ring[(q.read + i) % q.size] ELSE Null],
            size |-> n, read |-> 0, write |-> Count(q)]

Room(q) == IF IsFull(q) THEN Grow(q) ELSE q

Stored(q, e) == [ring |-> [i \in 0 .. q.size - 1 |-> IF i = q.write THEN e ELSE q.ring[i]],
                 size |-> q.size, read |-> q.read, write |-> Next1(q.write, q.size)]

Push(q, e) == Stored(Room(q), e)

\* What queue_pop copies out, and the queue it leaves.
Front(q) == IF q.read < q.size THEN q.ring[q.read] ELSE Junk

\* Mutant of Pop: the read index stays.
PopStays(q) == q

Pop(q) == [ring |-> q.ring, size |-> q.size,
           read |-> Next1(q.read, q.size), write |-> q.write]
===============================================================================
