----------------------------- MODULE RingQueue -----------------------------
(***************************************************************************)
(* candishared.Queue (src/candishared/queue.go): a FIFO queue kept in a    *)
(* ring buffer that doubles when it is full and halves when it is a        *)
(* quarter full.  It backs the in-memory queue of the task queue worker.   *)
(*                                                                         *)
(* The code finds the next slot with x & (len(buf) - 1), which is x modulo *)
(* len(buf) only while len(buf) is a power of two.  BitAnd is a parameter: *)
(* the model checker gives it the bitwise operator, the proofs only use    *)
(* what the comment on minQueueLen demands of it, for the lengths the      *)
(* buffer can have.                                                        *)
(***************************************************************************)
EXTENDS Integers, Sequences

CONSTANTS Elem,           \* the values pushed
          Zero,           \* the zero value of T; a free slot holds it
          MinQueueLen,    \* minQueueLen, 16 in the code
          MaxLen,         \* bound: nothing is pushed at this many elements
          Capacities,     \* minQueueLen and what doubling makes of it
          BitAnd(_, _)    \* Go's &

(***************************************************************************)
(* The lengths are closed under the doubling and halving of resize, and on *)
(* each of them the mask computes the modulus: "Must be power of 2 for     *)
(* bitwise modulus: x % n == x & (n - 1)".                                 *)
(***************************************************************************)
ASSUME CapacityAssumption ==
    /\ Capacities \subseteq Nat \ {0} /\ MaxLen \in Nat
    /\ MinQueueLen \in Capacities /\ MinQueueLen % 2 = 0
    /\ \A n \in Capacities : n < MaxLen => 2 * n \in Capacities
    /\ \A n \in Capacities : n > MinQueueLen =>
          /\ n \div 2 \in Capacities /\ 2 * (n \div 2) = n
          /\ n \div 2 >= MinQueueLen
    /\ \A n \in Capacities : \A i \in 0..n : BitAnd(i, n - 1) = i % n

ASSUME ElemAssumption == Zero \notin Elem

VARIABLES buf,               \* the slots 0..len-1
          len,               \* len(buf)
          head, tail, count,
          result             \* what the last call returned: the value and err = nil

ringVars == <<buf, len, head, tail, count, result>>

Ok(v) == [val |-> v, ok |-> TRUE]
Err == [val |-> Zero, ok |-> FALSE]

\* The bitwise modulus of Push and Pop.
NextSlot(i, n) == BitAnd(i + 1, n - 1)

\* Mutant: only the piece up to the end of the buffer is copied
ResizedStraight(b, n, h, t, c) ==
    [i \in 0..(2 * c - 1) |->
        IF t > h THEN IF i < t - h THEN b[h + i] ELSE Zero
                 ELSE IF i < n - h THEN b[h + i] ELSE Zero]

(***************************************************************************)
(* The buffer resize allocates for a queue of c > 0 elements: twice as     *)
(* many slots, the contents copied to its front, in one piece or, when     *)
(* they wrap around the end (or fill the buffer), in two.                  *)
(***************************************************************************)
Resized(b, n, h, t, c) ==
    [i \in 0..(2 * c - 1) |->
        IF t > h
        THEN IF i < t - h THEN b[h + i] ELSE Zero
        ELSE IF i < n - h THEN b[h + i]
             ELSE IF i - (n - h) < t THEN b[i - (n - h)] ELSE Zero]

-----------------------------------------------------------------------------

RingInit ==
    /\ buf = [i \in 0..(MinQueueLen - 1) |-> Zero]
    /\ len = MinQueueLen
    /\ head = 0 /\ tail = 0 /\ count = 0
    /\ result = Ok(Zero)

PushFits(e) ==
    /\ count < MaxLen
    /\ count # len
    /\ buf' = [buf EXCEPT ![tail] = e]
    /\ tail' = NextSlot(tail, len)
    /\ count' = count + 1
    /\ result' = Ok(Zero)
    /\ UNCHANGED <<len, head>>

PushGrows(e) ==
    /\ count < MaxLen
    /\ count = len
    /\ buf' = [Resized(buf, len, head, tail, count) EXCEPT ![count] = e]
    /\ len' = 2 * count
    /\ head' = 0
    /\ tail' = NextSlot(count, 2 * count)
    /\ count' = count + 1
    /\ result' = Ok(Zero)

PopEmpty ==
    /\ count <= 0
    /\ result' = Err
    /\ UNCHANGED <<buf, len, head, tail, count>>

\* After the element is gone, the buffer is a quarter full and longer than minQueueLen.
QuarterFull == len > MinQueueLen /\ 4 * (count - 1) = len

PopKeeps ==
    /\ count > 0 /\ ~QuarterFull
    /\ buf' = [buf EXCEPT ![head] = Zero]
    /\ head' = NextSlot(head, len)
    /\ count' = count - 1
    /\ result' = Ok(buf[head])
    /\ UNCHANGED <<len, tail>>

PopShrinks ==
    /\ count > 0 /\ QuarterFull
    /\ buf' = Resized([buf EXCEPT ![head] = Zero], len,
                      NextSlot(head, len), tail, count - 1)
    /\ len' = 2 * (count - 1)
    /\ head' = 0
    /\ tail' = count - 1
    /\ count' = count - 1
    /\ result' = Ok(buf[head])

Peek ==
    /\ result' = IF count <= 0 THEN Err ELSE Ok(buf[head])
    /\ UNCHANGED <<buf, len, head, tail, count>>

RingNext ==
    \/ \E e \in Elem : PushFits(e) \/ PushGrows(e)
    \/ PopEmpty \/ PopKeeps \/ PopShrinks
    \/ Peek

RingSpec == RingInit /\ [][RingNext]_ringVars

-----------------------------------------------------------------------------
\* Properties

\* The slot i places behind the head of the ring.
Slot(i) == IF head + i < len THEN head + i ELSE head + i - len

\* How far slot j is behind the head: the inverse of Slot.
Offset(j) == IF j >= head THEN j - head ELSE j - head + len

(***************************************************************************)
(* The types of the fields.  The indices stay inside the buffer across     *)
(* every wrap-around and resize: Push and Pop never index out of range.    *)
(***************************************************************************)
RingTypeOK ==
    /\ len \in Capacities
    /\ head \in 0..(len - 1) /\ tail \in 0..(len - 1)
    /\ count \in 0..len
    /\ buf \in [0..(len - 1) -> Elem \cup {Zero}]
    /\ result \in [val : Elem \cup {Zero}, ok : BOOLEAN]

(***************************************************************************)
(* The ring is consistent after any sequence of Push and Pop, across the   *)
(* wrap-around and both directions of resize: tail is where the window of  *)
(* count slots that starts at head ends, that window holds elements, and   *)
(* every slot outside it was reset to the zero value, so that a popped     *)
(* element is not kept alive by the buffer (queue.go:45).                  *)
(***************************************************************************)
WindowInv ==
    /\ tail = IF count = len THEN head ELSE Slot(count)
    /\ \A j \in 0..(len - 1) : (buf[j] \in Elem) <=> (Offset(j) < count)

(***************************************************************************)
(* Memory follows the contents: a buffer longer than minQueueLen is always *)
(* more than a quarter full.  The code tests the quarter with ==, not <=,  *)
(* so this needs every halving to be taken exactly when it is due.         *)
(***************************************************************************)
CapacityInv == len >= MinQueueLen /\ (len > MinQueueLen => 4 * count > len)

\* The contents of the ring, oldest first: the refinement mapping.
Contents == [i \in 1..count |-> buf[Slot(i - 1)]]

Fifo == INSTANCE FifoQueue WITH items <- Contents, result <- result

(***************************************************************************)
(* The ring buffer is a FIFO queue: every call returns and leaves what the *)
(* abstract queue does, growing and shrinking included.                    *)
(***************************************************************************)
ImplementsFifo == Fifo!Spec
=============================================================================
