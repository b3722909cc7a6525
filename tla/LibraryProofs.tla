--------------------------- MODULE LibraryProofs ---------------------------
(***************************************************************************)
(* Proofs about the parts of the library that MCLibraries checks: the ring *)
(* queue, for every set of elements and every smallest buffer length that  *)
(* CapacityAssumption admits; the distributed lock, for every set of calls *)
(* and every number of resets; the pooled buffers and the cache of the REST*)
(* server, for every set of requests, URLs and buffers; and the code       *)
(* generator, for every sequence of commands and all module names that     *)
(* DistinctNames tells apart.  The parts share no state.                   *)
(***************************************************************************)
EXTENDS RingQueue, RedisLocker, RestServer, Generator, SequenceTheorems, TLAPS

-----------------------------------------------------------------------------
(***************************************************************************)
(* The ring queue                                                          *)
(***************************************************************************)
\* The inductive invariant.
RingInv == RingTypeOK /\ WindowInv /\ CapacityInv

\* The masked successor of a slot is the next one, or slot 0 after the last (queue.go:34,47).
LEMMA NextSlotWraps ==
    ASSUME NEW n \in Capacities, NEW i \in 0..(n - 1)
    PROVE  NextSlot(i, n) = IF i + 1 < n THEN i + 1 ELSE 0
<1>1. n \in Nat \ {0} /\ i \in Nat /\ i + 1 \in 0..n
  BY CapacityAssumption
<1>2. NextSlot(i, n) = (i + 1) % n
  BY <1>1, CapacityAssumption DEF NextSlot
<1>3. CASE i + 1 < n
  <2>1. (i + 1) % n = i + 1
    BY <1>1, <1>3
  <2> QED BY <1>2, <1>3, <2>1
<1>4. CASE i + 1 = n
  <2>1. n % n = 0
    BY <1>1
  <2> QED BY <1>2, <1>4, <2>1, <1>1
<1> QED BY <1>1, <1>3, <1>4

(***************************************************************************)
(* A length above minQueueLen is twice an even one, so that the quarter    *)
(* the shrink test of Pop waits for is a whole number (queue.go:50).       *)
(***************************************************************************)
LEMMA LongBufferIsMultipleOf4 ==
    ASSUME NEW n \in Capacities, n > MinQueueLen
    PROVE  n % 4 = 0
<1>1. n \in Nat /\ MinQueueLen \in Nat /\ n \div 2 \in Nat
  BY CapacityAssumption
<1>2. n = 2 * (n \div 2) /\ n \div 2 \in Capacities /\ n \div 2 >= MinQueueLen
  BY CapacityAssumption
<1>3. (n \div 2) % 2 = 0
  <2>1. CASE n \div 2 = MinQueueLen
    BY <2>1, CapacityAssumption
  <2>2. CASE n \div 2 > MinQueueLen
    <3>1. n \div 2 = 2 * ((n \div 2) \div 2)
      BY <1>2, <2>2, CapacityAssumption
    <3> QED BY <3>1, <1>1
  <2> QED BY <1>1, <1>2, <2>1, <2>2
<1> QED BY <1>1, <1>2, <1>3

(***************************************************************************)
(* resize keeps the contents and their order: the i-th element of the old  *)
(* window is in slot i of the new buffer and the other slots are free      *)
(* (queue.go:67-80).  Whether the window wraps, and whether the buffer is  *)
(* full (t = h), makes no difference.                                      *)
(***************************************************************************)
LEMMA ResizedKeepsWindow ==
    ASSUME NEW n \in Nat \ {0}, NEW h \in 0..(n - 1), NEW t \in 0..(n - 1),
           NEW c \in 1..n, NEW b,
           t = IF c = n THEN h ELSE IF h + c < n THEN h + c ELSE h + c - n
    PROVE  /\ DOMAIN Resized(b, n, h, t, c) = 0..(2 * c - 1)
           /\ \A i \in 0..(2 * c - 1) :
                Resized(b, n, h, t, c)[i] =
                  IF i < c THEN b[IF h + i < n THEN h + i ELSE h + i - n] ELSE Zero
<1>1. DOMAIN Resized(b, n, h, t, c) = 0..(2 * c - 1)
  BY DEF Resized
<1>2. ASSUME NEW i \in 0..(2 * c - 1)
      PROVE  Resized(b, n, h, t, c)[i] =
               IF i < c THEN b[IF h + i < n THEN h + i ELSE h + i - n] ELSE Zero
  <2>1. CASE t > h
    <3>1. t = h + c
      BY <2>1
    <3>2. i < c => h + i < n
      BY <3>1
    <3> QED BY <2>1, <3>1, <3>2 DEF Resized
  <2>2. CASE ~(t > h)
    <3>1. h + c - n = t /\ h + c >= n
      BY <2>2
    <3>2. i - (n - h) = h + i - n /\ (i - (n - h) < t <=> i < c) /\ (i < n - h <=> h + i < n)
      BY <3>1
    <3>3. h + i < n => i < c
      BY <3>1
    <3> QED BY <2>2, <3>2, <3>3 DEF Resized
  <2> QED BY <2>1, <2>2
<1> QED BY <1>1, <1>2

-----------------------------------------------------------------------------

\* The buffer that NewQueue makes is an empty window (queue.go:16-18).
LEMMA InitRing == RingInit => RingInv
<1> SUFFICES ASSUME RingInit PROVE RingInv
  OBVIOUS
<1>1. MinQueueLen \in Nat \ {0}
  BY CapacityAssumption
<1>2. RingTypeOK
  BY <1>1, CapacityAssumption DEF RingInit, RingTypeOK, Ok
<1>3. WindowInv
  BY <1>1, ElemAssumption DEF RingInit, WindowInv, Slot, Offset
<1>4. CapacityInv
  BY <1>1 DEF RingInit, CapacityInv
<1> QED BY <1>2, <1>3, <1>4 DEF RingInv

\* A Push with room left writes one slot and moves the tail (queue.go:33-35).
LEMMA PushFitsRing ==
    ASSUME RingInv, NEW e \in Elem, PushFits(e)
    PROVE  RingInv'
<1> USE DEF RingInv
<1>1. len \in Nat \ {0} /\ len \in Capacities
  BY CapacityAssumption DEF RingTypeOK
<1>2. tail' = IF tail + 1 < len THEN tail + 1 ELSE 0
  BY <1>1, NextSlotWraps DEF PushFits, RingTypeOK
<1>3. count < len /\ tail = Slot(count)
  BY <1>1 DEF PushFits, RingTypeOK, WindowInv
<1>4. RingTypeOK'
  BY <1>1, <1>2, <1>3 DEF PushFits, RingTypeOK, Ok
<1>5. WindowInv'
  <2>1. tail' = IF count' = len' THEN head' ELSE Slot(count)'
    BY <1>1, <1>2, <1>3 DEF PushFits, RingTypeOK, Slot
  <2>2. ASSUME NEW j \in 0..(len - 1)
        PROVE  (buf'[j] \in Elem) <=> (Offset(j)' < count')
    BY <1>1, <1>3 DEF PushFits, RingTypeOK, Slot, WindowInv, Offset
  <2>3. len' = len
    BY DEF PushFits
  <2>4. \A j \in 0..(len' - 1) : (buf'[j] \in Elem) <=> (Offset(j)' < count')
    BY <2>2, <2>3
  <2> QED BY <2>1, <2>4 DEF WindowInv
<1>6. CapacityInv'
  BY <1>1, CapacityAssumption DEF PushFits, RingTypeOK, CapacityInv
<1> QED BY <1>4, <1>5, <1>6

\* A Push on a full buffer copies it to one of twice the length first (queue.go:29-35).
LEMMA PushGrowsRing ==
    ASSUME RingInv, NEW e \in Elem, PushGrows(e)
    PROVE  RingInv'
<1> USE DEF RingInv
<1>1. /\ len \in Nat \ {0} /\ len \in Capacities /\ count = len /\ tail = head
      /\ 2 * count \in Capacities /\ head \in 0..(len - 1)
      /\ MinQueueLen \in Nat \ {0}
  BY CapacityAssumption DEF RingTypeOK, PushGrows, WindowInv
<1> DEFINE R == Resized(buf, len, head, tail, count)
<1>2. /\ DOMAIN R = 0..(2 * count - 1)
      /\ \A i \in 0..(2 * count - 1) :
           R[i] = IF i < count THEN buf[Slot(i)] ELSE Zero
  <2>1. tail \in 0..(len - 1) /\ count \in 1..len
    BY <1>1 DEF RingTypeOK
  <2>2. tail = IF count = len THEN head
               ELSE IF head + count < len THEN head + count ELSE head + count - len
    BY <1>1
  <2>3. /\ DOMAIN R = 0..(2 * count - 1)
        /\ \A i \in 0..(2 * count - 1) :
             R[i] = IF i < count THEN buf[IF head + i < len THEN head + i ELSE head + i - len]
                    ELSE Zero
    <3> HIDE DEF RingInv
    <3> QED BY <1>1, <2>1, <2>2, ResizedKeepsWindow
  <2> QED BY <2>3 DEF Slot
<1>3. \A i \in 0..(count - 1) : buf[Slot(i)] \in Elem
  BY <1>1 DEF WindowInv, Slot, Offset
<1>4. R \in [0..(2 * count - 1) -> Elem \cup {Zero}]
  <2>1. \A i \in 0..(2 * count - 1) : R[i] \in Elem \cup {Zero}
    BY <1>1, <1>2, <1>3
  <2>2. R = [i \in 0..(2 * count - 1) |-> R[i]]
    BY DEF Resized
  <2> QED BY <2>1, <2>2
<1> HIDE DEF R
<1>5. /\ buf' = [R EXCEPT ![count] = e] /\ len' = 2 * count /\ head' = 0
      /\ count' = count + 1 /\ result' = Ok(Zero)
      /\ tail' = IF count + 1 < 2 * count THEN count + 1 ELSE 0
  BY <1>1, NextSlotWraps DEF PushGrows, R
<1>6. RingTypeOK'
  BY <1>1, <1>4, <1>5 DEF RingTypeOK, Ok
<1>7. WindowInv'
  <2>1. tail' = IF count' = len' THEN head' ELSE Slot(count)'
    BY <1>1, <1>5 DEF Slot
  <2>2. ASSUME NEW j \in 0..(len' - 1)
        PROVE  (buf'[j] \in Elem) <=> (Offset(j)' < count')
    <3>1. Offset(j)' = j
      BY <1>1, <1>5 DEF Offset
    <3>2. buf'[j] = IF j = count THEN e ELSE IF j < count THEN buf[Slot(j)] ELSE Zero
      BY <1>1, <1>2, <1>4, <1>5
    <3> QED BY <1>1, <1>3, <1>5, <3>1, <3>2, ElemAssumption
  <2> QED BY <2>1, <2>2 DEF WindowInv
<1>8. CapacityInv'
  BY <1>1, <1>5 DEF CapacityInv
<1> QED BY <1>6, <1>7, <1>8

\* A Pop above the shrink threshold empties one slot and moves the head (queue.go:44-48).
LEMMA PopKeepsRing ==
    ASSUME RingInv, PopKeeps
    PROVE  RingInv'
<1> USE DEF RingInv
<1>1. /\ len \in Nat \ {0} /\ len \in Capacities /\ MinQueueLen \in Nat \ {0}
      /\ count \in 1..len /\ head \in 0..(len - 1)
  BY CapacityAssumption DEF RingTypeOK, PopKeeps
<1>2. head' = IF head + 1 < len THEN head + 1 ELSE 0
  BY <1>1, NextSlotWraps DEF PopKeeps
<1>3. RingTypeOK'
  BY <1>1, <1>2 DEF PopKeeps, RingTypeOK, Ok
<1>4. WindowInv'
  <2>1. tail' = IF count' = len' THEN head' ELSE Slot(count)'
    BY <1>1, <1>2 DEF PopKeeps, WindowInv, RingTypeOK, Slot
  <2>2. ASSUME NEW j \in 0..(len - 1)
        PROVE  (buf'[j] \in Elem) <=> (Offset(j)' < count')
    BY <1>1, <1>2, ElemAssumption DEF PopKeeps, RingTypeOK, WindowInv, Offset
  <2>3. len' = len
    BY DEF PopKeeps
  <2>4. \A j \in 0..(len' - 1) : (buf'[j] \in Elem) <=> (Offset(j)' < count')
    BY <2>2, <2>3
  <2> QED BY <2>1, <2>4 DEF WindowInv
<1>5. CapacityInv'
  <2>1. SUFFICES ASSUME len > MinQueueLen PROVE 4 * (count - 1) > len
    BY <1>1 DEF CapacityInv, PopKeeps
  <2>2. 4 * count > len /\ 4 * (count - 1) # len
    BY <2>1 DEF CapacityInv, PopKeeps, QuarterFull
  <2>3. len % 4 = 0
    BY <1>1, <2>1, LongBufferIsMultipleOf4
  <2> QED BY <1>1, <2>2, <2>3
<1> QED BY <1>3, <1>4, <1>5

\* A Pop that reaches a quarter of the buffer copies it to one of half the length (queue.go:50-52).
LEMMA PopShrinksRing ==
    ASSUME RingInv, PopShrinks
    PROVE  RingInv'
<1> USE DEF RingInv
<1> DEFINE c == count - 1
           h == NextSlot(head, len)
           b == [buf EXCEPT ![head] = Zero]
           R == Resized(b, len, h, tail, c)
<1>1. /\ len \in Nat \ {0} /\ len \in Capacities /\ MinQueueLen \in Nat \ {0}
      /\ count \in 1..len /\ head \in 0..(len - 1) /\ tail \in 0..(len - 1)
      /\ len > MinQueueLen /\ 4 * c = len
  <2>1. count > 0 /\ len > MinQueueLen /\ 4 * c = len
    BY DEF PopShrinks, QuarterFull
  <2> QED BY <2>1, CapacityAssumption DEF RingTypeOK
<1>2. /\ c \in 1..len /\ c < len /\ 2 * c \in Capacities /\ 2 * c >= MinQueueLen
  <2>1. len = 2 * (len \div 2) /\ len \div 2 \in Capacities /\ len \div 2 >= MinQueueLen
    BY <1>1, CapacityAssumption
  <2>2. len \div 2 = 2 * c
    BY <1>1
  <2> QED BY <1>1, <2>1, <2>2
<1>3. h = IF head + 1 < len THEN head + 1 ELSE 0
  BY <1>1, NextSlotWraps
<1>4. tail = IF c = len THEN h ELSE IF h + c < len THEN h + c ELSE h + c - len
  BY <1>1, <1>2, <1>3 DEF WindowInv, Slot
<1> HIDE DEF h
<1>5. /\ DOMAIN R = 0..(2 * c - 1)
      /\ \A i \in 0..(2 * c - 1) :
           R[i] = IF i < c THEN b[IF h + i < len THEN h + i ELSE h + i - len] ELSE Zero
  <2> HIDE DEF c, b
  <2>1. h \in 0..(len - 1)
    BY <1>1, <1>3
  <2> QED BY <1>1, <1>2, <1>4, <2>1, ResizedKeepsWindow
<1>6. \A i \in 0..(c - 1) : b[IF h + i < len THEN h + i ELSE h + i - len] \in Elem
  BY <1>1, <1>2, <1>3 DEF WindowInv, Offset, RingTypeOK
<1>7. R = [i \in 0..(2 * c - 1) |-> R[i]]
  BY DEF Resized
<1>8. /\ buf' = R /\ len' = 2 * c /\ head' = 0 /\ tail' = c /\ count' = c
      /\ result' = Ok(buf[head])
  BY DEF PopShrinks, h
<1> HIDE DEF R, b
<1>9. \A i \in 0..(2 * c - 1) : (R[i] \in Elem <=> i < c) /\ R[i] \in Elem \cup {Zero}
  BY <1>1, <1>5, <1>6, ElemAssumption
<1>10. RingTypeOK'
  <2>1. R \in [0..(2 * c - 1) -> Elem \cup {Zero}]
    BY <1>7, <1>9
  <2>2. buf[head] \in Elem \cup {Zero}
    BY <1>1 DEF RingTypeOK
  <2> QED BY <1>1, <1>2, <1>8, <2>1, <2>2 DEF RingTypeOK, Ok
<1>11. WindowInv'
  BY <1>1, <1>2, <1>8, <1>9 DEF WindowInv, Slot, Offset
<1>12. CapacityInv'
  BY <1>1, <1>2, <1>8 DEF CapacityInv
<1> QED BY <1>10, <1>11, <1>12

\* Every operation, the failing ones included, keeps the invariant.
LEMMA NextRing == RingInv /\ [RingNext]_ringVars => RingInv'
<1> SUFFICES ASSUME RingInv, [RingNext]_ringVars PROVE RingInv'
  OBVIOUS
<1>1. ASSUME NEW e \in Elem, PushFits(e) PROVE RingInv'
  BY <1>1, PushFitsRing
<1>2. ASSUME NEW e \in Elem, PushGrows(e) PROVE RingInv'
  BY <1>2, PushGrowsRing
<1>3. CASE PopKeeps
  BY <1>3, PopKeepsRing
<1>4. CASE PopShrinks
  BY <1>4, PopShrinksRing
<1>5. CASE PopEmpty \/ Peek \/ UNCHANGED ringVars
  <2>1. UNCHANGED <<buf, len, head, tail, count>>
    BY <1>5 DEF PopEmpty, Peek, ringVars
  <2>2. count > 0 => buf[head] \in Elem \cup {Zero}
    BY DEF RingInv, RingTypeOK
  <2>3. result' \in [val : Elem \cup {Zero}, ok : BOOLEAN]
    <3>1. result \in [val : Elem \cup {Zero}, ok : BOOLEAN] /\ count \in Int
      BY CapacityAssumption DEF RingInv, RingTypeOK
    <3>2. CASE PopEmpty
      BY <3>2 DEF PopEmpty, Err
    <3>3. CASE Peek
      <4>1. CASE count <= 0
        BY <3>3, <4>1 DEF Peek, Err
      <4>2. CASE count > 0
        BY <2>2, <3>1, <3>3, <4>2 DEF Peek, Ok
      <4> QED BY <3>1, <4>1, <4>2
    <3>4. CASE UNCHANGED ringVars
      BY <3>1, <3>4 DEF ringVars
    <3> QED BY <1>5, <3>2, <3>3, <3>4
  <2>4. RingTypeOK' /\ CapacityInv'
    BY <2>1, <2>3 DEF RingInv, RingTypeOK, CapacityInv
  <2>5. WindowInv'
    BY <2>1 DEF RingInv, WindowInv, Slot, Offset
  <2> QED BY <2>4, <2>5 DEF RingInv
<1> QED BY <1>1, <1>2, <1>3, <1>4, <1>5 DEF RingNext

(***************************************************************************)
(* After any sequence of calls the ring is well formed: its length is one  *)
(* of the capacities, tail closes the window, free slots are zeroed and a  *)
(* long buffer is more than a quarter full (queue.go:27-80).               *)
(***************************************************************************)
THEOREM RingInvariant == RingSpec => [](RingTypeOK /\ WindowInv /\ CapacityInv)
<1>1. RingSpec => []RingInv
  BY InitRing, NextRing, PTL DEF RingSpec
<1> QED BY <1>1, PTL DEF RingInv

-----------------------------------------------------------------------------
\* Refinement of FifoQueue

\* Under the invariant the mapping is a sequence of elements, count of them.
LEMMA ContentsIsSeq ==
    ASSUME RingInv
    PROVE  /\ Contents \in Seq(Elem) /\ Len(Contents) = count
           /\ \A i \in 1..count : Contents[i] = buf[Slot(i - 1)]
           /\ count > 0 => Contents # << >> /\ Head(Contents) = buf[head]
           /\ count <= 0 => Contents = << >>
<1>1. len \in Nat \ {0} /\ count \in Nat /\ count <= len /\ head \in 0..(len - 1)
  BY CapacityAssumption DEF RingInv, RingTypeOK
<1>2. \A i \in 1..count : buf[Slot(i - 1)] \in Elem
  BY <1>1 DEF RingInv, WindowInv, Slot, Offset
<1>3. Contents \in [1..count -> Elem]
  BY <1>2 DEF Contents
<1>4. Contents \in Seq(Elem) /\ Len(Contents) = count
  BY <1>1, <1>3
<1>5. \A i \in 1..count : Contents[i] = buf[Slot(i - 1)]
  BY DEF Contents
<1>6. count > 0 => Contents # << >> /\ Head(Contents) = Contents[1]
  BY <1>1, <1>4
<1>7. Slot(0) = head
  BY <1>1 DEF Slot
<1>8. count <= 0 => Contents = << >>
  BY <1>1, <1>4
<1> QED BY <1>1, <1>4, <1>5, <1>6, <1>7, <1>8

\* A Push, with or without a resize, appends to the FIFO sequence.
LEMMA PushRefines ==
    ASSUME RingInv, RingInv', NEW e \in Elem, PushFits(e) \/ PushGrows(e)
    PROVE  Fifo!Push(e)
<1>1. /\ len \in Nat \ {0} /\ len \in Capacities /\ count \in 0..len
      /\ head \in 0..(len - 1) /\ tail \in 0..(len - 1)
  BY CapacityAssumption DEF RingInv, RingTypeOK
<1>2. count' = count + 1 /\ result' = Ok(Zero)
  BY DEF PushFits, PushGrows
<1>3. ASSUME NEW i \in 1..(count + 1)
      PROVE  Contents'[i] = IF i <= count THEN Contents[i] ELSE e
  <2>1. Contents'[i] = buf'[Slot(i - 1)']
    BY <1>1, <1>2 DEF Contents
  <2>2. i <= count => Contents[i] = buf[Slot(i - 1)]
    BY <1>1 DEF Contents
  <2>3. CASE PushFits(e)
    <3>1. count < len /\ tail = Slot(count) /\ buf \in [0..(len - 1) -> Elem \cup {Zero}]
      BY <1>1, <2>3 DEF PushFits, RingInv, WindowInv, RingTypeOK
    <3>2. Slot(i - 1)' = Slot(i - 1) /\ Slot(i - 1) \in 0..(len - 1)
      BY <1>1, <2>3, <3>1 DEF PushFits, Slot
    <3>3. i <= count => Slot(i - 1) # tail
      BY <1>1, <3>1 DEF Slot
    <3>4. ~(i <= count) => Slot(i - 1) = tail
      BY <1>1, <3>1 DEF Slot
    <3>5. buf' = [buf EXCEPT ![tail] = e]
      BY <2>3 DEF PushFits
    <3> QED BY <1>1, <2>1, <2>2, <3>1, <3>2, <3>3, <3>4, <3>5
  <2>4. CASE PushGrows(e)
    <3>1. tail = head /\ count = len /\ head' = 0 /\ len' = 2 * count
      BY <1>1, <2>4 DEF PushGrows, RingInv, WindowInv
    <3>2. Slot(i - 1)' = i - 1
      BY <1>1, <3>1 DEF Slot
    <3>a. /\ len \in Nat \ {0} /\ head \in 0..(len - 1) /\ tail \in 0..(len - 1) /\ count \in 1..len
          /\ tail = IF count = len THEN head
                    ELSE IF head + count < len THEN head + count ELSE head + count - len
      BY <1>1, <3>1
    <3>3. /\ DOMAIN Resized(buf, len, head, tail, count) = 0..(2 * count - 1)
          /\ \A k \in 0..(2 * count - 1) :
               Resized(buf, len, head, tail, count)[k] =
                 IF k < count THEN buf[Slot(k)] ELSE Zero
      <4>1. /\ DOMAIN Resized(buf, len, head, tail, count) = 0..(2 * count - 1)
            /\ \A k \in 0..(2 * count - 1) :
                 Resized(buf, len, head, tail, count)[k] =
                   IF k < count THEN buf[IF head + k < len THEN head + k ELSE head + k - len] ELSE Zero
        BY <3>a, ResizedKeepsWindow
      <4> QED BY <4>1 DEF Slot
    <3>4. buf' = [Resized(buf, len, head, tail, count) EXCEPT ![count] = e]
      BY <2>4 DEF PushGrows
    <3>5. i - 1 \in 0..(2 * count - 1) /\ (i - 1 < count <=> i <= count)
      BY <1>1, <3>1
    <3>6. buf'[i - 1] = IF i - 1 = count THEN e
                        ELSE Resized(buf, len, head, tail, count)[i - 1]
      BY <3>3, <3>4, <3>5
    <3> QED BY <1>1, <2>1, <2>2, <3>2, <3>3, <3>5, <3>6
  <2> QED BY <2>3, <2>4
<1>4. Contents \in Seq(Elem) /\ Len(Contents) = count
  BY ContentsIsSeq
<1>5. Contents' = Append(Contents, e)
  <2>1. DOMAIN Contents' = 1..(count + 1) /\ Contents' = [i \in 1..(count + 1) |-> Contents'[i]]
    BY <1>2 DEF Contents
  <2> DEFINE A == Append(Contents, e)
  <2>2. /\ A \in Seq(Elem) /\ Len(A) = count + 1
        /\ \A i \in 1..(count + 1) : A[i] = IF i <= count THEN Contents[i] ELSE e
    BY <1>1, <1>4, AppendProperties
  <2> HIDE DEF A
  <2>3. A = [i \in 1..(count + 1) |-> A[i]]
    BY <2>2, LenProperties
  <2>4. Contents' = A
    BY <1>3, <2>1, <2>2, <2>3
  <2> QED BY <2>4 DEF A
<1> QED BY <1>2, <1>5 DEF Fifo!Push, Ok

\* A Pop, with or without a resize, removes the head of the FIFO sequence.
LEMMA PopRefines ==
    ASSUME RingInv, RingInv', PopKeeps \/ PopShrinks
    PROVE  Fifo!Pop
<1> DEFINE h == NextSlot(head, len)
           c == count - 1
           b == [buf EXCEPT ![head] = Zero]
<1>1. /\ len \in Nat \ {0} /\ len \in Capacities /\ count \in 1..len
      /\ head \in 0..(len - 1) /\ tail \in 0..(len - 1)
      /\ buf \in [0..(len - 1) -> Elem \cup {Zero}]
  BY CapacityAssumption DEF RingInv, RingTypeOK, PopKeeps, PopShrinks
<1>2. count' = c /\ result' = Ok(buf[head])
  BY DEF PopKeeps, PopShrinks
<1>3. h = IF head + 1 < len THEN head + 1 ELSE 0
  BY <1>1, NextSlotWraps
<1>4. ASSUME NEW i \in 1..c
      PROVE  Contents'[i] = Contents[i + 1]
  <2>1. Contents'[i] = buf'[Slot(i - 1)']
    BY <1>1, <1>2 DEF Contents
  <2>2. Contents[i + 1] = buf[Slot(i)]
    BY <1>1 DEF Contents
  <2>3. Slot(i) = IF h + (i - 1) < len THEN h + (i - 1) ELSE h + (i - 1) - len
    BY <1>1, <1>3 DEF Slot
  <2>4. Slot(i) # head /\ Slot(i) \in 0..(len - 1)
    BY <1>1 DEF Slot
  <2>5. b[Slot(i)] = buf[Slot(i)]
    BY <1>1, <2>4
  <2>6. CASE PopKeeps
    <3>1. Slot(i - 1)' = Slot(i)
      BY <2>3, <2>6 DEF PopKeeps, Slot
    <3> QED BY <2>1, <2>2, <2>5, <2>6, <3>1 DEF PopKeeps
  <2>7. CASE PopShrinks
    <3>1. len' = 2 * c /\ head' = 0 /\ buf' = Resized(b, len, h, tail, c) /\ 4 * c = len
      BY <2>7 DEF PopShrinks, QuarterFull
    <3>2. Slot(i - 1)' = i - 1
      BY <1>1, <3>1 DEF Slot
    <3>3. tail = IF c = len THEN h ELSE IF h + c < len THEN h + c ELSE h + c - len
      BY <1>1, <1>3, <3>1 DEF RingInv, WindowInv, Slot
    <3>4. h \in 0..(len - 1) /\ c \in 1..len /\ i - 1 \in 0..(2 * c - 1) /\ i - 1 < c
      BY <1>1, <1>3, <3>1
    <3> HIDE DEF h, c, b
    <3>5. Resized(b, len, h, tail, c)[i - 1] =
            b[IF h + (i - 1) < len THEN h + (i - 1) ELSE h + (i - 1) - len]
      <4>0. /\ len \in Nat \ {0} /\ h \in 0..(len - 1) /\ tail \in 0..(len - 1) /\ c \in 1..len
            /\ tail = IF c = len THEN h ELSE IF h + c < len THEN h + c ELSE h + c - len
        BY <1>1, <3>3, <3>4
      <4>1. \A k \in 0..(2 * c - 1) :
              Resized(b, len, h, tail, c)[k] =
                IF k < c THEN b[IF h + k < len THEN h + k ELSE h + k - len] ELSE Zero
        BY <4>0, ResizedKeepsWindow
      <4> QED BY <3>4, <4>1
    <3> QED BY <2>1, <2>2, <2>3, <2>5, <3>1, <3>2, <3>5
  <2> QED BY <2>6, <2>7
<1>5. /\ Contents \in Seq(Elem) /\ Len(Contents) = count
      /\ Contents # << >> /\ Head(Contents) = buf[head]
  BY <1>1, ContentsIsSeq
<1>6. Contents' = Tail(Contents)
  <2>1. Contents' = [i \in 1..c |-> Contents'[i]]
    BY <1>2 DEF Contents
  <2>2. Tail(Contents) = [i \in 1..c |-> Contents[i + 1]]
    BY <1>1, <1>5
  <2> QED BY <1>4, <2>1, <2>2
<1> QED BY <1>2, <1>5, <1>6 DEF Fifo!Pop, Ok

(***************************************************************************)
(* The ring buffer implements the FIFO queue: nothing is lost, duplicated  *)
(* or reordered by wrapping around, by growing or by shrinking.            *)
(***************************************************************************)
THEOREM RingImplementsFifo == RingSpec => ImplementsFifo
<1>1. RingInit => Fifo!Init
  <2> SUFFICES ASSUME RingInit PROVE Fifo!Init
    OBVIOUS
  <2>1. RingInv /\ count <= 0
    BY InitRing DEF RingInit
  <2>2. Contents = << >>
    BY <2>1, ContentsIsSeq
  <2> QED BY <2>2 DEF RingInit, Fifo!Init, Ok
<1>2. ASSUME RingInv, RingInv', [RingNext]_ringVars
      PROVE  [Fifo!Next]_(Fifo!fifoVars)
  <2>1. ASSUME NEW e \in Elem, PushFits(e) \/ PushGrows(e) PROVE Fifo!Next
    <3>1. Fifo!Push(e)
      BY <1>2, <2>1, PushRefines
    <3> QED BY <3>1 DEF Fifo!Next
  <2>2. CASE PopKeeps \/ PopShrinks
    <3>1. Fifo!Pop
      BY <1>2, <2>2, PopRefines
    <3> QED BY <3>1 DEF Fifo!Next
  <2>3. ASSUME UNCHANGED <<buf, len, head, tail, count>> PROVE Contents' = Contents
    BY <2>3 DEF Contents, Slot
  <2>4. CASE PopEmpty
    <3>1. Contents = << >> /\ Contents' = Contents
      BY <1>2, <2>3, <2>4, ContentsIsSeq DEF PopEmpty
    <3> QED BY <2>4, <3>1 DEF PopEmpty, Err, Fifo!Next, Fifo!Pop
  <2>5. CASE Peek
    <3>1. Contents' = Contents
      BY <2>3, <2>5 DEF Peek
    <3>2. count \in Nat
      BY <1>2, CapacityAssumption DEF RingInv, RingTypeOK
    <3>3. Contents = << >> <=> count <= 0
      BY <1>2, <3>2, ContentsIsSeq
    <3>4. count > 0 => Head(Contents) = buf[head]
      BY <1>2, ContentsIsSeq
    <3>5. result' = IF Contents = << >> THEN Err ELSE Ok(Head(Contents))
      BY <2>5, <3>2, <3>3, <3>4 DEF Peek
    <3> QED BY <3>1, <3>5 DEF Err, Ok, Fifo!Next, Fifo!Peek
  <2>6. CASE UNCHANGED ringVars
    BY <2>3, <2>6 DEF ringVars, Fifo!fifoVars
  <2> QED BY <1>2, <2>1, <2>2, <2>4, <2>5, <2>6 DEF RingNext
<1>3. RingSpec => []RingInv
  BY InitRing, NextRing, PTL DEF RingSpec
<1>4. RingSpec => Fifo!Spec
  BY <1>1, <1>2, <1>3, PTL DEF RingSpec, Fifo!Spec
<1> QED BY <1>4 DEF ImplementsFifo

-----------------------------------------------------------------------------
(***************************************************************************)
(* The distributed lock                                                    *)
(***************************************************************************)
\* The counter of pending events grows by one or not at all.
LEMMA DelEvents ==
    ASSUME NEW by, TypeOK, Del(by)
    PROVE  /\ key' = FALSE /\ ttl' = FALSE /\ stolen' \in BOOLEAN
           /\ events' \in [Call -> Nat]
           /\ \A c \in Call : key /\ Subscribed(c) => events'[c] > 0
<1>1. ASSUME NEW c \in Call
      PROVE  events[c] + (IF key /\ Subscribed(c) THEN 1 ELSE 0) \in Nat
  <2>1. events[c] \in Nat BY DEF TypeOK
  <2>2. CASE key /\ Subscribed(c) BY <2>1, <2>2
  <2>3. CASE ~(key /\ Subscribed(c)) BY <2>1, <2>3
  <2> QED BY <2>2, <2>3
<1>2. \A c \in Call : key /\ Subscribed(c) => events'[c] > 0
  BY DEF TypeOK, Del
<1>3. stolen' \in BOOLEAN BY DEF Del, TypeOK
<1> QED BY <1>1, <1>2, <1>3 DEF Del

\* INCR keeps the types.
LEMMA IncrTypes ==
    ASSUME TypeOK, Incr PROVE key' = TRUE /\ late' \in [Call -> BOOLEAN]
BY DEF TypeOK, Incr

(***************************************************************************)
(* TypeOK is kept by every step of the lock.                               *)
(***************************************************************************)
LEMMA TypeStep == TypeOK /\ [Next]_vars => TypeOK'
<1> SUFFICES ASSUME TypeOK, [Next]_vars PROVE TypeOK' OBVIOUS
<1> USE LockerAssumption
<1>1. CASE UNCHANGED vars BY <1>1 DEF vars, redis, TypeOK
<1>2. ASSUME NEW c \in Call, Caller(c) PROVE TypeOK'
  <2>1. CASE IsLocked(c)
    <3>1. key' = TRUE /\ late' \in [Call -> BOOLEAN] BY <2>1, IncrTypes DEF IsLocked
    <3>2. pc' \in [Call -> {"idle", "expire", "expireLocked", "subscribe", "wait", "timedOut",
                            "held", "locked", "error", "done"}]
      <4>1. Method[c] \in Methods OBVIOUS
      <4> QED BY <4>1, <2>1 DEF IsLocked, TypeOK, Methods
    <3>3. listener[c] \notin {"receive", "try", "send"} BY <2>1 DEF IsLocked, TypeOK
    <3> QED BY <3>1, <3>2, <3>3, <2>1 DEF IsLocked, TypeOK
  <2>2. CASE IsLockedTTL(c) BY <2>2 DEF IsLockedTTL, TypeOK
  <2>3. CASE Unlock(c)
    <3>1. Del({c}) BY <2>3 DEF Unlock
    <3> QED BY <3>1, <2>3, DelEvents DEF Unlock, TypeOK
  <2>4. CASE PSubscribe(c) BY <2>4 DEF PSubscribe, TypeOK, redis
  <2>5. CASE LockAcquired(c) BY <2>5 DEF LockAcquired, TypeOK, redis
  <2>6. CASE LockTimeout(c)
    <3>1. Del({c}) BY <2>6 DEF LockTimeout
    <3> QED BY <3>1, <2>6, DelEvents DEF LockTimeout, TypeOK
  <2>7. CASE LockClose(c) BY <2>7 DEF LockClose, TypeOK
  <2> QED BY <1>2, <2>1, <2>2, <2>3, <2>4, <2>5, <2>6, <2>7 DEF Caller
<1>3. ASSUME NEW c \in Call, Listener(c) PROVE TypeOK'
  <2>1. CASE Receive(c) BY <2>1 DEF Receive, TypeOK
  <2>2. CASE ListenerIsLocked(c)
    <3>1. key' = TRUE /\ late' \in [Call -> BOOLEAN] BY <2>2, IncrTypes DEF ListenerIsLocked
    <3> QED BY <3>1, <2>2 DEF ListenerIsLocked, TypeOK
  <2> QED BY <1>3, <2>1, <2>2 DEF Listener
<1>4. CASE Expire BY <1>4 DEF Expire, TypeOK
<1>5. CASE ResetKeys BY <1>5 DEF ResetKeys, TypeOK, redis
<1>6. CASE ResetDel
  <2>1. Del({}) BY <1>6 DEF ResetDel
  <2> QED BY <2>1, <1>6, DelEvents DEF ResetDel, TypeOK
<1> QED BY <1>1, <1>2, <1>3, <1>4, <1>5, <1>6 DEF Next

(***************************************************************************)
(* While nothing was stolen, a call that has the lock has the key as well: *)
(* with it OneHolder is inductive, for the lock is only taken when the key *)
(* does not exist.                                                         *)
(***************************************************************************)
HolderInv == OneHolder /\ (~stolen => \A c \in Call : Holds(c) => key)

\* HolderInv is kept by every step of the lock.
LEMMA HolderStep == TypeOK /\ HolderInv /\ [Next]_vars => HolderInv'
<1> SUFFICES ASSUME TypeOK, HolderInv, [Next]_vars, ~stolen'
             PROVE  /\ \A c, d \in Call : Holds(c)' /\ Holds(d)' => c = d
                    /\ \A c \in Call : Holds(c)' => key'
  BY DEF HolderInv, OneHolder
<1>0. ~stolen
  BY DEF Next, vars, Caller, Listener, IsLocked, IsLockedTTL, Unlock, PSubscribe, Receive,
         ListenerIsLocked, LockAcquired, LockTimeout, LockClose, Expire, ResetKeys, ResetDel, Del
<1>1. CASE UNCHANGED vars BY <1>0, <1>1 DEF vars, redis, HolderInv, OneHolder, Holds
\* A step that takes the lock for c finds no key; one that gives it up leaves no holder.
<1>2. ASSUME NEW c \in Call, ~key, key', \A d \in Call \ {c} : Holds(d)' => Holds(d)
      PROVE  /\ \A b, d \in Call : Holds(b)' /\ Holds(d)' => b = d
             /\ \A d \in Call : Holds(d)' => key'
  BY <1>0, <1>2 DEF HolderInv
<1>3. ASSUME key' = key, \A d \in Call : Holds(d)' => Holds(d)
      PROVE  /\ \A b, d \in Call : Holds(b)' /\ Holds(d)' => b = d
             /\ \A d \in Call : Holds(d)' => key'
  BY <1>0, <1>3 DEF HolderInv, OneHolder
<1>4. ASSUME \A d \in Call : ~Holds(d)'
      PROVE  /\ \A b, d \in Call : Holds(b)' /\ Holds(d)' => b = d
             /\ \A d \in Call : Holds(d)' => key'
  BY <1>4
<1>5. ASSUME NEW c \in Call, Caller(c)
      PROVE  /\ \A b, d \in Call : Holds(b)' /\ Holds(d)' => b = d
             /\ \A d \in Call : Holds(d)' => key'
  <2>1. CASE IsLocked(c)
    <3>1. key' = TRUE BY <2>1 DEF IsLocked, Incr
    <3>2. \A d \in Call \ {c} : Holds(d)' => Holds(d) BY <2>1 DEF IsLocked, Holds, TypeOK
    <3>3. CASE key
      <4>0. Method[c] \in Methods BY LockerAssumption
      <4>1. Holds(c)' => Holds(c) BY <4>0, <3>3, <2>1 DEF IsLocked, Holds, TypeOK, Methods
      <4> QED BY <4>1, <3>1, <3>2, <3>3, <1>3
    <3> QED BY <3>1, <3>2, <3>3, <1>2
  <2>2. CASE IsLockedTTL(c)
    <3>1. \A d \in Call : Holds(d)' => Holds(d) BY <2>2 DEF IsLockedTTL, Holds, TypeOK
    <3> QED BY <3>1, <2>2, <1>3 DEF IsLockedTTL
  <2>3. CASE Unlock(c)
    <3>1. \A d \in Call \ {c} : ~Holds(d) BY <2>3 DEF Unlock, Del
    <3>2. \A d \in Call : ~Holds(d)' BY <3>1, <2>3 DEF Unlock, Holds, TypeOK
    <3> QED BY <3>2, <1>4
  <2>4. CASE PSubscribe(c)
    <3>1. \A d \in Call : Holds(d)' => Holds(d) BY <2>4 DEF PSubscribe, Holds, TypeOK
    <3> QED BY <3>1, <2>4, <1>3 DEF PSubscribe, redis
  <2>5. CASE LockAcquired(c)
    <3>1. \A d \in Call : Holds(d)' => Holds(d) BY <2>5 DEF LockAcquired, Holds, TypeOK
    <3> QED BY <3>1, <2>5, <1>3 DEF LockAcquired, redis
  <2>6. CASE LockTimeout(c)
    <3>1. \A d \in Call \ {c} : ~Holds(d) BY <2>6 DEF LockTimeout, Del
    <3>2. \A d \in Call : ~Holds(d)' BY <3>1, <2>6 DEF LockTimeout, Holds, TypeOK
    <3> QED BY <3>2, <1>4
  <2>7. CASE LockClose(c)
    <3>1. \A d \in Call : Holds(d)' => Holds(d) BY <2>7 DEF LockClose, Holds, TypeOK
    <3> QED BY <3>1, <2>7, <1>3 DEF LockClose
  <2> QED BY <1>5, <2>1, <2>2, <2>3, <2>4, <2>5, <2>6, <2>7 DEF Caller
<1>6. ASSUME NEW c \in Call, Listener(c)
      PROVE  /\ \A b, d \in Call : Holds(b)' /\ Holds(d)' => b = d
             /\ \A d \in Call : Holds(d)' => key'
  <2>1. CASE Receive(c)
    <3>1. \A d \in Call : Holds(d)' => Holds(d) BY <2>1 DEF Receive, Holds, TypeOK
    <3> QED BY <3>1, <2>1, <1>3 DEF Receive
  <2>2. CASE ListenerIsLocked(c)
    <3>1. key' = TRUE BY <2>2 DEF ListenerIsLocked, Incr
    <3>2. \A d \in Call \ {c} : Holds(d)' => Holds(d) BY <2>2 DEF ListenerIsLocked, Holds, TypeOK
    <3>3. CASE key
      <4>1. Holds(c)' => Holds(c) BY <3>3, <2>2 DEF ListenerIsLocked, Holds, TypeOK
      <4> QED BY <4>1, <3>1, <3>2, <3>3, <1>3
    <3> QED BY <3>1, <3>2, <3>3, <1>2
  <2> QED BY <1>6, <2>1, <2>2 DEF Listener
<1>7. CASE Expire
  <2>1. \A d \in Call : ~Holds(d)' BY <1>7 DEF Expire, Holds
  <2> QED BY <2>1, <1>4
<1>8. CASE ResetKeys
  <2>1. \A d \in Call : Holds(d)' => Holds(d) BY <1>8 DEF ResetKeys, Holds
  <2> QED BY <2>1, <1>8, <1>3 DEF ResetKeys, redis
<1>9. CASE ResetDel
  <2>1. \A d \in Call : ~Holds(d)' BY <1>9 DEF ResetDel, Del, Holds
  <2> QED BY <2>1, <1>4
<1> QED BY <1>1, <1>5, <1>6, <1>7, <1>8, <1>9 DEF Next

(***************************************************************************)
(* NoLostWakeup is inductive together with the fact that the goroutine of  *)
(* a waiting call has not ended.                                           *)
(***************************************************************************)
WakeupInv ==
    /\ NoLostWakeup
    /\ \A c \in Call : pc[c] = "wait" => listener[c] \in {"receive", "try", "send"}

\* WakeupInv is kept by every step of the lock.
LEMMA WakeupStep == TypeOK /\ WakeupInv /\ [Next]_vars => WakeupInv'
<1> SUFFICES ASSUME TypeOK, WakeupInv, [Next]_vars,
                    NEW b \in Call, pc'[b] = "wait"
             PROVE  /\ listener'[b] \in {"receive", "try", "send"}
                    /\ ~key' /\ ~late'[b] =>
                          \/ listener'[b] = "receive" /\ events'[b] > 0
                          \/ listener'[b] \in {"try", "send"}
  BY DEF WakeupInv, NoLostWakeup
<1> USE DEF WakeupInv, NoLostWakeup, TypeOK
<1>1. CASE UNCHANGED vars BY <1>1 DEF vars, redis
<1>2. ASSUME NEW c \in Call, Caller(c)
      PROVE  /\ listener'[b] \in {"receive", "try", "send"}
             /\ ~key' /\ ~late'[b] =>
                   \/ listener'[b] = "receive" /\ events'[b] > 0
                   \/ listener'[b] \in {"try", "send"}
  <2>1. CASE IsLocked(c)
    <3>1. pc[b] = "wait"
      <4>0. Method[c] \in Methods BY LockerAssumption
      <4> QED BY <4>0, <2>1 DEF IsLocked, Methods
    <3> QED BY <3>1, <2>1 DEF IsLocked, Incr
  <2>2. CASE IsLockedTTL(c) BY <2>2 DEF IsLockedTTL
  <2>3. CASE Unlock(c)
    <3>1. pc[b] = "wait" /\ Del({c}) /\ listener' = listener /\ late' = late BY <2>3 DEF Unlock
    <3>2. CASE key
      <4>1. events'[b] > 0 BY <3>1, <3>2, DelEvents DEF Subscribed
      <4> QED BY <3>1, <4>1
    <3>3. CASE ~key
      <4>1. events'[b] = events[b] BY <3>1, <3>3 DEF Del
      <4> QED BY <3>1, <3>3, <4>1
    <3> QED BY <3>2, <3>3
  <2>4. CASE PSubscribe(c) BY <2>4 DEF PSubscribe, redis
  <2>5. CASE LockAcquired(c) BY <2>5 DEF LockAcquired, redis
  <2>6. CASE LockTimeout(c)
    <3>1. /\ b # c /\ pc[b] = "wait" /\ Del({c})
          /\ listener'[b] = listener[b] /\ late' = late
      BY <2>6 DEF LockTimeout
    <3>2. CASE key
      <4>1. events'[b] > 0 BY <3>1, <3>2, DelEvents DEF Subscribed
      <4> QED BY <3>1, <4>1
    <3>3. CASE ~key
      <4>1. events'[b] = events[b] BY <3>1, <3>3 DEF Del
      <4> QED BY <3>1, <3>3, <4>1
    <3> QED BY <3>2, <3>3
  <2>7. CASE LockClose(c) BY <2>7 DEF LockClose
  <2> QED BY <1>2, <2>1, <2>2, <2>3, <2>4, <2>5, <2>6, <2>7 DEF Caller
<1>3. ASSUME NEW c \in Call, Listener(c)
      PROVE  /\ listener'[b] \in {"receive", "try", "send"}
             /\ ~key' /\ ~late'[b] =>
                   \/ listener'[b] = "receive" /\ events'[b] > 0
                   \/ listener'[b] \in {"try", "send"}
  <2>1. CASE Receive(c) BY <2>1 DEF Receive
  <2>2. CASE ListenerIsLocked(c) BY <2>2 DEF ListenerIsLocked, Incr
  <2> QED BY <1>3, <2>1, <2>2 DEF Listener
<1>4. CASE Expire BY <1>4 DEF Expire
<1>5. CASE ResetKeys BY <1>5 DEF ResetKeys, redis
<1>6. CASE ResetDel
  <2>1. pc[b] = "wait" /\ Del({}) /\ listener' = listener /\ late' = late BY <1>6 DEF ResetDel
  <2>2. CASE key
    <3>1. events'[b] > 0 BY <2>1, <2>2, DelEvents DEF Subscribed
    <3> QED BY <2>1, <3>1
  <2>3. CASE ~key
    <3>1. events'[b] = events[b] BY <2>1, <2>3 DEF Del
    <3> QED BY <2>1, <2>3, <3>1
  <2> QED BY <2>2, <2>3
<1> QED BY <1>1, <1>2, <1>3, <1>4, <1>5, <1>6 DEF Next

-----------------------------------------------------------------------------
(***************************************************************************)
(* The types hold, and only a call that has subscribed has a goroutine     *)
(* that listens, for every set of calls of Lock, IsLocked and IsLockedTTL. *)
(***************************************************************************)
THEOREM LockerTypes == Spec => []TypeOK
<1>1. ASSUME Init PROVE TypeOK
  <2>1. resets \in 0..MaxResets BY <1>1, LockerAssumption DEF Init
  <2> QED BY <1>1, <2>1 DEF Init, TypeOK
<1> QED BY <1>1, TypeStep, PTL DEF Spec

(***************************************************************************)
(* At most one call has the lock until its key is deleted by Reset, an     *)
(* expiry or the timeout of another Lock.                                  *)
(***************************************************************************)
THEOREM LockExcludes == Spec => []OneHolder
<1>1. Init => HolderInv BY DEF Init, HolderInv, OneHolder, Holds
<1>2. HolderInv => OneHolder BY DEF HolderInv
<1> QED BY <1>1, <1>2, HolderStep, LockerTypes, PTL DEF Spec

(***************************************************************************)
(* A Lock call that was subscribed when the key was deleted is woken.      *)
(***************************************************************************)
THEOREM LockWakes == Spec => []NoLostWakeup
<1>1. Init => WakeupInv BY DEF Init, WakeupInv, NoLostWakeup
<1>2. WakeupInv => NoLostWakeup BY DEF WakeupInv
<1> QED BY <1>1, <1>2, WakeupStep, LockerTypes, PTL DEF Spec

-----------------------------------------------------------------------------
(***************************************************************************)
(* The buffers and the cache of the REST server                            *)
(***************************************************************************)
\* What a buffer, an answer or a log line can be
Content ==
    {None, "corrupt", "dropped", "error", "mixed"} \cup ({"req", "res", "log", "cut"} \X Request)

ReqType ==
    [pc : {"idle", "logBody", "resBody", "cache", "handler", "expire", "log", "done"},
     profile : Profile \cup {None}, alias : Buffer \cup {None},
     resBody : Buffer \cup {None}, cacheBody : Buffer \cup {None},
     read : Content, written : {None, "small", "large"}, status : {200, 404},
     answer : Content, sent : Content, logged : Content]

ArrayType == [Pool -> [Buffer -> Content]]
HeldType == [Pool -> SUBSET Buffer]
EntryType == [Url -> {None} \cup [body : Content, ttl : BOOLEAN, status : {200, 404}]]

RestTypeOK ==
    /\ req \in [Request -> ReqType] /\ array \in ArrayType /\ held \in HeldType
    /\ entry \in EntryType

(***************************************************************************)
(* A request with the record x, with the buffers of a of which h are given *)
(* out, has its buffers from Get on, they hold what it has answered, of    *)
(* which the client got all or less, and what is logged was answered.      *)
(***************************************************************************)
Sound(r, x, a, h) ==
    /\ x.pc # "idle" => x.profile \in Profile
    /\ x.pc \in {"idle", "logBody", "resBody", "cache"} => x.written = None /\ x.cacheBody = None
    /\ x.pc \in {"cache", "handler", "expire", "log"} => x.profile.excluded \/ x.resBody # None
    /\ x.resBody # None =>
          x.resBody \in h["tracer"] /\ (x.written = "small" => a["tracer"][x.resBody] = x.answer)
    /\ x.cacheBody # None =>
          x.cacheBody \in h["cache"] /\ (x.written # None => a["cache"][x.cacheBody] = Tag("res", r))
    /\ x.pc # "done" /\ x.written # None => x.sent \in {x.answer, Tag("cut", r)}
    /\ x.logged # None =>
          x.pc = "done" /\ x.logged = x.answer /\ x.sent \in {x.answer, Tag("cut", r)}

\* No buffer is in the hands of two requests.
Apart(x, y) ==
    /\ x.resBody # None => x.resBody # y.resBody
    /\ x.cacheBody # None => x.cacheBody # y.cacheBody

\* What the cache has is the answer of a request that is past its arrival.
CacheSound ==
    \A k \in Url : entry[k] # None /\ entry[k].body # "corrupt" =>
        /\ entry[k].status < 400
        /\ \E r \in Request : /\ entry[k].body = Tag("res", r) /\ req[r].pc # "idle"
                              /\ req[r].profile.url = k

RestInv ==
    /\ RestTypeOK /\ CacheSound
    /\ \A r \in Request : Sound(r, req[r], array, held)
    /\ \A r, q \in Request : r # q => Apart(req[r], req[q])

\* A field of the record of a request can be changed to any value of its type.
LEMMA FieldTypes ==
    ASSUME NEW y \in ReqType
    PROVE  /\ \A l \in {"logBody", "resBody", "cache", "handler", "expire", "log", "done"} :
                [y EXCEPT !.pc = l] \in ReqType
           /\ \A p \in Profile : [y EXCEPT !.profile = p] \in ReqType
           /\ \A b \in Buffer : /\ [y EXCEPT !.alias = b] \in ReqType
                                /\ [y EXCEPT !.resBody = b] \in ReqType
           /\ \A b \in Buffer \cup {None} : [y EXCEPT !.cacheBody = b] \in ReqType
           /\ \A t \in Content : /\ [y EXCEPT !.read = t] \in ReqType
                                 /\ [y EXCEPT !.sent = t] \in ReqType
           /\ \A size \in {"small", "large"} : [y EXCEPT !.written = size] \in ReqType
  BY DEF ReqType

(***************************************************************************)
(* The records that the steps of a request y lead to: only the fields that *)
(* the step assigns change.                                                *)
(***************************************************************************)
Arrived(y, p, l) == [y EXCEPT !.profile = p, !.pc = l]
Moved(y, l) == [y EXCEPT !.pc = l]
HasRead(y, t) == [y EXCEPT !.read = t]
Aliased(y, b) == [y EXCEPT !.pc = "resBody", !.alias = b]
Logging(y, b) == [y EXCEPT !.pc = "cache", !.resBody = b]
Copying(y, b) == [y EXCEPT !.pc = "handler", !.cacheBody = b]
Responded(y, l, t, size, status, got) ==
    [y EXCEPT !.pc = l, !.answer = t, !.written = size, !.status = status, !.sent = got]
PutBack(y) == [y EXCEPT !.pc = "log", !.cacheBody = None, !.status = 200]

\* A request of the profile p goes on to l.
LEMMA ArrivedRecord ==
    ASSUME NEW y \in ReqType, NEW p \in Profile, NEW l, l \in {"cache", "logBody", "resBody"}
    PROVE  LET x == Arrived(y, p, l) IN
              /\ x \in ReqType /\ x.pc = l /\ x.profile = p /\ x.resBody = y.resBody
              /\ x.cacheBody = y.cacheBody /\ x.written = y.written /\ x.sent = y.sent /\ x.logged = y.logged
              /\ x.answer = y.answer
<1>1. Arrived(y, p, l) \in ReqType
  BY FieldTypes DEF Arrived
<1> QED BY <1>1 DEF ReqType, Arrived

\* A request goes on to l.
LEMMA MovedRecord ==
    ASSUME NEW y \in ReqType, NEW l, l \in {"handler", "expire"}
    PROVE  LET x == Moved(y, l) IN
              /\ x \in ReqType /\ x.pc = l /\ x.profile = y.profile /\ x.resBody = y.resBody
              /\ x.cacheBody = y.cacheBody /\ x.written = y.written /\ x.sent = y.sent /\ x.logged = y.logged
              /\ x.answer = y.answer
<1>1. Moved(y, l) \in ReqType
  BY FieldTypes DEF Moved
<1> QED BY <1>1 DEF ReqType, Moved

\* The handler has read t.
LEMMA HasReadRecord ==
    ASSUME NEW y \in ReqType, NEW t \in Content
    PROVE  LET x == HasRead(y, t) IN
              /\ x \in ReqType /\ x.pc = y.pc /\ x.profile = y.profile /\ x.resBody = y.resBody
              /\ x.cacheBody = y.cacheBody /\ x.written = y.written /\ x.sent = y.sent /\ x.logged = y.logged
              /\ x.answer = y.answer
<1>1. HasRead(y, t) \in ReqType
  BY FieldTypes DEF HasRead
<1> QED BY <1>1 DEF ReqType, HasRead

\* The body is read again from b.
LEMMA AliasedRecord ==
    ASSUME NEW y \in ReqType, NEW b \in Buffer
    PROVE  LET x == Aliased(y, b) IN
              /\ x \in ReqType /\ x.pc = "resBody" /\ x.profile = y.profile /\ x.resBody = y.resBody
              /\ x.cacheBody = y.cacheBody /\ x.written = y.written /\ x.sent = y.sent /\ x.logged = y.logged
              /\ x.answer = y.answer
<1>1. Aliased(y, b) \in ReqType
  BY FieldTypes DEF Aliased
<1> QED BY <1>1 DEF ReqType, Aliased

\* Tracer copies the response to b.
LEMMA LoggingRecord ==
    ASSUME NEW y \in ReqType, NEW b \in Buffer
    PROVE  LET x == Logging(y, b) IN
              /\ x \in ReqType /\ x.pc = "cache" /\ x.profile = y.profile /\ x.resBody = b
              /\ x.cacheBody = y.cacheBody /\ x.written = y.written /\ x.sent = y.sent /\ x.logged = y.logged
              /\ x.answer = y.answer
<1>1. Logging(y, b) \in ReqType
  BY FieldTypes DEF Logging
<1> QED BY <1>1 DEF ReqType, Logging

\* HTTPCache copies the response to b.
LEMMA CopyingRecord ==
    ASSUME NEW y \in ReqType, NEW b \in Buffer
    PROVE  LET x == Copying(y, b) IN
              /\ x \in ReqType /\ x.pc = "handler" /\ x.profile = y.profile /\ x.resBody = y.resBody
              /\ x.cacheBody = b /\ x.written = y.written /\ x.sent = y.sent /\ x.logged = y.logged
              /\ x.answer = y.answer
<1>1. Copying(y, b) \in ReqType
  BY FieldTypes DEF Copying
<1> QED BY <1>1 DEF ReqType, Copying

\* The request is answered with t, of which the client has got, and goes on to l.
LEMMA RespondedRecord ==
    ASSUME NEW y \in ReqType, NEW l, l \in {"handler", "log"}, NEW t \in Content,
           NEW size, size \in {"small", "large"}, NEW status, status \in {200, 404},
           NEW got \in Content
    PROVE  LET x == Responded(y, l, t, size, status, got) IN
              /\ x \in ReqType /\ x.pc = l /\ x.profile = y.profile /\ x.resBody = y.resBody
              /\ x.cacheBody = y.cacheBody /\ x.written = size /\ x.sent = got
              /\ x.logged = y.logged /\ x.answer = t
<1> DEFINE u == [y EXCEPT !.pc = l, !.answer = t]
           v == [u EXCEPT !.written = size]
           w == [v EXCEPT !.status = status]
<1>1. u \in ReqType
  <2> DEFINE z == [y EXCEPT !.pc = l]
  <2>1. z \in ReqType
    BY FieldTypes
  <2> HIDE DEF z
  <2>2. [z EXCEPT !.answer = t] \in ReqType
    BY <2>1 DEF ReqType
  <2> QED BY <2>2 DEF z
<1> HIDE DEF u
<1>2. v \in ReqType
  BY <1>1, FieldTypes
<1> HIDE DEF v
<1>3. w \in ReqType
  BY <1>2 DEF ReqType
<1> HIDE DEF w
<1>4. [w EXCEPT !.sent = got] \in ReqType
  BY <1>3, FieldTypes
<1>5. Responded(y, l, t, size, status, got) \in ReqType
  BY <1>4 DEF u, v, w, Responded
<1> QED BY <1>5 DEF ReqType, Responded

\* The buffer of HTTPCache is back in the pool.
LEMMA PutBackRecord ==
    ASSUME NEW y \in ReqType
    PROVE  LET x == PutBack(y) IN
              /\ x \in ReqType /\ x.pc = "log" /\ x.profile = y.profile /\ x.resBody = y.resBody
              /\ x.cacheBody = None /\ x.written = y.written /\ x.sent = y.sent /\ x.logged = y.logged
              /\ x.answer = y.answer
<1> DEFINE z == [y EXCEPT !.pc = "log", !.cacheBody = None]
<1>1. z \in ReqType
  BY FieldTypes
<1> HIDE DEF z
<1>2. [z EXCEPT !.status = 200] \in ReqType
  BY <1>1 DEF ReqType
<1>3. PutBack(y) \in ReqType
  BY <1>2 DEF z, PutBack
<1> QED BY <1>3 DEF ReqType, PutBack

\* The record of r becomes x.
LEMMA ReqUpdate ==
    ASSUME RestInv, NEW r \in Request, NEW x \in ReqType, req' = [req EXCEPT ![r] = x]
    PROVE  /\ req' \in [Request -> ReqType] /\ req'[r] = x
           /\ \A q \in Request : q # r => req'[q] = req[q]
  BY DEF RestInv, RestTypeOK

\* The buffers of the others are still theirs, and hold what they held, when r has x.
Undisturbed(r, x) ==
    \A q \in Request : q # r =>
        /\ req[q].resBody # None =>
              /\ req[q].resBody \in held'["tracer"] /\ req[q].resBody # x.resBody
              /\ array'["tracer"][req[q].resBody] = array["tracer"][req[q].resBody]
        /\ req[q].cacheBody # None =>
              /\ req[q].cacheBody \in held'["cache"] /\ req[q].cacheBody # x.cacheBody
              /\ array'["cache"][req[q].cacheBody] = array["cache"][req[q].cacheBody]

(***************************************************************************)
(* A step of the request r, whose record becomes x, keeps the invariant    *)
(* when it leaves alone the buffers that others have.                      *)
(***************************************************************************)
LEMMA RequestStep ==
    ASSUME RestInv, NEW r \in Request, NEW x \in ReqType, req' = [req EXCEPT ![r] = x],
           array' \in ArrayType, held' \in HeldType, entry' \in EntryType,
           Sound(r, x, array', held'), CacheSound', Undisturbed(r, x)
    PROVE  RestInv'
<1>1. /\ req' \in [Request -> ReqType] /\ req'[r] = x
      /\ \A q \in Request : q # r => req'[q] = req[q]
  BY ReqUpdate
<1>2. \A q \in Request : Sound(q, req'[q], array', held')
  <2> SUFFICES ASSUME NEW q \in Request, q # r
               PROVE  Sound(q, req[q], array', held')
    BY <1>1
  <2>1. Sound(q, req[q], array, held)
    BY DEF RestInv
  <2> QED BY <2>1 DEF Sound, Undisturbed
<1>3. \A p, q \in Request : p # q => Apart(req'[p], req'[q])
  <2> SUFFICES ASSUME NEW p \in Request, NEW q \in Request, p # q
               PROVE  Apart(req'[p], req'[q])
    OBVIOUS
  <2>1. Apart(req[p], req[q])
    BY DEF RestInv
  <2>2. CASE p # r /\ q # r
    BY <1>1, <2>1, <2>2
  <2>3. CASE p = r
    BY <1>1, <2>3 DEF Apart, Undisturbed
  <2>4. CASE q = r
    BY <1>1, <2>4 DEF Apart, Undisturbed
  <2> QED BY <2>2, <2>3, <2>4
<1> QED BY <1>1, <1>2, <1>3 DEF RestInv, RestTypeOK

\* What the cache has stays sound while nothing is stored.
LEMMA CacheKept ==
    ASSUME RestInv, NEW r \in Request, NEW x \in ReqType, req' = [req EXCEPT ![r] = x],
           x.pc # "idle", req[r].pc # "idle" => x.profile = req[r].profile,
           \A k \in Url : entry'[k] # None =>
              /\ entry[k] # None
              /\ entry'[k].body = entry[k].body /\ entry'[k].status = entry[k].status
    PROVE  CacheSound'
<1> SUFFICES ASSUME NEW k \in Url, entry'[k] # None, entry'[k].body # "corrupt"
             PROVE  /\ entry'[k].status < 400
                    /\ \E q \in Request : /\ entry'[k].body = Tag("res", q) /\ req'[q].pc # "idle"
                                          /\ req'[q].profile.url = k
  BY DEF CacheSound, Tag
<1>1. /\ entry[k].status < 400
      /\ \E q \in Request : /\ entry[k].body = Tag("res", q) /\ req[q].pc # "idle"
                            /\ req[q].profile.url = k
  BY DEF RestInv, CacheSound
<1>2. /\ req' \in [Request -> ReqType] /\ req'[r] = x
      /\ \A q \in Request : q # r => req'[q] = req[q]
  BY ReqUpdate
<1> QED BY <1>1, <1>2

\* What a request may rely on
LEMMA RestFacts ==
    ASSUME RestInv, NEW r \in Request
    PROVE  /\ req[r] \in ReqType /\ Sound(r, req[r], array, held)
           /\ req[r].resBody \in Buffer \cup {None} /\ req[r].cacheBody \in Buffer \cup {None}
           /\ req[r].pc # "idle" => req[r].profile \in Profile /\ req[r].profile.url \in Url
           /\ req[r].pc # "done" => req[r].logged = None
           /\ array \in ArrayType /\ held \in HeldType /\ entry \in EntryType
           /\ "tracer" \in Pool /\ "cache" \in Pool
<1>1. req[r] \in ReqType /\ Sound(r, req[r], array, held)
  BY DEF RestInv, RestTypeOK
<1>2. req[r].pc # "idle" => req[r].profile \in Profile /\ req[r].profile.url \in Url
  BY <1>1, ProfileAssumption DEF Sound
<1>3. req[r].pc # "done" => req[r].logged = None
  BY <1>1 DEF Sound
<1>4. req[r].resBody \in Buffer \cup {None} /\ req[r].cacheBody \in Buffer \cup {None}
  BY <1>1 DEF ReqType
<1> QED BY <1>1, <1>2, <1>3, <1>4 DEF RestInv, RestTypeOK, Pool

(***************************************************************************)
(* What a step has to do for the others: keep the buffers that are given   *)
(* out, except those of r, as they are.                                    *)
(***************************************************************************)
LEMMA LeavesOthers ==
    ASSUME RestInv, NEW r \in Request, NEW x,
           x.resBody \in {None, req[r].resBody} \cup (Buffer \ held["tracer"]),
           x.cacheBody \in {None, req[r].cacheBody} \cup (Buffer \ held["cache"]),
           \A b \in Buffer :
              /\ b \in held["tracer"] /\ b # req[r].resBody =>
                    b \in held'["tracer"] /\ array'["tracer"][b] = array["tracer"][b]
              /\ b \in held["cache"] /\ b # req[r].cacheBody =>
                    b \in held'["cache"] /\ array'["cache"][b] = array["cache"][b]
    PROVE  Undisturbed(r, x)
<1> SUFFICES ASSUME NEW q \in Request, q # r
             PROVE  /\ req[q].resBody # None =>
                         /\ req[q].resBody \in held'["tracer"] /\ req[q].resBody # x.resBody
                         /\ array'["tracer"][req[q].resBody] = array["tracer"][req[q].resBody]
                    /\ req[q].cacheBody # None =>
                         /\ req[q].cacheBody \in held'["cache"] /\ req[q].cacheBody # x.cacheBody
                         /\ array'["cache"][req[q].cacheBody] = array["cache"][req[q].cacheBody]
  BY DEF Undisturbed
<1>1. Sound(q, req[q], array, held) /\ Apart(req[q], req[r])
  BY DEF RestInv
<1>2. /\ req[q].resBody # None =>
           /\ req[q].resBody \in Buffer /\ req[q].resBody \in held["tracer"]
           /\ req[q].resBody # req[r].resBody
      /\ req[q].cacheBody # None =>
           /\ req[q].cacheBody \in Buffer /\ req[q].cacheBody \in held["cache"]
           /\ req[q].cacheBody # req[r].cacheBody
  BY <1>1, RestFacts DEF Sound, Apart
<1> QED BY <1>2

\* A request that arrives, goes on to its handler without a buffer, or reads its body.
LEMMA QuietSteps ==
    ASSUME RestInv, NEW r \in Request,
           \/ \E p \in Profile : Arrive(r, p)
           \/ Uncached(r) \/ Corrupt(r) \/ HandlerRead(r)
    PROVE  RestInv'
<1> DEFINE y == req[r]
<1>0. /\ y \in ReqType /\ Sound(r, y, array, held)
      /\ y.pc # "idle" => y.profile \in Profile
      /\ y.pc # "done" => y.logged = None
      /\ array \in ArrayType /\ held \in HeldType /\ entry \in EntryType
  BY RestFacts
<1>1. ASSUME NEW x \in ReqType, req' = [req EXCEPT ![r] = x], UNCHANGED <<array, held>>,
             \A k \in Url : entry'[k] # None => entry'[k] = entry[k],
             entry' \in EntryType, y.pc # "done",
             x.pc # "idle" /\ x.profile \in Profile /\ (y.pc # "idle" => x.profile = y.profile),
             x.resBody = y.resBody /\ x.cacheBody = y.cacheBody,
             x.written = y.written /\ x.sent = y.sent /\ x.logged = y.logged,
             x.answer = y.answer,
             x.pc \in {"logBody", "resBody", "cache"} => y.pc = "idle",
             x.pc \in {"cache", "handler", "expire", "log"} =>
                x.profile.excluded \/ y.pc \in {"cache", "handler"}
      PROVE  RestInv'
  <2>1. CacheSound'
    BY <1>1, CacheKept
  <2>2. Sound(r, x, array', held')
    BY <1>0, <1>1 DEF Sound
  <2>3. Undisturbed(r, x)
    BY <1>1, LeavesOthers
  <2> QED BY <1>0, <1>1, <2>1, <2>2, <2>3, RequestStep
<1>2. ASSUME NEW p \in Profile, Arrive(r, p)
      PROVE  RestInv'
  <2> DEFINE l == IF p.excluded THEN "cache"
                  ELSE IF p.traced /\ p.body = "small" THEN "logBody" ELSE "resBody"
             x == Arrived(y, p, l)
  <2>1. l \in {"cache", "logBody", "resBody"} /\ (l = "cache" => p.excluded)
    OBVIOUS
  <2>2. req' = [req EXCEPT ![r] = x] /\ UNCHANGED <<array, held, entry>> /\ y.pc = "idle"
    BY <1>2 DEF Arrive, At, Arrived
  <2> HIDE DEF l
  <2>3. /\ x \in ReqType /\ x.pc = l /\ x.profile = p /\ x.resBody = y.resBody
        /\ x.cacheBody = y.cacheBody /\ x.written = y.written /\ x.sent = y.sent
        /\ x.logged = y.logged /\ x.answer = y.answer
    BY <1>0, <1>2, <2>1, ArrivedRecord
  <2> HIDE DEF x, y
  <2> QED BY <1>0, <1>1, <2>1, <2>2, <2>3
<1>3. CASE Uncached(r) \/ Corrupt(r)
  <2> DEFINE x == Moved(y, "handler")
  <2>1. req' = [req EXCEPT ![r] = x] /\ UNCHANGED <<array, held>> /\ y.pc = "cache"
    BY <1>3 DEF Uncached, Corrupt, Goto, At, Moved
  <2>2. /\ x \in ReqType /\ x.pc = "handler" /\ x.profile = y.profile /\ x.resBody = y.resBody
        /\ x.cacheBody = y.cacheBody /\ x.written = y.written /\ x.sent = y.sent
        /\ x.logged = y.logged /\ x.answer = y.answer
    BY <1>0, MovedRecord
  <2>3. entry' \in EntryType /\ \A k \in Url : entry'[k] # None => entry'[k] = entry[k]
    <3>1. CASE Uncached(r)
      BY <1>0, <3>1 DEF Uncached
    <3>2. CASE Corrupt(r)
      <4>1. entry' = [entry EXCEPT ![req[r].profile.url] = None]
        BY <3>2 DEF Corrupt
      <4>2. entry' = [k \in Url |-> entry'[k]] /\ \A k \in Url : entry'[k] = entry[k] \/ entry'[k] = None
        BY <1>0, <4>1 DEF EntryType
      <4> QED BY <1>0, <4>2 DEF EntryType
    <3> QED BY <1>3, <3>1, <3>2
  <2> HIDE DEF x, y
  <2> QED BY <1>0, <1>1, <2>1, <2>2, <2>3
<1>4. CASE HandlerRead(r)
  <2> DEFINE t == IF y.alias = None THEN Tag("req", r) ELSE array["tracer"][y.alias]
             x == HasRead(y, t)
  <2>1. req' = [req EXCEPT ![r] = x] /\ UNCHANGED <<array, held, entry>> /\ y.pc = "handler"
    BY <1>4 DEF HandlerRead, At, HasRead
  <2>2. t \in Content
    BY <1>0 DEF ReqType, ArrayType, Pool, Tag, Content
  <2> HIDE DEF t
  <2>3. /\ x \in ReqType /\ x.pc = y.pc /\ x.profile = y.profile /\ x.resBody = y.resBody
        /\ x.cacheBody = y.cacheBody /\ x.written = y.written /\ x.sent = y.sent
        /\ x.logged = y.logged /\ x.answer = y.answer
    BY <1>0, <2>2, HasReadRecord
  <2> HIDE DEF x, y
  <2> QED BY <1>0, <1>1, <2>1, <2>3
<1> QED BY <1>2, <1>3, <1>4

\* Tracer reads the body into a free buffer, which nobody else has.
LEMMA LogBodyStep ==
    ASSUME RestInv, NEW r \in Request, LogBody(r)
    PROVE  RestInv'
<1> DEFINE y == req[r]
<1>0. /\ y \in ReqType /\ Sound(r, y, array, held) /\ y.pc = "logBody"
      /\ y.resBody \in Buffer \cup {None} /\ y.cacheBody \in Buffer \cup {None}
      /\ array \in ArrayType /\ held \in HeldType /\ entry \in EntryType
      /\ UNCHANGED <<held, entry>>
  BY RestFacts DEF LogBody, At
<1>1. PICK b \in Buffer \ held["tracer"] :
         /\ array' = [array EXCEPT !["tracer"][b] = Tag("req", r)]
         /\ req' = [req EXCEPT ![r] = Aliased(y, b)]
  BY DEF LogBody, Free, Aliased
<1> DEFINE x == Aliased(y, b)
<1>2. /\ x \in ReqType /\ x.pc = "resBody" /\ x.profile = y.profile /\ x.resBody = y.resBody
      /\ x.cacheBody = y.cacheBody /\ x.written = y.written /\ x.sent = y.sent
      /\ x.logged = y.logged /\ x.answer = y.answer
  BY <1>0, AliasedRecord
<1>3. req' = [req EXCEPT ![r] = x]
  BY <1>1
<1> HIDE DEF x
<1>4. /\ array' \in ArrayType
      /\ \A c \in Buffer : /\ c # b => array'["tracer"][c] = array["tracer"][c]
                           /\ array'["cache"][c] = array["cache"][c]
  <2>1. Tag("req", r) \in Content /\ "tracer" \in Pool /\ "cache" \in Pool
    BY DEF Tag, Content, Pool
  <2> QED BY <1>0, <1>1, <2>1 DEF ArrayType
<1>5. CacheSound'
  BY <1>0, <1>2, <1>3, CacheKept
<1>6. Sound(r, x, array', held')
  BY <1>0, <1>2, <1>4 DEF Sound
<1>7. Undisturbed(r, x)
  BY <1>0, <1>1, <1>2, <1>4, LeavesOthers
<1> QED BY <1>0, <1>2, <1>3, <1>4, <1>5, <1>6, <1>7, RequestStep

\* Get gives out a buffer that nobody has.
LEMMA GetStep ==
    ASSUME RestInv, NEW r \in Request, ResBody(r) \/ Miss(r)
    PROVE  RestInv'
<1> DEFINE y == req[r]
<1>0. /\ y \in ReqType /\ Sound(r, y, array, held)
      /\ y.resBody \in Buffer \cup {None} /\ y.cacheBody \in Buffer \cup {None}
      /\ array \in ArrayType /\ held \in HeldType /\ entry \in EntryType
      /\ "tracer" \in Pool /\ "cache" \in Pool /\ UNCHANGED <<array, entry>>
  BY RestFacts DEF ResBody, Miss
<1>1. CASE ResBody(r)
  <2>1. PICK b \in Buffer \ held["tracer"] :
           /\ held' = [held EXCEPT !["tracer"] = @ \cup {b}]
           /\ req' = [req EXCEPT ![r] = Logging(y, b)]
    BY <1>1 DEF ResBody, Free, Logging
  <2> DEFINE x == Logging(y, b)
  <2>2. b # None /\ y.pc = "resBody"
    BY <1>1, NoneAssumption DEF ResBody, At
  <2>3. /\ x \in ReqType /\ x.pc = "cache" /\ x.profile = y.profile /\ x.resBody = b
        /\ x.cacheBody = y.cacheBody /\ x.written = y.written /\ x.sent = y.sent
        /\ x.logged = y.logged /\ x.answer = y.answer
    BY <1>0, LoggingRecord
  <2>4. req' = [req EXCEPT ![r] = x]
    BY <2>1
  <2> HIDE DEF x
  <2>5. /\ held' \in HeldType /\ held'["tracer"] = held["tracer"] \cup {b}
        /\ held'["cache"] = held["cache"]
    BY <1>0, <2>1 DEF HeldType, Pool
  <2>6. CacheSound'
    BY <1>0, <2>2, <2>3, <2>4, CacheKept
  <2>7. Sound(r, x, array', held')
    BY <1>0, <2>2, <2>3, <2>5, NoneAssumption DEF Sound
  <2>8. Undisturbed(r, x)
    BY <1>0, <2>2, <2>3, <2>5, LeavesOthers
  <2> QED BY <1>0, <2>3, <2>4, <2>5, <2>6, <2>7, <2>8, RequestStep
<1>2. CASE Miss(r)
  <2>1. PICK b \in Buffer \ held["cache"] :
           /\ held' = [held EXCEPT !["cache"] = @ \cup {b}]
           /\ req' = [req EXCEPT ![r] = Copying(y, b)]
    BY <1>2 DEF Miss, Free, Copying
  <2> DEFINE x == Copying(y, b)
  <2>2. b # None /\ y.pc = "cache"
    BY <1>2, NoneAssumption DEF Miss, At
  <2>3. /\ x \in ReqType /\ x.pc = "handler" /\ x.profile = y.profile /\ x.resBody = y.resBody
        /\ x.cacheBody = b /\ x.written = y.written /\ x.sent = y.sent
        /\ x.logged = y.logged /\ x.answer = y.answer
    BY <1>0, CopyingRecord
  <2>4. req' = [req EXCEPT ![r] = x]
    BY <2>1
  <2> HIDE DEF x
  <2>5. /\ held' \in HeldType /\ held'["tracer"] = held["tracer"]
        /\ held'["cache"] = held["cache"] \cup {b}
    BY <1>0, <2>1 DEF HeldType, Pool
  <2>6. CacheSound'
    BY <1>0, <2>2, <2>3, <2>4, CacheKept
  <2>7. Sound(r, x, array', held')
    BY <1>0, <2>2, <2>3, <2>5, NoneAssumption DEF Sound
  <2>8. Undisturbed(r, x)
    BY <1>0, <2>2, <2>3, <2>5, LeavesOthers
  <2> QED BY <1>0, <2>3, <2>4, <2>5, <2>6, <2>7, <2>8, RequestStep
<1> QED BY <1>1, <1>2


\* An answer goes to the buffers of its request, and to no other.
LEMMA WrittenBuffers ==
    ASSUME RestInv, NEW r \in Request, NEW t \in Content, NEW short \in BOOLEAN,
           array' = Written(r, t, short)
    PROVE  /\ array' \in ArrayType
           /\ req[r].resBody # None /\ short => array'["tracer"][req[r].resBody] = t
           /\ req[r].cacheBody # None => array'["cache"][req[r].cacheBody] = t
           /\ \A b \in Buffer :
                 /\ b # req[r].resBody => array'["tracer"][b] = array["tracer"][b]
                 /\ b # req[r].cacheBody => array'["cache"][b] = array["cache"][b]
<1>0. /\ req[r].resBody \in Buffer \cup {None} /\ req[r].cacheBody \in Buffer \cup {None}
      /\ array \in ArrayType /\ "tracer" \in Pool /\ "cache" \in Pool
  BY RestFacts
<1>1. \A p \in Pool, b \in Buffer :
         array'[p][b] = IF \/ p = "tracer" /\ b = req[r].resBody /\ short
                           \/ p = "cache" /\ b = req[r].cacheBody
                        THEN t ELSE array[p][b]
  BY DEF Written
<1>2. array' \in ArrayType
  BY <1>0 DEF Written, ArrayType
<1> QED BY <1>0, <1>1, <1>2

\* A hit, or the answer of the handler.
LEMMA WriteStep ==
    ASSUME RestInv, NEW r \in Request,
           \/ Hit(r)
           \/ \E status \in {200, 404}, size \in {"small", "large"} : HandlerWrite(r, status, size)
    PROVE  RestInv'
<1> DEFINE y == req[r]
<1>0. /\ y \in ReqType /\ Sound(r, y, array, held)
      /\ y.pc # "idle" => y.profile \in Profile /\ y.profile.url \in Url
      /\ y.pc # "done" => y.logged = None
      /\ held \in HeldType /\ entry \in EntryType
      /\ UNCHANGED <<held, entry>>
  BY RestFacts DEF Hit, HandlerWrite
<1>1. ASSUME NEW x \in ReqType, req' = [req EXCEPT ![r] = x],
             NEW t \in Content, NEW short \in BOOLEAN, array' = Written(r, t, short),
             y.pc \in {"cache", "handler"} /\ x.pc # "idle" /\ x.profile = y.profile,
             x.resBody = y.resBody /\ x.cacheBody = y.cacheBody,
             Sound(r, x, array', held')
      PROVE  RestInv'
  <2>1. /\ array' \in ArrayType
        /\ \A b \in Buffer : /\ b # y.resBody => array'["tracer"][b] = array["tracer"][b]
                             /\ b # y.cacheBody => array'["cache"][b] = array["cache"][b]
    BY <1>1, WrittenBuffers
  <2>2. CacheSound'
    BY <1>0, <1>1, CacheKept
  <2>3. Undisturbed(r, x)
    BY <1>0, <1>1, <2>1, LeavesOthers
  <2> QED BY <1>0, <1>1, <2>1, <2>2, <2>3, RequestStep
<1>2. ASSUME NEW t \in Content, NEW size \in {"small", "large"}, NEW status \in {200, 404},
             NEW l \in {"handler", "log"}, Respond(r, t, size, status, l),
             y.pc \in {"cache", "handler"},
             y.cacheBody # None => t = Tag("res", r)
      PROVE  RestInv'
  <2>1. PICK got \in {"all", "cut"} : \E written \in ContentLength(size, got) :
           /\ array' = Written(r, t, written = "small")
           /\ req' = [req EXCEPT ![r] =
                  Responded(y, l, t, written, status, IF got = "all" THEN t ELSE Tag("cut", r))]
    BY <1>2 DEF Respond, Responded
  <2> DEFINE s == IF got = "all" THEN t ELSE Tag("cut", r)
  <2>2. PICK written \in {"small", "large"} :
           /\ array' = Written(r, t, written = "small")
           /\ req' = [req EXCEPT ![r] = Responded(y, l, t, written, status, s)]
    BY <2>1 DEF ContentLength
  <2> DEFINE x == Responded(y, l, t, written, status, s)
             short == written = "small"
  <2>3. s \in Content /\ s \in {t, Tag("cut", r)} /\ short \in BOOLEAN
    BY DEF Tag, Content
  <2>4. req' = [req EXCEPT ![r] = x] /\ array' = Written(r, t, short)
    BY <2>2
  <2> HIDE DEF s
  <2>5. /\ x \in ReqType /\ x.pc = l /\ x.profile = y.profile /\ x.resBody = y.resBody
        /\ x.cacheBody = y.cacheBody /\ x.written = written /\ x.sent = s
        /\ x.logged = y.logged /\ x.answer = t
    BY <1>0, <2>3, RespondedRecord
  <2> HIDE DEF x
  <2>6. /\ y.resBody # None /\ short => array'["tracer"][y.resBody] = t
        /\ y.cacheBody # None => array'["cache"][y.cacheBody] = t
    <3> HIDE DEF short
    <3> QED BY <2>3, <2>4, WrittenBuffers
  <2>7. Sound(r, x, array', held')
    BY <1>0, <1>2, <2>3, <2>5, <2>6 DEF Sound
  <2>8. x.pc # "idle"
    BY <2>5
  <2> HIDE DEF short
  <2> QED BY <1>1, <1>2, <2>3, <2>4, <2>5, <2>7, <2>8
<1>3. CASE Hit(r)
  <2> DEFINE t == entry[y.profile.url].body
  <2>1. y.pc = "cache" /\ entry[y.profile.url] # None
    BY <1>3 DEF Hit, At
  <2>2. PICK size \in {"small", "large"} : Respond(r, t, size, 200, "log")
    BY <1>3 DEF Hit
  <2>3. t \in Content /\ y.cacheBody = None
    BY <1>0, <2>1 DEF EntryType, Sound
  <2> HIDE DEF t, y
  <2> QED BY <1>2, <2>1, <2>2, <2>3
<1>4. ASSUME NEW status \in {200, 404}, NEW size \in {"small", "large"},
             HandlerWrite(r, status, size)
      PROVE  RestInv'
  <2> DEFINE t == Tag("res", r)
  <2>1. y.pc = "handler" /\ Respond(r, t, size, status, "handler")
    BY <1>4 DEF HandlerWrite, At
  <2>2. t \in Content
    BY DEF Tag, Content
  <2> HIDE DEF y
  <2> QED BY <1>2, <2>1, <2>2
<1> QED BY <1>3, <1>4


\* The record of a request that is over
Closed(p, a, t, line) ==
    [Fresh EXCEPT !.pc = "done", !.profile = p, !.answer = a, !.sent = t, !.logged = line]

\* A request that is over has no buffer.
LEMMA ClosedRecord ==
    ASSUME NEW p \in Profile, NEW a \in Content, NEW t \in Content, NEW line \in Content
    PROVE  LET x == Closed(p, a, t, line) IN
              /\ x \in ReqType /\ x.pc = "done" /\ x.profile = p /\ x.resBody = None
              /\ x.cacheBody = None /\ x.written = None /\ x.sent = t /\ x.logged = line
              /\ x.answer = a
<1>1. None \in Content
  BY DEF Content
<1> QED BY <1>1 DEF ReqType, Closed, Fresh

\* The end of a request: its buffers go back, and what it logged it has answered.
LEMMA DoneStep ==
    ASSUME RestInv, NEW r \in Request, HandlerPanic(r) \/ LogExcluded(r) \/ Log(r)
    PROVE  RestInv'
<1> DEFINE y == req[r]
<1>0. /\ y \in ReqType /\ Sound(r, y, array, held) /\ y.pc \in {"handler", "log"}
      /\ y.resBody \in Buffer \cup {None} /\ y.cacheBody \in Buffer \cup {None}
      /\ array \in ArrayType /\ held \in HeldType /\ entry \in EntryType
      /\ "tracer" \in Pool /\ "cache" \in Pool
      /\ y.profile \in Profile /\ y.sent \in Content /\ y.answer \in Content /\ None \in Content
  <2>1. y.pc \in {"handler", "log"}
    BY DEF HandlerPanic, LogExcluded, Log, At
  <2>2. y \in ReqType
    BY RestFacts
  <2>3. y.sent \in Content /\ y.answer \in Content /\ None \in Content
    BY <2>2 DEF ReqType, Content
  <2> QED BY <2>1, <2>2, <2>3, RestFacts
<1>1. ASSUME NEW t \in Content, NEW line \in Content,
             req' = [req EXCEPT ![r] = Closed(y.profile, y.answer, t, line)],
             line # None => line = y.answer /\ t \in {y.answer, Tag("cut", r)},
             array' \in ArrayType, held' \in HeldType, UNCHANGED entry,
             \A b \in Buffer :
                /\ b \in held["tracer"] /\ b # y.resBody =>
                      b \in held'["tracer"] /\ array'["tracer"][b] = array["tracer"][b]
                /\ b \in held["cache"] /\ b # y.cacheBody =>
                      b \in held'["cache"] /\ array'["cache"][b] = array["cache"][b]
      PROVE  RestInv'
  <2> DEFINE x == Closed(y.profile, y.answer, t, line)
  <2>1. /\ x \in ReqType /\ x.pc = "done" /\ x.profile = y.profile /\ x.resBody = None
        /\ x.cacheBody = None /\ x.written = None /\ x.sent = t /\ x.logged = line
        /\ x.answer = y.answer
    BY <1>0, <1>1, ClosedRecord
  <2>2. req' = [req EXCEPT ![r] = x]
    BY <1>1
  <2> HIDE DEF x
  <2>3. CacheSound'
    BY <1>0, <1>1, <2>1, <2>2, CacheKept
  <2>4. Sound(r, x, array', held')
    BY <1>0, <1>1, <2>1 DEF Sound
  <2>5. Undisturbed(r, x)
    BY <1>0, <1>1, <2>1, LeavesOthers
  <2> QED BY <1>0, <1>1, <2>1, <2>2, <2>3, <2>4, <2>5, RequestStep
<1>2. CASE HandlerPanic(r)
  <2> DEFINE t == IF y.profile.excluded THEN "dropped" ELSE IF y.sent = None THEN "error" ELSE "mixed"
  <2>1. /\ req' = [req EXCEPT ![r] = Closed(y.profile, y.answer, t, None)] /\ UNCHANGED <<array, entry>>
        /\ held' = [held EXCEPT !["tracer"] = @ \ {y.resBody}, !["cache"] = @ \ {y.cacheBody}]
    BY <1>2 DEF HandlerPanic, Done, Closed
  <2>2. t \in Content
    BY DEF Content
  <2> HIDE DEF t
  <2>3. /\ held' \in HeldType /\ held'["tracer"] = held["tracer"] \ {y.resBody}
        /\ held'["cache"] = held["cache"] \ {y.cacheBody}
    BY <1>0, <2>1 DEF HeldType, Pool
  <2> QED BY <1>0, <1>1, <2>1, <2>2, <2>3
<1>3. CASE LogExcluded(r)
  <2>1. req' = [req EXCEPT ![r] = Closed(y.profile, y.answer, y.sent, None)] /\ UNCHANGED <<array, held, entry>>
    BY <1>3 DEF LogExcluded, Done, Closed
  <2> QED BY <1>0, <1>1, <2>1
<1>4. CASE Log(r)
  <2> DEFINE line == IF y.written = "small" THEN array["tracer"][y.resBody] ELSE None
  <2>1. /\ req' = [req EXCEPT ![r] = Closed(y.profile, y.answer, y.sent, line)] /\ UNCHANGED entry
        /\ held' = [held EXCEPT !["tracer"] = @ \ {y.resBody}]
        /\ y.pc = "log" /\ ~y.profile.excluded
    BY <1>4 DEF Log, Done, Closed, At
  <2>2. /\ y.resBody \in Buffer /\ (y.written = "small" => array["tracer"][y.resBody] = y.answer)
        /\ (y.written # None => y.sent \in {y.answer, Tag("cut", r)})
    BY <1>0, <2>1 DEF Sound
  <2>3. /\ line \in Content
        /\ line # None => line = y.answer /\ y.sent \in {y.answer, Tag("cut", r)}
    BY <1>0, <2>2, NoneAssumption DEF ArrayType
  <2> HIDE DEF line
  <2>4. /\ held' \in HeldType /\ held'["tracer"] = held["tracer"] \ {y.resBody}
        /\ held'["cache"] = held["cache"]
    BY <1>0, <2>1 DEF HeldType, Pool
  <2>5. /\ array' \in ArrayType
        /\ \A b \in Buffer : /\ b \in held["tracer"] => array'["tracer"][b] = array["tracer"][b]
                             /\ array'["cache"][b] = array["cache"][b]
    <3>1. CASE array' = array
      BY <1>0, <3>1
    <3>2. ASSUME NEW c \in Free("tracer"), array' = [array EXCEPT !["tracer"][c] = Tag("log", r)]
          PROVE  /\ array' \in ArrayType
                 /\ \A b \in Buffer : /\ b \in held["tracer"] => array'["tracer"][b] = array["tracer"][b]
                                      /\ array'["cache"][b] = array["cache"][b]
      <4>1. c \in Buffer /\ c \notin held["tracer"] /\ Tag("log", r) \in Content
        BY DEF Free, Tag, Content
      <4> QED BY <1>0, <3>2, <4>1 DEF ArrayType
    <3>3. \/ array' = array
          \/ \E c \in Free("tracer") : array' = [array EXCEPT !["tracer"][c] = Tag("log", r)]
      BY <1>4 DEF Log
    <3> QED BY <3>1, <3>2, <3>3
  <2> QED BY <1>0, <1>1, <2>1, <2>3, <2>4, <2>5
<1> QED BY <1>2, <1>3, <1>4

\* HTTPCache after the handler, with the buffer back in the pool.
LEMMA PutCacheStep ==
    ASSUME RestInv, NEW r \in Request,
           HandlerReturn(r) \/ SetFails(r) \/ SetExpire(r) \/ SetExpireFails(r)
    PROVE  RestInv'
<1> DEFINE y == req[r]
           x == PutBack(y)
<1>0. /\ y \in ReqType /\ Sound(r, y, array, held) /\ y.pc \in {"handler", "expire"}
      /\ y.logged = None /\ y.cacheBody \in Buffer \cup {None} /\ y.profile.url \in Url
      /\ array \in ArrayType /\ held \in HeldType /\ entry \in EntryType
      /\ "tracer" \in Pool /\ "cache" \in Pool
  <2>1. y.pc \in {"handler", "expire"}
    BY DEF HandlerReturn, SetFails, SetExpire, SetExpireFails, At
  <2> QED BY <2>1, RestFacts
<1>1. /\ req' = [req EXCEPT ![r] = x] /\ UNCHANGED array
      /\ held' = [held EXCEPT !["cache"] = @ \ {y.cacheBody}]
  BY DEF HandlerReturn, SetFails, SetExpire, SetExpireFails, PutCache, PutBack
<1>2. /\ x \in ReqType /\ x.pc = "log" /\ x.profile = y.profile /\ x.resBody = y.resBody
      /\ x.cacheBody = None /\ x.written = y.written /\ x.sent = y.sent
      /\ x.logged = y.logged /\ x.answer = y.answer
  BY <1>0, PutBackRecord
<1> HIDE DEF x
<1>3. /\ held' \in HeldType /\ held'["tracer"] = held["tracer"]
      /\ held'["cache"] = held["cache"] \ {y.cacheBody}
  BY <1>0, <1>1 DEF HeldType, Pool
<1>4. /\ entry' \in EntryType
      /\ \A k \in Url : entry'[k] # None =>
            /\ entry[k] # None
            /\ entry'[k].body = entry[k].body /\ entry'[k].status = entry[k].status
  <2>1. CASE entry' = entry
    BY <1>0, <2>1
  <2>2. CASE /\ entry[y.profile.url] # None
             /\ entry' = [entry EXCEPT ![y.profile.url].ttl = TRUE]
    <3> DEFINE e == [entry[y.profile.url] EXCEPT !.ttl = TRUE]
    <3>1. /\ e \in [body : Content, ttl : BOOLEAN, status : {200, 404}]
          /\ e.body = entry[y.profile.url].body /\ e.status = entry[y.profile.url].status
      <4>1. entry[y.profile.url] \in [body : Content, ttl : BOOLEAN, status : {200, 404}]
        BY <1>0, <2>2 DEF EntryType
      <4> QED BY <4>1
    <3>2. entry' = [entry EXCEPT ![y.profile.url] = e]
      BY <2>2
    <3> HIDE DEF e
    <3>3. /\ entry' = [k \in Url |-> entry'[k]] /\ entry'[y.profile.url] = e
          /\ \A k \in Url : k # y.profile.url => entry'[k] = entry[k]
      <4> DEFINE u == y.profile.url
      <4>1. /\ u \in Url /\ entry = [k \in Url |-> entry[k]]
            /\ entry' = [entry EXCEPT ![u] = e]
        BY <1>0, <3>2 DEF EntryType
      <4>2. /\ entry' = [k \in Url |-> entry'[k]] /\ entry'[u] = e
            /\ \A k \in Url : k # u => entry'[k] = entry[k]
        <5> HIDE DEF u, y
        <5> QED BY <4>1
      <4> QED BY <4>2
    <3>4. entry' \in EntryType
      BY <1>0, <3>1, <3>3 DEF EntryType
    <3> QED BY <2>2, <3>1, <3>3, <3>4
  <2> QED BY <2>1, <2>2 DEF HandlerReturn, SetFails, SetExpire, SetExpireFails
<1>5. CacheSound'
  BY <1>0, <1>1, <1>2, <1>4, CacheKept
<1>6. Sound(r, x, array', held')
  BY <1>0, <1>1, <1>2, <1>3 DEF Sound
<1>7. Undisturbed(r, x)
  BY <1>0, <1>1, <1>2, <1>3, LeavesOthers
<1> QED BY <1>0, <1>1, <1>2, <1>3, <1>4, <1>5, <1>6, <1>7, RequestStep

\* SET stores what the handler of this request has written, for the URL of this request.
LEMMA SetStep ==
    ASSUME RestInv, NEW r \in Request, Set(r)
    PROVE  RestInv'
<1> DEFINE y == req[r]
           x == Moved(y, "expire")
           e == [body |-> array["cache"][y.cacheBody], ttl |-> FALSE, status |-> y.status]
<1>0. /\ y \in ReqType /\ Sound(r, y, array, held) /\ y.pc = "handler"
      /\ y.logged = None /\ y.cacheBody \in Buffer /\ y.cacheBody # None
      /\ y.profile.url \in Url /\ y.status < 400 /\ y.status \in {200, 404}
      /\ array \in ArrayType /\ held \in HeldType /\ entry \in EntryType
      /\ "tracer" \in Pool /\ "cache" \in Pool /\ y.written # None
  <2>1. y.pc = "handler" /\ y.cacheBody # None /\ y.status < 400 /\ y.written # None
    BY DEF Set, At, Cacheable
  <2>2. y.status \in {200, 404}
    BY RestFacts DEF ReqType
  <2> QED BY <2>1, <2>2, RestFacts
<1>1. /\ req' = [req EXCEPT ![r] = x] /\ UNCHANGED <<array, held>>
      /\ entry' = [entry EXCEPT ![y.profile.url] = e]
  BY DEF Set, Goto, Moved
<1>2. /\ x \in ReqType /\ x.pc = "expire" /\ x.profile = y.profile /\ x.resBody = y.resBody
      /\ x.cacheBody = y.cacheBody /\ x.written = y.written /\ x.sent = y.sent
      /\ x.logged = y.logged /\ x.answer = y.answer
  BY <1>0, MovedRecord
<1>3. /\ e \in [body : Content, ttl : BOOLEAN, status : {200, 404}]
      /\ e.body = Tag("res", r) /\ e.status < 400
  <2>1. array["cache"][y.cacheBody] \in Content /\ array["cache"][y.cacheBody] = Tag("res", r)
    BY <1>0 DEF ArrayType, Sound
  <2> QED BY <1>0, <2>1
<1> HIDE DEF x, e
<1>4. /\ entry' = [k \in Url |-> entry'[k]] /\ entry'[y.profile.url] = e
      /\ \A k \in Url : k # y.profile.url => entry'[k] = entry[k]
  <2> DEFINE u == y.profile.url
  <2>1. /\ u \in Url /\ entry = [k \in Url |-> entry[k]] /\ entry' = [entry EXCEPT ![u] = e]
    BY <1>0, <1>1 DEF EntryType
  <2>2. /\ entry' = [k \in Url |-> entry'[k]] /\ entry'[u] = e
        /\ \A k \in Url : k # u => entry'[k] = entry[k]
    <3> HIDE DEF u, y
    <3> QED BY <2>1
  <2> QED BY <2>2
<1>5. entry' \in EntryType
  BY <1>0, <1>3, <1>4 DEF EntryType
<1>6. CacheSound'
  <2>1. /\ req'[r] = x /\ \A q \in Request : q # r => req'[q] = req[q]
    BY <1>1, <1>2, ReqUpdate
  <2> SUFFICES ASSUME NEW k \in Url, entry'[k] # None, entry'[k].body # "corrupt"
               PROVE  /\ entry'[k].status < 400
                      /\ \E q \in Request : /\ entry'[k].body = Tag("res", q) /\ req'[q].pc # "idle"
                                            /\ req'[q].profile.url = k
    BY DEF CacheSound, Tag
  <2>2. CASE k = y.profile.url
    BY <1>2, <1>3, <1>4, <2>1, <2>2
  <2>3. CASE k # y.profile.url
    <3>1. /\ entry[k].status < 400
          /\ \E q \in Request : /\ entry[k].body = Tag("res", q) /\ req[q].pc # "idle"
                                /\ req[q].profile.url = k
      BY <1>4, <2>3 DEF RestInv, CacheSound
    <3> QED BY <1>2, <1>4, <2>1, <2>3, <3>1
  <2> QED BY <2>2, <2>3
<1>7. Sound(r, x, array', held')
  BY <1>0, <1>1, <1>2 DEF Sound
<1>8. Undisturbed(r, x)
  BY <1>1, <1>2, LeavesOthers
<1> QED BY <1>0, <1>1, <1>2, <1>5, <1>6, <1>7, <1>8, RequestStep

\* Redis removes an entry, or nothing happens.
LEMMA CacheStep ==
    ASSUME RestInv, (\E k \in Url : Expired(k)) \/ UNCHANGED restVars
    PROVE  RestInv'
<1>1. UNCHANGED <<req, array, held>>
  BY DEF Expired, restVars
<1>2. entry' \in EntryType /\ \A k \in Url : entry'[k] = entry[k] \/ entry'[k] = None
  <2>1. entry \in EntryType
    BY DEF RestInv, RestTypeOK
  <2>2. CASE UNCHANGED restVars
    BY <2>1, <2>2 DEF restVars
  <2>3. ASSUME NEW k \in Url, Expired(k)
        PROVE  entry' \in EntryType /\ \A u \in Url : entry'[u] = entry[u] \/ entry'[u] = None
    <3>1. entry' = [entry EXCEPT ![k] = None]
      BY <2>3 DEF Expired
    <3>2. entry' = [u \in Url |-> entry'[u]] /\ \A u \in Url : entry'[u] = entry[u] \/ entry'[u] = None
      BY <2>1, <3>1 DEF EntryType
    <3> QED BY <2>1, <3>2 DEF EntryType
  <2> QED BY <2>2, <2>3
<1>3. CacheSound'
  <2> SUFFICES ASSUME NEW k \in Url, entry'[k] # None, entry'[k].body # "corrupt"
               PROVE  /\ entry'[k].status < 400
                      /\ \E q \in Request : /\ entry'[k].body = Tag("res", q) /\ req[q].pc # "idle"
                                            /\ req[q].profile.url = k
    BY <1>1 DEF CacheSound, Tag
  <2>1. entry'[k] = entry[k]
    BY <1>2
  <2> QED BY <2>1 DEF RestInv, CacheSound
<1>4. RestTypeOK'
  BY <1>1, <1>2 DEF RestInv, RestTypeOK
<1>5. /\ \A r \in Request : Sound(r, req[r], array, held)'
      /\ \A r, q \in Request : r # q => Apart(req[r], req[q])'
  BY <1>1 DEF RestInv, Sound, Apart
<1> QED BY <1>3, <1>4, <1>5 DEF RestInv

(***************************************************************************)
(* The buffers of every request stay its own until they are put back, and  *)
(* the cache has answers of handlers only, with any number of requests,    *)
(* URLs and buffers.                                                       *)
(***************************************************************************)
THEOREM RestInvariant == RestSpec => []RestInv
<1>1. ASSUME RestInit
      PROVE  RestInv
  <2>1. Fresh \in ReqType /\ Fresh.pc = "idle" /\ Fresh.resBody = None /\ Fresh.cacheBody = None
        /\ Fresh.written = None /\ Fresh.logged = None
    <3>1. None \in Content
      BY DEF Content
    <3> QED BY <3>1 DEF Fresh, ReqType
  <2>2. req \in [Request -> ReqType] /\ \A r \in Request : req[r] = Fresh
    BY <1>1, <2>1 DEF RestInit
  <2>3. array \in ArrayType /\ held \in HeldType
    BY <1>1 DEF RestInit, ArrayType, HeldType, Content
  <2>4. Foreign \in [body : Content, ttl : BOOLEAN, status : {200, 404}] /\ Foreign.body = "corrupt"
    BY DEF Foreign, Content
  <2>5. entry \in EntryType /\ \A k \in Url : entry[k] \in {None, Foreign}
    BY <1>1, <2>4 DEF RestInit, EntryType
  <2>6. CacheSound
    BY <2>4, <2>5 DEF CacheSound
  <2>7. \A r \in Request : Sound(r, req[r], array, held)
    BY <2>1, <2>2 DEF Sound
  <2>8. \A r, q \in Request : r # q => Apart(req[r], req[q])
    BY <2>1, <2>2 DEF Apart
  <2> QED BY <2>2, <2>3, <2>5, <2>6, <2>7, <2>8 DEF RestInv, RestTypeOK
<1>2. ASSUME RestInv, [RestNext]_restVars
      PROVE  RestInv'
  <2>1. ASSUME NEW r \in Request,
               \/ \E p \in Profile : Arrive(r, p)
               \/ LogBody(r) \/ ResBody(r) \/ Uncached(r) \/ Hit(r) \/ Corrupt(r) \/ Miss(r)
               \/ HandlerRead(r) \/ HandlerReturn(r) \/ HandlerPanic(r)
               \/ \E status \in {200, 404}, size \in {"small", "large"} :
                     HandlerWrite(r, status, size)
               \/ Set(r) \/ SetFails(r) \/ SetExpire(r) \/ SetExpireFails(r)
               \/ LogExcluded(r) \/ Log(r)
        PROVE  RestInv'
    BY <1>2, <2>1, QuietSteps, LogBodyStep, GetStep, WriteStep, DoneStep, PutCacheStep, SetStep
  <2> QED BY <1>2, <2>1, CacheStep DEF RestNext
<1> QED BY <1>1, <1>2, PTL DEF RestSpec

(***************************************************************************)
(* The body Tracer logs is the one that was answered to this request, and  *)
(* the client got it unless the write to it failed or was short, whatever  *)
(* the other requests do with the pool of buffers (middleware.go:113).     *)
(***************************************************************************)
THEOREM LogTellsTheTruth == RestSpec => []LoggedIsAnswered
<1>1. RestInv => LoggedIsAnswered
  BY DEF RestInv, Sound, LoggedIsAnswered
<1> QED BY <1>1, RestInvariant, PTL

(***************************************************************************)
(* HTTPCache keeps under a key only what a handler answered, below 400, to *)
(* a request for that key (cache.go:96).                                   *)
(***************************************************************************)
THEOREM CacheTellsTheTruth == RestSpec => []CachedIsProduced
<1>1. RestInv => CachedIsProduced
  BY DEF RestInv, CacheSound, CachedIsProduced
<1> QED BY <1>1, RestInvariant, PTL

-----------------------------------------------------------------------------
(***************************************************************************)
(* The code generator                                                      *)
(***************************************************************************)
\* Every handler a command can ask for.
Handler == Server \cup Worker \cup Plugin

\* Well-formed edits, as fileUpdate has them: a kind, a path and facts.
WellFormed(edits) == \A e \in edits : e = <<e[1], e[2], e[3]>>

(***************************************************************************)
(* The new files are there with their template, and the others are as they *)
(* were (execGenerator, project_generator.go:385).                         *)
(***************************************************************************)
LEMMA WriteHolds ==
    ASSUME NEW fs, NEW new, \A p \in DOMAIN fs : IsABag(fs[p])
    PROVE  /\ DOMAIN Write(fs, new) = {f[1] : f \in new} \cup DOMAIN fs
           /\ \A p \in DOMAIN Write(fs, new) : IsABag(Write(fs, new)[p])
           /\ \A p \in DOMAIN fs : (\A f \in new : f[1] # p) => Write(fs, new)[p] = fs[p]
<1> DEFINE W == Write(fs, new)
           Of(p) == CHOOSE f \in new : f[1] = p
<1>1. \A S : IsABag(SetToBag(S))
  BY DEF IsABag, SetToBag
<1>2. DOMAIN W = {f[1] : f \in new} \cup DOMAIN fs
  BY DEF Write
<1>3. \A p \in DOMAIN W : W[p] = IF p \in {f[1] : f \in new} THEN SetToBag(Of(p)[2]) ELSE fs[p]
  BY DEF Write
<1> HIDE DEF W, Of
<1>5. \A p \in DOMAIN W : IsABag(W[p])
  BY <1>1, <1>2, <1>3
<1>6. \A p \in DOMAIN fs : (\A f \in new : f[1] # p) => W[p] = fs[p]
  BY <1>2, <1>3
<1> QED BY <1>2, <1>5, <1>6 DEF W

\* A file written once, or twice with the same lines, has these lines.
LEMMA WriteNew ==
    ASSUME NEW fs, NEW new, NEW f \in new, \A g \in new : g[1] = f[1] => g[2] = f[2]
    PROVE  Write(fs, new)[f[1]] = SetToBag(f[2])
<1> DEFINE g == CHOOSE g \in new : g[1] = f[1]
<1>1. g \in new /\ g[1] = f[1]
  OBVIOUS
<1>2. Write(fs, new)[f[1]] = SetToBag(g[2])
  BY DEF Write
<1> QED BY <1>1, <1>2

\* The copies of a bag to which each element of a set is added once.
LEMMA AddHolds ==
    ASSUME NEW X, IsABag(X), NEW S
    PROVE  /\ DOMAIN (X (+) SetToBag(S)) = DOMAIN X \cup S
           /\ IsABag(X (+) SetToBag(S))
           /\ \A l \in DOMAIN X : l \notin S => (X (+) SetToBag(S))[l] = X[l]
           /\ \A l \in S : l \notin DOMAIN X => (X (+) SetToBag(S))[l] = 1
<1> DEFINE Y == X (+) SetToBag(S)
<1>1. DOMAIN SetToBag(S) = S /\ \A l \in S : SetToBag(S)[l] = 1
  BY DEF SetToBag
<1>2. \A l \in DOMAIN X : X[l] \in Nat /\ X[l] > 0
  BY DEF IsABag
<1>3. /\ DOMAIN Y = DOMAIN X \cup S
      /\ Y = [l \in DOMAIN Y |-> Y[l]]
      /\ \A l \in DOMAIN Y : Y[l] = (IF l \in DOMAIN X THEN X[l] ELSE 0) + (IF l \in S THEN 1 ELSE 0)
  BY <1>1 DEF (+)
<1> HIDE DEF Y
<1>4. \A l \in DOMAIN Y : Y[l] \in Nat /\ Y[l] > 0
  BY <1>2, <1>3
<1>5. IsABag(Y)
  BY <1>3, <1>4 DEF IsABag
<1>6. \A l \in DOMAIN X : l \notin S => Y[l] = X[l]
  BY <1>2, <1>3
<1>7. \A l \in S : l \notin DOMAIN X => Y[l] = 1
  BY <1>3
<1> QED BY <1>3, <1>5, <1>6, <1>7 DEF Y

(***************************************************************************)
(* What edits make of the lines B of the file p: R are its lines after them*)
(* (project_generator_utils.go:406).  A line is kept unless it is          *)
(* uncommented, the lines there are were there or come from an edit, and   *)
(* every edit of the file has its effect.                                  *)
(***************************************************************************)
Edited(B, R, p, edits) ==
    /\ \A l \in DOMAIN B : l.on \/ <<"on", p, l.facts>> \notin edits => l \in DOMAIN R
    /\ \A l \in DOMAIN R : \/ l \in DOMAIN B
                           \/ <<"on", p, l.facts>> \in edits \/ <<"add", p, l.facts>> \in edits
    /\ \A facts : <<"on", p, facts>> \in edits /\ If(FALSE, facts) \in DOMAIN B => On(facts) \in DOMAIN R
    /\ \A facts : <<"add", p, facts>> \in edits => On(facts) \in DOMAIN R
    /\ \A l \in DOMAIN B : <<"on", p, l.facts>> \notin edits /\ <<"add", p, l.facts>> \notin edits
          => R[l] = B[l]
    /\ \A facts : <<"on", p, facts>> \notin edits /\ <<"add", p, facts>> \in edits /\ On(facts) \notin DOMAIN B
          => R[On(facts)] = 1

\* The files after the edits, when each edit is well formed.
LEMMA ApplyHolds ==
    ASSUME NEW fs, NEW edits, WellFormed(edits), \A p \in DOMAIN fs : IsABag(fs[p])
    PROVE  /\ DOMAIN readFileAndApply(fs, edits) = DOMAIN fs
           /\ \A p \in DOMAIN fs : IsABag(readFileAndApply(fs, edits)[p])
           /\ \A p \in DOMAIN fs : Edited(fs[p], readFileAndApply(fs, edits)[p], p, edits)
<1> DEFINE r == readFileAndApply(fs, edits)
           off(p) == {l \in DOMAIN fs[p] : ~l.on /\ <<"on", p, l.facts>> \in edits}
           add(p) == {e \in edits : e[1] = "add" /\ e[2] = p}
           offOn(p) == {On(l.facts) : l \in off(p)}
           addOn(p) == {On(e[3]) : e \in add(p)}
<1>1. /\ DOMAIN r = DOMAIN fs
      /\ \A p \in DOMAIN fs :
            r[p] = ((fs[p] (-) SetToBag(off(p))) (+) SetToBag(offOn(p))) (+) SetToBag(addOn(p))
  BY DEF readFileAndApply
<1>2. \A facts : On(facts).facts = facts /\ On(facts).on /\ If(FALSE, facts).facts = facts /\ ~If(FALSE, facts).on
  BY DEF On, If
<1>3. \A p, facts : On(facts) \in addOn(p) <=> <<"add", p, facts>> \in edits
  <2> TAKE p, facts
  <2>1. ASSUME <<"add", p, facts>> \in edits PROVE On(facts) \in addOn(p)
    BY <2>1
  <2>2. ASSUME On(facts) \in addOn(p) PROVE <<"add", p, facts>> \in edits
    <3>1. PICK e \in edits : e[1] = "add" /\ e[2] = p /\ On(facts) = On(e[3])
      BY <2>2
    <3>2. e[3] = facts /\ e = <<e[1], e[2], e[3]>>
      BY <3>1, <1>2 DEF WellFormed
    <3> QED BY <3>1, <3>2
  <2> QED BY <2>1, <2>2
<1>4. \A p : \A l \in offOn(p) \cup addOn(p) :
          /\ l = On(l.facts)
          /\ <<"on", p, l.facts>> \in edits \/ <<"add", p, l.facts>> \in edits
  <2> TAKE p
  <2>1. \A l \in offOn(p) : l = On(l.facts) /\ <<"on", p, l.facts>> \in edits
    BY <1>2
  <2>2. \A l \in addOn(p) : l = On(l.facts)
    BY <1>2
  <2>3. \A l \in addOn(p) : <<"add", p, l.facts>> \in edits
    BY <2>2, <1>3
  <2> QED BY <2>1, <2>2, <2>3
<1>5. \A p : \A l \in offOn(p) : l = On(l.facts) /\ <<"on", p, l.facts>> \in edits
  BY <1>2
<1>6. \A p, facts : <<"on", p, facts>> \in edits /\ If(FALSE, facts) \in DOMAIN fs[p] => On(facts) \in offOn(p)
  BY <1>2
<1>7. \A p, l : l \in off(p) <=> l \in DOMAIN fs[p] /\ ~l.on /\ <<"on", p, l.facts>> \in edits
  OBVIOUS
<1> HIDE DEF r, off, add, offOn, addOn
<1>8. \A p \in DOMAIN fs :
          /\ DOMAIN r[p] = (DOMAIN fs[p] \ off(p)) \cup {l \in off(p) : fs[p][l] > 1} \cup offOn(p) \cup addOn(p)
          /\ IsABag(r[p])
          /\ \A l \in DOMAIN fs[p] : l \notin off(p) /\ l \notin offOn(p) /\ l \notin addOn(p) => r[p][l] = fs[p][l]
          /\ \A l \in addOn(p) : l \notin DOMAIN fs[p] /\ l \notin offOn(p) => r[p][l] = 1
  <2> TAKE p \in DOMAIN fs
  <2> DEFINE A == fs[p] (-) SetToBag(off(p))
             B == A (+) SetToBag(offOn(p))
  <2>1. /\ DOMAIN A = (DOMAIN fs[p] \ off(p)) \cup {l \in off(p) : fs[p][l] > 1}
        /\ IsABag(A)
        /\ \A l \in DOMAIN fs[p] : l \notin off(p) => A[l] = fs[p][l]
    <3>1. off(p) \subseteq DOMAIN fs[p]
      BY <1>7
    <3>2. DOMAIN SetToBag(off(p)) = off(p) /\ \A l \in off(p) : SetToBag(off(p))[l] = 1
      BY DEF SetToBag
    <3> DEFINE G == SetToBag(off(p))
               D == [e \in DOMAIN fs[p] |-> IF e \in DOMAIN G THEN fs[p][e] - G[e] ELSE fs[p][e]]
    <3>3. A = [e \in {d \in DOMAIN D : D[d] > 0} |-> D[e]]
      BY DEF (-)
    <3>4. \A l \in DOMAIN fs[p] : fs[p][l] \in Nat /\ fs[p][l] > 0
      BY DEF IsABag
    <3> HIDE DEF G
    <3>5. DOMAIN G = off(p) /\ \A l \in off(p) : G[l] = 1
      BY <3>2 DEF G
    <3>6. \A l \in DOMAIN fs[p] : D[l] = IF l \in off(p) THEN fs[p][l] - 1 ELSE fs[p][l]
      BY <3>5
    <3>7. DOMAIN D = DOMAIN fs[p]
      OBVIOUS
    <3> HIDE DEF D, A
    <3>8. DOMAIN A = {d \in DOMAIN D : D[d] > 0} /\ \A l \in DOMAIN A : A[l] = D[l]
      BY <3>3
    <3>9. \A l \in DOMAIN fs[p] : D[l] \in Nat /\ (D[l] > 0 <=> (l \notin off(p) \/ fs[p][l] > 1))
      BY <3>4, <3>6
    <3>10. DOMAIN A = (DOMAIN fs[p] \ off(p)) \cup {l \in off(p) : fs[p][l] > 1}
      BY <3>1, <3>7, <3>8, <3>9
    <3>11. IsABag(A)
      <4>1. A \in [DOMAIN A -> {n \in Nat : n > 0}]
        BY <3>3, <3>7, <3>8, <3>9
      <4> QED BY <4>1 DEF IsABag
    <3>12. \A l \in DOMAIN fs[p] : l \notin off(p) => A[l] = fs[p][l]
      BY <3>6, <3>8, <3>10
    <3> QED BY <3>10, <3>11, <3>12
  <2> HIDE DEF A
  <2>2. IsABag(A)
    BY <2>1
  <2>3. /\ DOMAIN B = DOMAIN A \cup offOn(p) /\ IsABag(B)
        /\ \A l \in DOMAIN A : l \notin offOn(p) => B[l] = A[l]
    <3> DEFINE S == offOn(p)
    <3>1. B = A (+) SetToBag(S)
      OBVIOUS
    <3> HIDE DEF S, B
    <3>2. /\ DOMAIN (A (+) SetToBag(S)) = DOMAIN A \cup S
          /\ IsABag(A (+) SetToBag(S))
          /\ \A l \in DOMAIN A : l \notin S => (A (+) SetToBag(S))[l] = A[l]
      BY <2>2, AddHolds
    <3>3. DOMAIN B = DOMAIN A \cup S /\ IsABag(B) /\ \A l \in DOMAIN A : l \notin S => B[l] = A[l]
      BY <3>1, <3>2
    <3> QED BY <3>3 DEF S
  <2>4. r[p] = B (+) SetToBag(addOn(p))
    BY <1>1 DEF A
  <2> HIDE DEF B
  <2>5. /\ DOMAIN r[p] = DOMAIN B \cup addOn(p) /\ IsABag(r[p])
        /\ \A l \in DOMAIN B : l \notin addOn(p) => r[p][l] = B[l]
        /\ \A l \in addOn(p) : l \notin DOMAIN B => r[p][l] = 1
    <3> DEFINE S == addOn(p)
               R == r[p]
    <3>1. R = B (+) SetToBag(S)
      BY <2>4
    <3> HIDE DEF S, R
    <3>2. /\ DOMAIN (B (+) SetToBag(S)) = DOMAIN B \cup S
          /\ IsABag(B (+) SetToBag(S))
          /\ \A l \in DOMAIN B : l \notin S => (B (+) SetToBag(S))[l] = B[l]
          /\ \A l \in S : l \notin DOMAIN B => (B (+) SetToBag(S))[l] = 1
      <4>1. IsABag(B)
        BY <2>3
      <4> QED BY <4>1, AddHolds
    <3>3. /\ DOMAIN R = DOMAIN B \cup S /\ IsABag(R)
          /\ \A l \in DOMAIN B : l \notin S => R[l] = B[l]
          /\ \A l \in S : l \notin DOMAIN B => R[l] = 1
      BY <3>1, <3>2
    <3> QED BY <3>3 DEF S, R
  <2>6. DOMAIN A \subseteq DOMAIN fs[p]
    BY <2>1, <1>7
  <2>7. \A l \in DOMAIN fs[p] : l \notin off(p) /\ l \notin offOn(p) /\ l \notin addOn(p) => r[p][l] = fs[p][l]
    BY <2>1, <2>3, <2>5
  <2>8. \A l \in addOn(p) : l \notin DOMAIN fs[p] /\ l \notin offOn(p) => r[p][l] = 1
    BY <2>3, <2>5, <2>6
  <2> QED BY <2>1, <2>3, <2>5, <2>7, <2>8
<1>9. \A p \in DOMAIN fs : \A l \in DOMAIN fs[p] :
          l.on \/ <<"on", p, l.facts>> \notin edits => l \in DOMAIN r[p]
  BY <1>7, <1>8
<1>10. \A p \in DOMAIN fs : \A l \in DOMAIN r[p] :
          \/ l \in DOMAIN fs[p]
          \/ /\ l = On(l.facts)
             /\ <<"on", p, l.facts>> \in edits \/ <<"add", p, l.facts>> \in edits
  BY <1>4, <1>7, <1>8
<1>11. \A p \in DOMAIN fs : \A facts :
          <<"on", p, facts>> \in edits /\ If(FALSE, facts) \in DOMAIN fs[p] => On(facts) \in DOMAIN r[p]
  BY <1>6, <1>8
<1>12. \A p \in DOMAIN fs : \A facts : <<"add", p, facts>> \in edits => On(facts) \in DOMAIN r[p]
  BY <1>3, <1>8
<1>13. \A p \in DOMAIN fs : \A l \in DOMAIN fs[p] :
          <<"on", p, l.facts>> \notin edits /\ <<"add", p, l.facts>> \notin edits
              => r[p][l] = fs[p][l]
  BY <1>4, <1>7, <1>8
<1>14. \A p \in DOMAIN fs : \A facts :
          <<"on", p, facts>> \notin edits /\ <<"add", p, facts>> \in edits
              /\ On(facts) \notin DOMAIN fs[p]
              => r[p][On(facts)] = 1
  BY <1>2, <1>3, <1>5, <1>8
<1>15. DOMAIN r = DOMAIN fs /\ \A p \in DOMAIN fs : IsABag(r[p])
  BY <1>1, <1>8
<1>16. ASSUME NEW p \in DOMAIN fs PROVE Edited(fs[p], r[p], p, edits)
  <2> DEFINE B == fs[p]
             R == r[p]
  <2>1. \A l \in DOMAIN B : l.on \/ <<"on", p, l.facts>> \notin edits => l \in DOMAIN R
    BY <1>9
  <2>2. \A l \in DOMAIN R : \/ l \in DOMAIN B
                            \/ <<"on", p, l.facts>> \in edits \/ <<"add", p, l.facts>> \in edits
    BY <1>10
  <2>3. \A facts : <<"on", p, facts>> \in edits /\ If(FALSE, facts) \in DOMAIN B => On(facts) \in DOMAIN R
    BY <1>11
  <2>4. \A facts : <<"add", p, facts>> \in edits => On(facts) \in DOMAIN R
    BY <1>12
  <2>5. \A l \in DOMAIN B : <<"on", p, l.facts>> \notin edits /\ <<"add", p, l.facts>> \notin edits
            => R[l] = B[l]
    BY <1>13
  <2>6. \A facts : <<"on", p, facts>> \notin edits /\ <<"add", p, facts>> \in edits /\ On(facts) \notin DOMAIN B
            => R[On(facts)] = 1
    BY <1>14
  <2> HIDE DEF B, R
  <2>7. Edited(B, R, p, edits)
    BY <2>1, <2>2, <2>3, <2>4, <2>5, <2>6 DEF Edited
  <2> QED BY <2>7 DEF B, R
<1> QED BY <1>15, <1>16 DEF r

(***************************************************************************)
(* The edits of a command that concern module.go, .env and the root schema *)
(* (project_generator_utils.go:251): ms are the modules it is about, hs the*)
(* handlers it mounts in them; the edits others of it are of other files.  *)
(***************************************************************************)
Elsewhere(edits) ==
    \A e \in edits :
        /\ e[2] # Env /\ e[2] # RootSchema /\ \A x : e[2] # ModuleGo(x)

\* The paths of these files are all different.
LEMMA PathsDiffer ==
    ASSUME NEW x, NEW y
    PROVE  /\ ModuleGo(x) = ModuleGo(y) => x = y
           /\ ModuleGo(x) # Env /\ ModuleGo(x) # RootSchema /\ Env # RootSchema
           /\ ConfigsGo # Env /\ ConfigsGo # RootSchema /\ ConfigsGo # ModuleGo(x)
           /\ AppFactoryGo # Env /\ AppFactoryGo # RootSchema /\ AppFactoryGo # ModuleGo(x)
           /\ ApiGo # Env /\ ApiGo # RootSchema /\ ApiGo # ModuleGo(x)
           /\ ServiceGo # Env /\ ServiceGo # RootSchema /\ ServiceGo # ModuleGo(x)
           /\ \A h \in Handler : /\ HandlerFile(h, x) # Env /\ HandlerFile(h, x) # RootSchema
                                 /\ HandlerFile(h, x) # ModuleGo(y)
           /\ \A h, g \in Handler : HandlerFile(h, x) = HandlerFile(g, y) => h = g /\ x = y
<1>1. \A h \in Handler : /\ HandlerFile(h, x) = <<Package(h, x), <<h>>>>
                         /\ Package(h, x) = <<Package(h, x)[1], x>>
                         /\ Package(h, x)[1] \in {"rest", "grpc", "graphql", "worker"}
  BY DEF HandlerFile, Package, Handler, Server, Worker, Plugin
<1>2. \A h \in Handler : HandlerFile(h, y) = <<Package(h, y), <<h>>>> /\ Package(h, y) = <<Package(h, y)[1], y>>
  BY DEF HandlerFile, Package, Handler, Server, Worker, Plugin
<1>3. \A h \in Handler : /\ HandlerFile(h, x) # Env /\ HandlerFile(h, x) # RootSchema
                         /\ HandlerFile(h, x) # ModuleGo(y)
  BY <1>1 DEF Env, RootSchema, ModuleGo
<1>4. \A h, g \in Handler : HandlerFile(h, x) = HandlerFile(g, y) => h = g /\ x = y
  BY <1>1, <1>2
<1>5. /\ ModuleGo(x) = ModuleGo(y) => x = y
      /\ ModuleGo(x) # Env /\ ModuleGo(x) # RootSchema /\ Env # RootSchema
      /\ ConfigsGo # Env /\ ConfigsGo # RootSchema /\ ConfigsGo # ModuleGo(x)
      /\ AppFactoryGo # Env /\ AppFactoryGo # RootSchema /\ AppFactoryGo # ModuleGo(x)
      /\ ApiGo # Env /\ ApiGo # RootSchema /\ ApiGo # ModuleGo(x)
      /\ ServiceGo # Env /\ ServiceGo # RootSchema /\ ServiceGo # ModuleGo(x)
  BY DEF ModuleGo, Env, RootSchema, ConfigsGo, AppFactoryGo, ApiGo, ServiceGo, Configs, Api
<1> QED BY <1>3, <1>4, <1>5

\* What an edit of module.go of x can be, when hs are mounted in x.
Mounts(hs, x, e) ==
    \/ \E h \in hs \ Plugin : e = <<"on", ModuleGo(x), MountFacts(h, x)>>
    \/ \E h \in hs : e = <<"on", ModuleGo(x), {Import(Package(h, x))}>>
    \/ \E pl \in hs \cap Plugin : e = <<"add", ModuleGo(x), PluginFacts(pl) \cup MountFacts(pl, x)>>

\* The edits of these files, when hs are mounted in the modules ms and c is the
\* configuration after the command.
EditsOf(edits, c, ms, hs) ==
    /\ WellFormed(edits)
    /\ \A x \in Module, e \in edits : e[2] = ModuleGo(x) => x \in ms /\ Clean[x] = x /\ Mounts(hs, x, e)
    /\ \A x \in ms : \A e : Clean[x] = x /\ Mounts(hs, x, e) => e \in edits
    /\ \A e \in edits : e[2] = Env <=> \E h \in c.handlers : e = <<"on", Env, EnvUse(h)>>
    /\ \A h \in c.handlers : <<"on", Env, EnvUse(h)>> \in edits
    /\ \A e \in edits : e[2] = RootSchema <=>
          "graphql" \in hs /\ \E m \in ms : e = <<"add", RootSchema, GraphQLField(m)>>
    /\ "graphql" \in hs => \A m \in ms : <<"add", RootSchema, GraphQLField(m)>> \in edits

\* The edits of getNeedFileUpdates are these (project_generator_utils.go:251).
LEMMA EditsHold ==
    ASSUME NEW c, NEW ms \in SUBSET Module, NEW hs, NEW new, NEW others, DistinctNames,
           WellFormed(others), Elsewhere(others)
    PROVE  EditsOf(others \cup getNeedFileUpdates(c, ms, hs, new), c, ms, hs)
<1> DEFINE edits == others \cup getNeedFileUpdates(c, ms, hs, new)
           envs == {<<"on", Env, EnvUse(h)>> : h \in c.handlers}
           brokers == {<<"on", ConfigsGo, Broker(h)>> : h \in c.handlers \cap {"kafka", "rabbitmq", "redissubs"}}
           embeds == When("graphql" \in c.handlers, {<<"on", ApiGo, EmbedGraphQL>>})
           fields == When("graphql" \in hs, {<<"add", RootSchema, GraphQLField(m)>> : m \in ms})
           plugins == {<<"add", f, PluginFacts(pl)>> : f \in {ConfigsGo, AppFactoryGo}, pl \in new}
           mounts == UNION {ModuleUpdates(m, hs) : m \in ms}
<1>1. \A m, e : e \in ModuleUpdates(m, hs) <=> Mounts(hs, Clean[m], e)
  BY DEF ModuleUpdates, Mounts
<1>2. \A x, e : Mounts(hs, x, e) => e = <<e[1], e[2], e[3]>> /\ e[2] = ModuleGo(x)
  BY DEF Mounts
<1>3. \A e \in brokers \cup embeds \cup plugins :
          e = <<e[1], e[2], e[3]>> /\ e[2] \in {ConfigsGo, ApiGo, AppFactoryGo}
  <2>1. \A e \in brokers : e = <<e[1], e[2], e[3]>> /\ e[2] = ConfigsGo
    OBVIOUS
  <2>2. \A e \in embeds : e = <<e[1], e[2], e[3]>> /\ e[2] = ApiGo
    BY DEF When
  <2>3. \A e \in plugins : e = <<e[1], e[2], e[3]>> /\ e[2] \in {ConfigsGo, AppFactoryGo}
    OBVIOUS
  <2> QED BY <2>1, <2>2, <2>3
<1>4. \A e : e \in envs <=> \E h \in c.handlers : e = <<"on", Env, EnvUse(h)>>
  OBVIOUS
<1>5. \A e : e \in fields <=> "graphql" \in hs /\ \E m \in ms : e = <<"add", RootSchema, GraphQLField(m)>>
  BY DEF When
<1>6. getNeedFileUpdates(c, ms, hs, new) =
          envs \cup brokers \cup embeds \cup mounts \cup fields \cup plugins
  BY DEF getNeedFileUpdates
<1>7. \A e \in envs : e = <<e[1], e[2], e[3]>> /\ e[2] = Env
  BY <1>4
<1>8. \A e \in fields : e = <<e[1], e[2], e[3]>> /\ e[2] = RootSchema
  BY <1>5
<1>9. \A e : e \in mounts <=> \E m \in ms : Mounts(hs, Clean[m], e)
  BY <1>1
<1> HIDE DEF envs, brokers, embeds, fields, plugins, mounts
<1>10. \A e : e \in edits <=> \/ e \in others \/ e \in envs \/ e \in brokers \cup embeds \cup plugins
                              \/ \E m \in ms : Mounts(hs, Clean[m], e)
                              \/ e \in fields
  <2>1. \A e : e \in edits <=> \/ e \in others \/ e \in envs \/ e \in brokers \cup embeds \cup plugins
                              \/ e \in mounts \/ e \in fields
    BY <1>6
  <2> QED BY <2>1, <1>9
<1> HIDE DEF edits
<1>11. WellFormed(edits)
  BY <1>2, <1>3, <1>7, <1>8, <1>10 DEF WellFormed
<1>12. ASSUME NEW x \in Module, NEW e \in edits, e[2] = ModuleGo(x)
       PROVE  x \in ms /\ Clean[x] = x /\ Mounts(hs, x, e)
  <2>1. e \notin others
    BY <1>12 DEF Elsewhere
  <2>2. e \notin envs /\ e \notin fields /\ e \notin brokers \cup embeds \cup plugins
    BY <1>3, <1>7, <1>8, <1>12, PathsDiffer
  <2>3. PICK m \in ms : Mounts(hs, Clean[m], e)
    BY <2>1, <2>2, <1>10
  <2>4. ModuleGo(x) = ModuleGo(Clean[m])
    BY <2>3, <1>2, <1>12
  <2>5. Clean[m] = x
    BY <2>4, PathsDiffer
  <2> QED BY <2>3, <2>5 DEF DistinctNames
<1>13. ASSUME NEW x \in ms, NEW e, Clean[x] = x, Mounts(hs, x, e) PROVE e \in edits
  BY <1>10, <1>13
<1>14. \A e \in edits : e[2] = Env => e \in envs
  BY <1>2, <1>3, <1>8, <1>10, PathsDiffer DEF Elsewhere
<1>15. \A e \in edits : e[2] = RootSchema => e \in fields
  BY <1>2, <1>3, <1>7, <1>10, PathsDiffer DEF Elsewhere
<1>16. envs \subseteq edits /\ fields \subseteq edits
  BY <1>10
<1>17. \A e \in edits : e[2] = Env <=> \E h \in c.handlers : e = <<"on", Env, EnvUse(h)>>
  BY <1>4, <1>7, <1>14
<1>18. \A e \in edits : e[2] = RootSchema <=>
           "graphql" \in hs /\ \E m \in ms : e = <<"add", RootSchema, GraphQLField(m)>>
  BY <1>5, <1>8, <1>15
<1>19. /\ \A h \in c.handlers : <<"on", Env, EnvUse(h)>> \in edits
       /\ "graphql" \in hs => \A m \in ms : <<"add", RootSchema, GraphQLField(m)>> \in edits
  BY <1>4, <1>5, <1>16
<1>20. EditsOf(edits, c, ms, hs)
  BY <1>11, <1>12, <1>13, <1>17, <1>18, <1>19 DEF EditsOf
<1> QED BY <1>20 DEF edits

(***************************************************************************)
(* The edits each command adds to those are of other files.                *)
(***************************************************************************)
LEMMA OtherEdits ==
    ASSUME NEW ms
    PROVE  /\ WellFormed(updateSharedUsecase(ms) \cup updateSharedRepository(ms))
           /\ Elsewhere(updateSharedUsecase(ms) \cup updateSharedRepository(ms))
           /\ \A m : /\ WellFormed({<<"add", ServiceGo, ModuleImport(m)>>, <<"add", ServiceGo, ModuleInit(m)>>})
                     /\ Elsewhere({<<"add", ServiceGo, ModuleImport(m)>>, <<"add", ServiceGo, ModuleInit(m)>>})
<1> DEFINE su == updateSharedUsecase(ms)
           sr == updateSharedRepository(ms)
<1>1. \A e \in su : e = <<e[1], e[2], e[3]>> /\ e[2] = <<SharedUsecase, <<"usecase.go">>>>
  BY DEF updateSharedUsecase
<1>2. \A e \in sr : e = <<e[1], e[2], e[3]>> /\ \E db : e[2] = <<SharedRepository, <<db>>>>
  BY DEF updateSharedRepository
<1>3. \A x, y : <<SharedRepository, x>> # ModuleGo(y) /\ <<SharedRepository, x>> # Env /\ <<SharedRepository, x>> # RootSchema
  BY DEF SharedRepository, ModuleGo, Env, RootSchema
<1>4. \A x, y : <<SharedUsecase, x>> # ModuleGo(y) /\ <<SharedUsecase, x>> # Env /\ <<SharedUsecase, x>> # RootSchema
  BY DEF SharedUsecase, ModuleGo, Env, RootSchema
<1> HIDE DEF su, sr
<1>5. WellFormed(su \cup sr)
  BY <1>1, <1>2 DEF WellFormed
<1>6. Elsewhere(su \cup sr)
  <2>1. \A e \in su : e[2] # Env /\ e[2] # RootSchema /\ \A y : e[2] # ModuleGo(y)
    BY <1>1, <1>4
  <2>2. ASSUME NEW e \in sr PROVE e[2] # Env /\ e[2] # RootSchema /\ \A y : e[2] # ModuleGo(y)
    <3>1. PICK db : e[2] = <<SharedRepository, <<db>>>>
      BY <1>2
    <3> QED BY <3>1, <1>3
  <2> QED BY <2>1, <2>2 DEF Elsewhere
<1>7. ASSUME NEW m
      PROVE  /\ WellFormed({<<"add", ServiceGo, ModuleImport(m)>>, <<"add", ServiceGo, ModuleInit(m)>>})
             /\ Elsewhere({<<"add", ServiceGo, ModuleImport(m)>>, <<"add", ServiceGo, ModuleInit(m)>>})
  BY PathsDiffer DEF WellFormed, Elsewhere
<1> QED BY <1>5, <1>6, <1>7 DEF su, sr

\* The paths that are none of module.go, .env, the root schema and a handler.
OtherPath(p) ==
    /\ p # Env /\ p # RootSchema
    /\ \A x : p # ModuleGo(x) /\ \A h \in Handler : p # HandlerFile(h, x)

\* The paths of the use cases, domains, repositories, proto files and shared packages.
LEMMA OtherPaths ==
    ASSUME NEW n
    PROVE  /\ \A m : \A tag \in {"usecase", "domain", "repository", "proto"} : OtherPath(<<<<tag, m>>, n>>)
           /\ \A tag \in {"configs", "api", "shareddomain", "shared", "sharedrepository", "sharedusecase",
                          "common", "main", "migration", "migrations", "service"} : OtherPath(<<<<tag>>, n>>)
           /\ n # <<"_schema.graphql">> => OtherPath(<<<<"graphql">>, n>>)
<1>1. \A h \in Handler : \A x : /\ HandlerFile(h, x) = <<Package(h, x), <<h>>>>
                                /\ Package(h, x) = <<Package(h, x)[1], x>>
                                /\ Package(h, x)[1] \in {"rest", "grpc", "graphql", "worker"}
  BY DEF HandlerFile, Package, Handler, Server, Worker, Plugin
<1>2. ASSUME NEW m, NEW tag \in {"usecase", "domain", "repository", "proto"} PROVE OtherPath(<<<<tag, m>>, n>>)
  <2>1. \A h \in Handler : \A x : <<<<tag, m>>, n>> # HandlerFile(h, x)
    BY <1>1
  <2> QED BY <2>1 DEF OtherPath, Env, RootSchema, ModuleGo
<1>3. ASSUME NEW tag \in {"configs", "api", "shareddomain", "shared", "sharedrepository", "sharedusecase",
                          "common", "main", "migration", "migrations", "service"}
      PROVE  OtherPath(<<<<tag>>, n>>)
  <2>1. \A h \in Handler : \A x : <<<<tag>>, n>> # HandlerFile(h, x)
    BY <1>1
  <2>2. <<<<tag>>, n>> # Env /\ <<<<tag>>, n>> # RootSchema
    BY DEF Env, RootSchema
  <2>3. \A x : <<<<tag>>, n>> # ModuleGo(x)
    BY DEF ModuleGo
  <2> QED BY <2>1, <2>2, <2>3 DEF OtherPath
<1>4. ASSUME n # <<"_schema.graphql">> PROVE OtherPath(<<<<"graphql">>, n>>)
  <2>1. \A h \in Handler : \A x : <<<<"graphql">>, n>> # HandlerFile(h, x)
    BY <1>1
  <2>2. <<<<"graphql">>, n>> # Env /\ <<<<"graphql">>, n>> # RootSchema
    BY <1>4 DEF Env, RootSchema
  <2>3. \A x : <<<<"graphql">>, n>> # ModuleGo(x)
    BY DEF ModuleGo
  <2> QED BY <2>1, <2>2, <2>3 DEF OtherPath
<1> QED BY <1>2, <1>3, <1>4

\* The three other files of a GraphQL handler are in its directory.
LEMMA ResolverPaths ==
    ASSUME NEW m, NEW n \in {"root_resolver.go", "mutation_resolver.go", "subscription_resolver.go"}
    PROVE  OtherPath(<<<<"graphql", m>>, <<n>>>>)
<1>1. \A h \in Handler : \A x : HandlerFile(h, x) = <<Package(h, x), <<h>>>>
  BY DEF HandlerFile
<1>2. n \notin Handler
  BY DEF Handler, Server, Worker, Plugin
<1>3. \A h \in Handler : \A x : <<<<"graphql", m>>, <<n>>>> # HandlerFile(h, x)
  BY <1>1, <1>2
<1> QED BY <1>3 DEF OtherPath, Env, RootSchema, ModuleGo

(***************************************************************************)
(* The files of a handler are its own (project_generator.go).              *)
(***************************************************************************)
LEMMA DeliveryHolds ==
    ASSUME NEW h \in Handler, NEW m, NEW c
    PROVE  /\ \A f \in DeliveryFiles(h, m, c) : f[1] = HandlerFile(h, m) \/ OtherPath(f[1])
           /\ \E f \in DeliveryFiles(h, m, c) : f[1] = HandlerFile(h, m)
<1>1. CASE h = "graphql"
  <2>1. DeliveryFiles(h, m, c) =
           {<<<<Package(h, m), <<"root_resolver.go">>>>, deliveryGraphqlRootTemplate>>,
            <<HandlerFile(h, m), deliveryGraphqlQueryTemplate(m)>>,
            <<<<Package(h, m), <<"mutation_resolver.go">>>>, deliveryGraphqlMutationTemplate(m)>>,
            <<<<Package(h, m), <<"subscription_resolver.go">>>>, deliveryGraphqlSubscriptionTemplate(m, c)>>}
    BY <1>1 DEF DeliveryFiles, Worker, Plugin
  <2>2. Package(h, m) = <<"graphql", m>>
    BY <1>1 DEF Package, Server
  <2>3. OtherPath(<<<<"graphql", m>>, <<"root_resolver.go">>>>)
    BY ResolverPaths
  <2>4. OtherPath(<<<<"graphql", m>>, <<"mutation_resolver.go">>>>)
    BY ResolverPaths
  <2>5. OtherPath(<<<<"graphql", m>>, <<"subscription_resolver.go">>>>)
    BY ResolverPaths
  <2> QED BY <2>1, <2>2, <2>3, <2>4, <2>5
<1>2. CASE h = "rest"
  <2>1. DeliveryFiles(h, m, c) = {<<HandlerFile(h, m), deliveryRestTemplate(m, c)>>}
    BY <1>2 DEF DeliveryFiles, Worker, Plugin
  <2> QED BY <2>1
<1>3. CASE h = "grpc"
  <2>1. DeliveryFiles(h, m, c) = {<<HandlerFile(h, m), deliveryGRPCTemplate(m)>>}
    BY <1>3 DEF DeliveryFiles, Worker, Plugin
  <2> QED BY <2>1
<1>4. CASE h \in Worker \cup Plugin
  <2>1. DeliveryFiles(h, m, c) = {<<HandlerFile(h, m), WorkerTemplate(h, m)>>}
    BY <1>4 DEF DeliveryFiles, Worker, Plugin
  <2> QED BY <2>1
<1> QED BY <1>1, <1>2, <1>3, <1>4 DEF Handler, Server

\* The files of a new module: its module.go, those of its handlers, and others.
LEMMA ModuleFilesHold ==
    ASSUME NEW m \in Module, NEW hs \in SUBSET Handler, NEW c, DistinctNames
    PROVE  LET F == ModuleFiles(m, hs, c)
               lines == moduleMainTemplate(m, [c EXCEPT !.handlers = hs \cap (Server \cup Worker)]) IN
           /\ \A f \in F : \/ f = <<ModuleGo(m), lines>> \/ OtherPath(f[1])
                           \/ \E h \in hs : f[1] = HandlerFile(h, m)
           /\ <<ModuleGo(m), lines>> \in F
           /\ \A h \in hs : \E f \in F : f[1] = HandlerFile(h, m)
<1> DEFINE mod == [c EXCEPT !.handlers = hs \cap (Server \cup Worker)]
           F == ModuleFiles(m, hs, c)
           del == UNION {DeliveryFiles(h, m, mod) : h \in hs}
           main == <<ModuleGo(m), moduleMainTemplate(m, mod)>>
           domain == {<<<<SharedDomain, <<m>>>>, templateSharedDomain(m, mod)>>,
              <<<<<<"domain", m>>, <<"filter.go">>>>, templateModuleDomain(m)>>,
              <<<<<<"domain", m>>, <<"request.go">>>>, templateModuleRequestDomain(m)>>,
              <<<<<<"domain", m>>, <<"response.go">>>>, templateModuleResponseDomain(m, mod)>>,
              <<<<<<"repository", m>>, <<"repository.go">>>>, templateRepositoryAbstraction(m)>>}
           usecase == {<<UsecaseFile(m, <<"usecase.go">>), templateUsecaseAbstraction(m, mod)>>,
              <<UsecaseFile(m, <<"getAll", m>>), templateUsecaseGetAll(m, mod)>>,
              <<UsecaseFile(m, <<"getDetail", m>>), templateUsecaseGetDetail(m, mod)>>,
              <<UsecaseFile(m, <<"create", m>>), templateUsecaseCreate(m, mod)>>,
              <<UsecaseFile(m, <<"update", m>>), templateUsecaseUpdate(m, mod)>>,
              <<UsecaseFile(m, <<"delete", m>>), templateUsecaseDelete(m, mod)>>}
           repo == {<<<<<<"repository", m>>, <<f[1]>>>>, f[2]>> : f \in parseRepositoryModule(m, mod)}
           proto == When("grpc" \in c.handlers, {<<ProtoFile(m), defaultGRPCProto(m)>>})
           schema == When("graphql" \in c.handlers, {<<<<<<"graphql">>, <<m>>>>, defaultGraphqlSchema(m)>>})
<1>1. \A f : f \in F <=> \/ f \in del \/ f = main \/ f \in domain \/ f \in usecase \/ f \in repo
                         \/ f \in proto \/ f \in schema
  <2>1. F = del \cup {main, <<<<SharedDomain, <<m>>>>, templateSharedDomain(m, mod)>>,
              <<<<<<"domain", m>>, <<"filter.go">>>>, templateModuleDomain(m)>>,
              <<<<<<"domain", m>>, <<"request.go">>>>, templateModuleRequestDomain(m)>>,
              <<<<<<"domain", m>>, <<"response.go">>>>, templateModuleResponseDomain(m, mod)>>,
              <<<<<<"repository", m>>, <<"repository.go">>>>, templateRepositoryAbstraction(m)>>,
              <<UsecaseFile(m, <<"usecase.go">>), templateUsecaseAbstraction(m, mod)>>,
              <<UsecaseFile(m, <<"getAll", m>>), templateUsecaseGetAll(m, mod)>>,
              <<UsecaseFile(m, <<"getDetail", m>>), templateUsecaseGetDetail(m, mod)>>,
              <<UsecaseFile(m, <<"create", m>>), templateUsecaseCreate(m, mod)>>,
              <<UsecaseFile(m, <<"update", m>>), templateUsecaseUpdate(m, mod)>>,
              <<UsecaseFile(m, <<"delete", m>>), templateUsecaseDelete(m, mod)>>} \cup repo \cup proto \cup schema
    BY DEF ModuleFiles
  <2> HIDE DEF F, del, main, mod, repo, proto, schema
  <2> QED BY <2>1
<1>2. \A h \in hs : /\ \A f \in DeliveryFiles(h, m, mod) : f[1] = HandlerFile(h, m) \/ OtherPath(f[1])
                    /\ \E f \in DeliveryFiles(h, m, mod) : f[1] = HandlerFile(h, m)
  <2> TAKE h \in hs
  <2> HIDE DEF mod
  <2> QED BY DeliveryHolds
<1>3. \A f \in del : OtherPath(f[1]) \/ \E h \in hs : f[1] = HandlerFile(h, m)
  <2> HIDE DEF mod
  <2> QED BY <1>2
<1>4. \A h \in hs : \E f \in del : f[1] = HandlerFile(h, m)
  <2> HIDE DEF mod
  <2> QED BY <1>2
<1>5. \A n : /\ OtherPath(<<<<"domain", m>>, n>>) /\ OtherPath(<<<<"repository", m>>, n>>)
             /\ OtherPath(<<<<"usecase", m>>, n>>) /\ OtherPath(<<<<"proto", m>>, n>>)
             /\ OtherPath(<<SharedDomain, n>>)
  BY OtherPaths DEF SharedDomain
<1>6. \A f \in domain : OtherPath(f[1])
  <2>1. \A f \in domain : f[1] \in {<<SharedDomain, <<m>>>>, <<<<"domain", m>>, <<"filter.go">>>>,
            <<<<"domain", m>>, <<"request.go">>>>, <<<<"domain", m>>, <<"response.go">>>>,
            <<<<"repository", m>>, <<"repository.go">>>>}
    <3> HIDE DEF mod
    <3> QED OBVIOUS
  <2> HIDE DEF domain
  <2> QED BY <1>5, <2>1
<1>7. \A f \in usecase : OtherPath(f[1])
  <2>1. \A f \in usecase : \E n : f[1] = <<<<"usecase", m>>, n>>
    <3> HIDE DEF mod
    <3> QED BY DEF UsecaseFile
  <2> HIDE DEF usecase
  <2> QED BY <1>5, <2>1
<1>8. \A f \in repo : OtherPath(f[1])
  <2>1. \A f \in repo : \E n : f[1] = <<<<"repository", m>>, n>>
    <3> HIDE DEF mod
    <3> QED OBVIOUS
  <2> HIDE DEF repo
  <2> QED BY <1>5, <2>1
<1>9. \A f \in proto : OtherPath(f[1])
  <2>1. \A f \in proto : f[1] = <<<<"proto", m>>, <<"proto">>>>
    BY DEF ProtoFile, When
  <2> HIDE DEF proto
  <2> QED BY <1>5, <2>1
<1>10. \A f \in schema : OtherPath(f[1])
  <2>1. OtherPath(<<<<"graphql">>, <<m>>>>)
    <3>1. <<m>> # <<"_schema.graphql">>
      BY DEF DistinctNames
    <3> QED BY <3>1, OtherPaths
  <2> HIDE DEF mod
  <2> QED BY <2>1 DEF When
<1> HIDE DEF F, del, main, domain, usecase, repo, proto, schema
<1>11. \A f \in F : \/ f = main \/ OtherPath(f[1]) \/ \E h \in hs : f[1] = HandlerFile(h, m)
  BY <1>1, <1>3, <1>6, <1>7, <1>8, <1>9, <1>10
<1>12. main \in F /\ \A h \in hs : \E f \in F : f[1] = HandlerFile(h, m)
  BY <1>1, <1>4
<1> QED BY <1>11, <1>12 DEF main, F

\* The files of a new service: .env, the root schema, and others.
LEMMA ServiceFilesHold ==
    ASSUME NEW c
    PROVE  /\ \A f \in ServiceFiles(c) : \/ f = <<Env, envTemplate(c)>> \/ f = <<RootSchema, {}>>
                                         \/ OtherPath(f[1])
           /\ <<Env, envTemplate(c)>> \in ServiceFiles(c)
           /\ "graphql" \in c.handlers => <<RootSchema, {}>> \in ServiceFiles(c)
<1> DEFINE main == {<<ServiceGo, serviceMainTemplate(c.modules)>>, <<ApiGo, apiEmbedTemplate>>,
              <<ConfigsGo, configsTemplate(c)>>, <<AppFactoryGo, appFactoryTemplate(c)>>,
              <<<<SharedUsecase, <<"usecase.go">>>>, templateUsecaseUOW>>,
              <<<<<<"common">>, <<"common.go">>>>, templateUsecaseCommon>>,
              <<<<Shared, <<"middleware_impl_example.go">>>>, templateSharedMiddlewareImpl>>,
              <<<<Shared, <<"environment.go">>>>, additionalEnvTemplate(c)>>,
              <<<<<<"main">>, <<"main.go">>>>, cmdMainTemplate>>, <<Env, envTemplate(c)>>}
           repo == parseSharedRepository(c)
           gorm == When(c.gorm, {<<<<Shared, <<"gorm_tracer.go">>>>, templateGORMTracer>>})
           root == When("graphql" \in c.handlers, {<<RootSchema, {}>>})
           sql == When("sql" \in c.deps,
              {<<<<<<"migration">>, <<"migration.go">>>>, templateCmdMigration(c)>>,
               <<<<<<"migrations">>, <<"init_tables.go">>>>, templateCmdMigrationInitTable>>})
<1>1. \A f : f \in ServiceFiles(c) <=> f \in main \/ f \in repo \/ f \in gorm \/ f \in root \/ f \in sql
  <2>1. ServiceFiles(c) = main \cup repo \cup gorm \cup root \cup sql
    BY DEF ServiceFiles
  <2> HIDE DEF main, repo, gorm, root, sql
  <2> QED BY <2>1
<1>2. \A n : /\ OtherPath(<<SharedUsecase, n>>) /\ OtherPath(<<Shared, n>>) /\ OtherPath(<<SharedRepository, n>>)
             /\ OtherPath(<<<<"common">>, n>>) /\ OtherPath(<<<<"main">>, n>>)
             /\ OtherPath(<<<<"migration">>, n>>) /\ OtherPath(<<<<"migrations">>, n>>)
             /\ OtherPath(<<<<"service">>, n>>) /\ OtherPath(<<Api, n>>) /\ OtherPath(<<Configs, n>>)
  BY OtherPaths DEF SharedUsecase, Shared, SharedRepository, Api, Configs
<1>3. \A f \in main : f = <<Env, envTemplate(c)>> \/ OtherPath(f[1])
  <2>1. /\ OtherPath(ServiceGo) /\ OtherPath(ApiGo) /\ OtherPath(ConfigsGo) /\ OtherPath(AppFactoryGo)
    BY <1>2 DEF ServiceGo, ApiGo, ConfigsGo, AppFactoryGo
  <2>2. /\ OtherPath(<<SharedUsecase, <<"usecase.go">>>>) /\ OtherPath(<<<<"common">>, <<"common.go">>>>)
        /\ OtherPath(<<Shared, <<"middleware_impl_example.go">>>>) /\ OtherPath(<<Shared, <<"environment.go">>>>)
        /\ OtherPath(<<<<"main">>, <<"main.go">>>>)
    BY <1>2
  <2>3. \A f \in main : f = <<Env, envTemplate(c)>> \/
            f[1] \in {ServiceGo, ApiGo, ConfigsGo, AppFactoryGo, <<SharedUsecase, <<"usecase.go">>>>,
                <<<<"common">>, <<"common.go">>>>, <<Shared, <<"middleware_impl_example.go">>>>,
                <<Shared, <<"environment.go">>>>, <<<<"main">>, <<"main.go">>>>}
    OBVIOUS
  <2> HIDE DEF main
  <2> QED BY <2>1, <2>2, <2>3
<1>4. \A f \in repo : OtherPath(f[1])
  <2>1. \A f \in repo : \E n : f[1] = <<SharedRepository, n>>
    BY DEF parseSharedRepository, When
  <2> HIDE DEF repo
  <2> QED BY <1>2, <2>1
<1>5. \A f \in gorm : OtherPath(f[1])
  <2>1. \A f \in gorm : f[1] = <<Shared, <<"gorm_tracer.go">>>>
    BY DEF When
  <2> HIDE DEF gorm
  <2> QED BY <1>2, <2>1
<1>6. \A f \in root : f = <<RootSchema, {}>>
  BY DEF When
<1>7. \A f \in sql : OtherPath(f[1])
  <2>1. \A f \in sql : f[1] \in {<<<<"migration">>, <<"migration.go">>>>, <<<<"migrations">>, <<"init_tables.go">>>>}
    BY DEF When
  <2> HIDE DEF sql
  <2> QED BY <1>2, <2>1
<1>8. <<Env, envTemplate(c)>> \in main /\ ("graphql" \in c.handlers => <<RootSchema, {}>> \in root)
  BY DEF When
<1> HIDE DEF main, repo, gorm, root, sql
<1> QED BY <1>1, <1>3, <1>4, <1>5, <1>6, <1>7, <1>8

-----------------------------------------------------------------------------
\* The commands given so far, and what they asked for.

\* The entries of the commands that mount handlers, and of those that do not.
ExtendEntry ==
    [command : {"init", "module", "handler"}, modules : SUBSET Module,
     handlers : SUBSET Handler, done : BOOLEAN]

UsecaseEntry ==
    [command : {"usecase", "apply"}, modules : SUBSET Module, handlers : SUBSET Handler,
     usecase : UsecaseName \cup (UNION {Default(m) : m \in Module}), done : BOOLEAN]

Entry == ExtendEntry \cup UsecaseEntry

\* The handler h was asked for in the module m by a command that was carried out.
Asked(h, m) == \E i \in DOMAIN log : Extends(i) /\ m \in log[i].modules /\ h \in log[i].handlers

\* The module m was created by the i-th command.
IsBirth(i, m) == i \in DOMAIN log /\ m \in log[i].modules /\ log[i].command \in {"init", "module"}

\* Only modules of the project are in the log, each was created once, and the
\* configuration has the shape InitService gives it.
LogInv ==
    /\ log \in Seq(Entry) /\ cfg.modules \subseteq Module
    /\ log = <<>> => cfg.modules = {}
    /\ log # <<>> =>
          /\ cfg = [handlers |-> cfg.handlers, plugins |-> cfg.plugins, modules |-> cfg.modules,
                    deps |-> cfg.deps, driver |-> cfg.driver, gorm |-> cfg.gorm]
          /\ cfg.handlers \subseteq Server \cup Worker
    /\ \A i \in DOMAIN log : /\ log[i].modules \subseteq cfg.modules
                             /\ log[i].command \in {"init", "module"} => log[i].done
    /\ \A m \in cfg.modules : \E i : IsBirth(i, m) /\ \A j : IsBirth(j, m) => j = i

\* What Append does to a sequence, in terms of its domain.
LEMMA AppendHolds ==
    ASSUME NEW S, NEW s \in Seq(S), NEW e \in S
    PROVE  /\ Append(s, e) \in Seq(S) /\ Append(s, e) # <<>>
           /\ DOMAIN Append(s, e) = DOMAIN s \cup {Len(s) + 1} /\ Len(s) + 1 \notin DOMAIN s
           /\ \A i \in DOMAIN s : Append(s, e)[i] = s[i]
           /\ Append(s, e)[Len(s) + 1] = e
<1>1. DOMAIN s = 1..Len(s) /\ Len(s) \in Nat
  OBVIOUS
<1>2. DOMAIN Append(s, e) = 1..(Len(s) + 1)
  OBVIOUS
<1> QED BY <1>1, <1>2

\* What a command asks for is added to what was asked.
LEMMA AskedStep ==
    ASSUME log \in Seq(Entry), NEW e \in Entry, log' = Append(log, e)
    PROVE  \A h, m : Asked(h, m)' <=>
              \/ Asked(h, m)
              \/ /\ e.done /\ e.command \in {"init", "module", "handler"}
                 /\ m \in e.modules /\ h \in e.handlers
<1> DEFINE n == Len(log) + 1
<1>1. /\ DOMAIN log' = DOMAIN log \cup {n} /\ n \notin DOMAIN log
      /\ \A i \in DOMAIN log : log'[i] = log[i]
      /\ log'[n] = e
  BY AppendHolds
<1> HIDE DEF n
<1> QED BY <1>1 DEF Asked, Extends

\* A module born before the command was born by another one.
LEMMA BirthStep ==
    ASSUME LogInv, NEW e \in Entry, log' = Append(log, e), NEW m \in cfg.modules,
           e.command \in {"init", "module"} => m \notin e.modules
    PROVE  /\ Birth(m)' = Birth(m) /\ IsBirth(Birth(m), m)
           /\ \A j : IsBirth(j, m)' <=> IsBirth(j, m)
<1> DEFINE n == Len(log) + 1
<1>1. /\ DOMAIN log' = DOMAIN log \cup {n} /\ n \notin DOMAIN log
      /\ \A i \in DOMAIN log : log'[i] = log[i]
      /\ log'[n] = e
  BY AppendHolds DEF LogInv
<1> HIDE DEF n
<1>2. PICK i : IsBirth(i, m) /\ \A j : IsBirth(j, m) => j = i
  BY DEF LogInv
<1>3. \A j : IsBirth(j, m)' <=> IsBirth(j, m)
  BY <1>1 DEF IsBirth
<1>4. Birth(m) = i
  BY <1>2 DEF Birth, IsBirth
<1>5. Birth(m)' = i
  <2>1. i \in DOMAIN log' /\ m \in log'[i].modules /\ log'[i].command \in {"init", "module"}
    BY <1>2, <1>3 DEF IsBirth
  <2>2. \A j \in DOMAIN log' : m \in log'[j].modules /\ log'[j].command \in {"init", "module"} => j = i
    BY <1>2, <1>3 DEF IsBirth
  <2> QED BY <2>1, <2>2 DEF Birth
<1> QED BY <1>2, <1>3, <1>4, <1>5

\* The command of a module's birth.
LEMMA NewBirth ==
    ASSUME LogInv, NEW e \in Entry, log' = Append(log, e), NEW m, m \notin cfg.modules,
           m \in e.modules, e.command \in {"init", "module"}
    PROVE  /\ Birth(m)' = Len(log) + 1
           /\ \A j : IsBirth(j, m)' <=> j = Len(log) + 1
           /\ \A i \in DOMAIN log' : m \in log'[i].modules => i = Len(log) + 1
<1> DEFINE n == Len(log) + 1
<1>1. /\ DOMAIN log' = DOMAIN log \cup {n} /\ n \notin DOMAIN log
      /\ \A i \in DOMAIN log : log'[i] = log[i]
      /\ log'[n] = e
  BY AppendHolds DEF LogInv
<1> HIDE DEF n
<1>2. \A i \in DOMAIN log' : m \in log'[i].modules => i = n
  BY <1>1 DEF LogInv
<1>3. \A j : IsBirth(j, m)' <=> j = n
  BY <1>1, <1>2 DEF IsBirth
<1>4. Birth(m)' = n
  <2>1. n \in DOMAIN log' /\ m \in log'[n].modules /\ log'[n].command \in {"init", "module"}
    BY <1>1
  <2> QED BY <1>2, <2>1 DEF Birth
<1> QED BY <1>2, <1>3, <1>4 DEF n

(***************************************************************************)
(* What a command adds to the handlers mounted in a module: those it asks  *)
(* for, unless module.go is not found under the module's name.             *)
(***************************************************************************)
LEMMA MountedStep ==
    ASSUME LogInv, NEW e \in ExtendEntry, e.done, log' = Append(log, e), NEW m \in cfg.modules,
           e.command \in {"init", "module"} => m \notin e.modules
    PROVE  Mounted(m)' = Mounted(m) \cup (IF Clean[m] = m /\ m \in e.modules THEN e.handlers ELSE {})
<1>1. PICK n :
      /\ DOMAIN log' = DOMAIN log \cup {n} /\ n \notin DOMAIN log
      /\ \A i \in DOMAIN log : log'[i] = log[i]
      /\ log'[n] = e
  BY AppendHolds DEF LogInv, Entry
<1>2. Birth(m)' = Birth(m) /\ Birth(m) \in DOMAIN log
  BY BirthStep DEF IsBirth, Entry
<1>3. \A i \in DOMAIN log : Extends(i)' <=> Extends(i)
  BY <1>1 DEF Extends
<1>4. Extends(n)' /\ e.handlers \subseteq Handler
  BY <1>1 DEF Extends, ExtendEntry
<1>5. \A h \in Handler : h \in Mounted(m) <=>
          \E i \in DOMAIN log : /\ Extends(i) /\ m \in log[i].modules /\ h \in log[i].handlers
                                /\ Clean[m] = m \/ (i = Birth(m) /\ h \notin Plugin)
  BY DEF Mounted, Handler
<1>6. \A h \in Handler : h \in Mounted(m)' <=>
          \E i \in DOMAIN log' : /\ Extends(i)' /\ m \in log'[i].modules /\ h \in log'[i].handlers
                                 /\ Clean[m] = m \/ (i = Birth(m) /\ h \notin Plugin)
  BY <1>2 DEF Mounted, Handler
<1>7. Mounted(m) \subseteq Handler /\ Mounted(m)' \subseteq Handler
  BY DEF Mounted, Handler
<1>8. \A h \in Handler : h \in Mounted(m)' <=>
          \/ h \in Mounted(m)
          \/ /\ m \in e.modules /\ h \in e.handlers
             /\ Clean[m] = m \/ (n = Birth(m) /\ h \notin Plugin)
  BY <1>1, <1>3, <1>4, <1>5, <1>6
<1>9. n # Birth(m)
  BY <1>1, <1>2
<1> QED BY <1>4, <1>7, <1>8, <1>9

\* A command that mounts nothing.
LEMMA MountedSame ==
    ASSUME LogInv, NEW e \in Entry, log' = Append(log, e), NEW m \in cfg.modules,
           e.command \in {"usecase", "apply"} \/ (e.command = "handler" /\ ~e.done)
    PROVE  Mounted(m)' = Mounted(m)
<1>1. PICK n :
      /\ DOMAIN log' = DOMAIN log \cup {n} /\ n \notin DOMAIN log
      /\ \A i \in DOMAIN log : log'[i] = log[i]
      /\ log'[n] = e
  BY AppendHolds DEF LogInv
<1>2. Birth(m)' = Birth(m) /\ Birth(m) \in DOMAIN log
  BY BirthStep DEF IsBirth
<1>3. \A i \in DOMAIN log : Extends(i)' <=> Extends(i)
  BY <1>1 DEF Extends
<1>4. ~Extends(n)'
  BY <1>1 DEF Extends
<1> QED BY <1>1, <1>2, <1>3, <1>4 DEF Mounted

\* The handlers a module is created with.
LEMMA MountedNew ==
    ASSUME LogInv, NEW e \in ExtendEntry, e.done, log' = Append(log, e),
           NEW m, m \notin cfg.modules, m \in e.modules, e.command \in {"init", "module"}
    PROVE  Mounted(m)' = IF Clean[m] = m THEN e.handlers ELSE e.handlers \ Plugin
<1>1. PICK n : /\ n \in DOMAIN log' /\ log'[n] = e
               /\ Birth(m)' = n /\ \A i \in DOMAIN log' : m \in log'[i].modules => i = n
  <2>1. Len(log) + 1 \in DOMAIN log' /\ log'[Len(log) + 1] = e
    BY AppendHolds DEF LogInv, Entry
  <2>2. Birth(m)' = Len(log) + 1 /\ \A i \in DOMAIN log' : m \in log'[i].modules => i = Len(log) + 1
    BY NewBirth DEF Entry
  <2> QED BY <2>1, <2>2
<1>3. Extends(n)' /\ e.handlers \subseteq Handler
  BY <1>1 DEF Extends, ExtendEntry
<1>4. \A h \in Handler : h \in Mounted(m)' <=>
          \E i \in DOMAIN log' : /\ Extends(i)' /\ m \in log'[i].modules /\ h \in log'[i].handlers
                                 /\ Clean[m] = m \/ (i = Birth(m)' /\ h \notin Plugin)
  BY DEF Mounted, Handler
<1>5. Mounted(m)' \subseteq Handler
  BY DEF Mounted, Handler
<1>6. \A h \in Handler : h \in Mounted(m)' <=> h \in e.handlers /\ (Clean[m] = m \/ h \notin Plugin)
  BY <1>1, <1>3, <1>4
<1> QED BY <1>3, <1>5, <1>6

\* Under its own name a module has all the handlers it was asked for.
LEMMA MountedAsked ==
    ASSUME NEW m, NEW h
    PROVE  /\ h \in Mounted(m) => h \in Handler /\ Asked(h, m)
           /\ Clean[m] = m /\ h \in Handler /\ Asked(h, m) => h \in Mounted(m)
  BY DEF Mounted, Asked, Handler

-----------------------------------------------------------------------------
\* The lines of module.go, .env and the root schema.

\* The handlers hs, and no others, are mounted in the lines B of module.go of m,
\* and the others that have a line are commented out.
ModuleLines(B, m, hs) ==
    /\ \A l \in DOMAIN B : \A h \in Handler : l.on /\ MountFacts(h, m) \subseteq l.facts => h \in hs
    /\ \A h \in hs : \E l \in DOMAIN B : l.on /\ MountFacts(h, m) \subseteq l.facts
    /\ \A h \in (Server \cup Worker) \ hs : If(FALSE, MountFacts(h, m)) \in DOMAIN B

\* In the lines B of .env the handlers hs are enabled and the workers set are set.
EnvLines(B, hs, set) ==
    /\ \A h \in Server \cup Worker : If(h \in hs, EnvUse(h)) \in DOMAIN B
    /\ \A h \in set : On(EnvSettings(h)) \in DOMAIN B

\* The line that mounts a handler says which one.
LEMMA MountFactsHold ==
    ASSUME NEW m, NEW h \in Handler, NEW g \in Handler
    PROVE  /\ MountFacts(h, m) \subseteq MountFacts(g, m) => h = g
           /\ MountFacts(h, m) \subseteq PluginFacts(g) \cup MountFacts(g, m) => h = g
           /\ \A p : ~(MountFacts(h, m) \subseteq {Import(p)})
<1> DEFINE u == Use(Package(h, m), "New", <<h>>)
<1>1. u \in MountFacts(h, m) /\ u = <<"use", Package(h, m), <<"New", <<h>>>>>>
  BY DEF MountFacts, Use
<1>2. <<h>> # <<>>
  OBVIOUS
<1>3. ASSUME u \in PluginFacts(g) \cup MountFacts(g, m) PROVE h = g
  <2>1. \/ u = Import(Lib(g)) \/ u = Use(Lib(g), "New", <<>>)
        \/ u = Use(Package(g, m), "New", <<g>>)
        \/ u = Use(SharedUsecase, "GetSharedUsecase", <<>>)
    BY <1>3 DEF PluginFacts, MountFacts
  <2> HIDE DEF u
  <2>2. u # Import(Lib(g))
    BY <1>1 DEF Import
  <2>3. u # Use(Lib(g), "New", <<>>) /\ u # Use(SharedUsecase, "GetSharedUsecase", <<>>)
    BY <1>1, <1>2 DEF Use
  <2>4. u = Use(Package(g, m), "New", <<g>>)
    BY <2>1, <2>2, <2>3
  <2> QED BY <1>1, <2>4 DEF Use
<1>4. \A p : u # Import(p)
  BY <1>1 DEF Import
<1> HIDE DEF u
<1> QED BY <1>1, <1>3, <1>4

\* A module is created with the lines of the handlers it is asked for.
LEMMA ModuleLinesNew ==
    ASSUME NEW m, NEW hs \in SUBSET Handler, NEW c, c.handlers = hs \ Plugin
    PROVE  ModuleLines(SetToBag(moduleMainTemplate(m, c)), m, hs \ Plugin)
<1> DEFINE T == moduleMainTemplate(m, c)
           B == SetToBag(T)
<1>1. DOMAIN B = T
  BY DEF SetToBag
<1>2. \A h \in Server \cup Worker : If(h \in c.handlers, MountFacts(h, m)) \in T
  BY DEF moduleMainTemplate
<1>3. \A l \in T : \/ l.facts = {Import(SharedUsecase), Def("NewModule", <<>>)}
                   \/ \E p : l.facts = {Import(p)}
                   \/ \E h \in Server \cup Worker : l.facts = MountFacts(h, m) /\ (l.on => h \in c.handlers)
  <2> TAKE l \in T
  <2>1. \/ l = On({Import(SharedUsecase), Def("NewModule", <<>>)})
        \/ l = If(IsWorkerActive(c), {Import(<<"worker", m>>)})
        \/ \E h \in Server : l = If(h \in c.handlers, {Import(<<h, m>>)})
        \/ \E h \in Server \cup Worker : l = If(h \in c.handlers, MountFacts(h, m))
    BY DEF moduleMainTemplate
  <2>2. CASE \E h \in Server \cup Worker : l = If(h \in c.handlers, MountFacts(h, m))
    <3>1. PICK h \in Server \cup Worker : l = If(h \in c.handlers, MountFacts(h, m))
      BY <2>2
    <3>2. l.facts = MountFacts(h, m) /\ (l.on => h \in c.handlers)
      BY <3>1 DEF If
    <3> QED BY <3>2
  <2>3. CASE \E h \in Server : l = If(h \in c.handlers, {Import(<<h, m>>)})
    <3>1. PICK h \in Server : l = If(h \in c.handlers, {Import(<<h, m>>)})
      BY <2>3
    <3>2. l.facts = {Import(<<h, m>>)}
      BY <3>1 DEF If
    <3> QED BY <3>2
  <2>4. CASE l = If(IsWorkerActive(c), {Import(<<"worker", m>>)})
    <3>1. l.facts = {Import(<<"worker", m>>)}
      BY <2>4 DEF If
    <3> QED BY <3>1
  <2>5. CASE l = On({Import(SharedUsecase), Def("NewModule", <<>>)})
    BY <2>5 DEF On, If
  <2> QED BY <2>1, <2>2, <2>3, <2>4, <2>5
<1>4. \A h \in Handler : ~(MountFacts(h, m) \subseteq {Import(SharedUsecase), Def("NewModule", <<>>)})
  BY DEF MountFacts, Use, Import, Def
<1>5. Server \cup Worker = Handler \ Plugin
  BY DEF Handler, Server, Worker, Plugin
<1> HIDE DEF T, B
<1>6. \A l \in DOMAIN B : \A h \in Handler : l.on /\ MountFacts(h, m) \subseteq l.facts => h \in hs \ Plugin
  <2> SUFFICES ASSUME NEW l \in T, NEW h \in Handler, l.on, MountFacts(h, m) \subseteq l.facts
               PROVE  h \in hs \ Plugin
    BY <1>1
  <2>1. \A p : ~(MountFacts(h, m) \subseteq {Import(p)})
    BY MountFactsHold
  <2>2. PICK g \in Server \cup Worker : l.facts = MountFacts(g, m) /\ g \in c.handlers
    BY <1>3, <1>4, <2>1
  <2>3. h = g
    BY <2>2, MountFactsHold DEF Handler
  <2> QED BY <2>2, <2>3
<1>7. \A h \in hs \ Plugin : \E l \in DOMAIN B : l.on /\ MountFacts(h, m) \subseteq l.facts
  <2> TAKE h \in hs \ Plugin
  <2>1. If(h \in c.handlers, MountFacts(h, m)) \in T /\ h \in c.handlers
    BY <1>2, <1>5
  <2>2. If(h \in c.handlers, MountFacts(h, m)).on /\ If(h \in c.handlers, MountFacts(h, m)).facts = MountFacts(h, m)
    BY <2>1 DEF If
  <2> QED BY <1>1, <2>1, <2>2
<1>8. \A h \in (Server \cup Worker) \ (hs \ Plugin) : If(FALSE, MountFacts(h, m)) \in DOMAIN B
  <2> TAKE h \in (Server \cup Worker) \ (hs \ Plugin)
  <2>1. (h \in c.handlers) = FALSE
    OBVIOUS
  <2> QED BY <1>1, <1>2, <2>1
<1> QED BY <1>6, <1>7, <1>8 DEF ModuleLines, B, T

\* An edited module has the lines of the handlers the edits mount, too.
LEMMA ModuleLinesEdited ==
    ASSUME NEW fs, NEW edits, WellFormed(edits), \A p \in DOMAIN fs : IsABag(fs[p]),
           NEW m, ModuleGo(m) \in DOMAIN fs, NEW old, old \subseteq Handler, NEW hs \in SUBSET Handler,
           ModuleLines(fs[ModuleGo(m)], m, old),
           \A e \in edits : e[2] = ModuleGo(m) => Mounts(hs, m, e),
           \A e : Mounts(hs, m, e) => e \in edits
    PROVE  ModuleLines(readFileAndApply(fs, edits)[ModuleGo(m)], m, old \cup hs)
<1> DEFINE p == ModuleGo(m)
           A == fs[p]
           B == readFileAndApply(fs, edits)[p]
<1>a. Edited(A, B, p, edits)
  BY ApplyHolds
<1>1. /\ \A l \in DOMAIN A : l.on \/ <<"on", p, l.facts>> \notin edits => l \in DOMAIN B
      /\ \A l \in DOMAIN B : \/ l \in DOMAIN A
                             \/ <<"on", p, l.facts>> \in edits \/ <<"add", p, l.facts>> \in edits
      /\ \A facts : <<"on", p, facts>> \in edits /\ If(FALSE, facts) \in DOMAIN A => On(facts) \in DOMAIN B
      /\ \A facts : <<"add", p, facts>> \in edits => On(facts) \in DOMAIN B
  <2> HIDE DEF A, B, p
  <2> QED BY <1>a DEF Edited
<1>2. \A k, facts : <<k, p, facts>> \in edits => Mounts(hs, m, <<k, p, facts>>)
  OBVIOUS
<1>3. \A k, facts : Mounts(hs, m, <<k, p, facts>>) =>
          \/ k = "on" /\ \E h \in hs \ Plugin : facts = MountFacts(h, m)
          \/ \E q : facts = {Import(q)}
          \/ k = "add" /\ \E pl \in hs \cap Plugin : facts = PluginFacts(pl) \cup MountFacts(pl, m)
  BY DEF Mounts
<1>4. /\ \A l \in DOMAIN A : \A h \in Handler : l.on /\ MountFacts(h, m) \subseteq l.facts => h \in old
      /\ \A h \in old : \E l \in DOMAIN A : l.on /\ MountFacts(h, m) \subseteq l.facts
      /\ \A h \in (Server \cup Worker) \ old : If(FALSE, MountFacts(h, m)) \in DOMAIN A
  BY DEF ModuleLines
<1>5. /\ \A h \in hs \ Plugin : <<"on", p, MountFacts(h, m)>> \in edits
      /\ \A pl \in hs \cap Plugin : <<"add", p, PluginFacts(pl) \cup MountFacts(pl, m)>> \in edits
  BY DEF Mounts
<1>6. \A facts : On(facts).facts = facts /\ On(facts).on /\ If(FALSE, facts).facts = facts
  BY DEF On, If
<1> HIDE DEF p, A, B
<1>7. ASSUME NEW l \in DOMAIN B, NEW h \in Handler, l.on, MountFacts(h, m) \subseteq l.facts
      PROVE  h \in old \cup hs
  <2>1. CASE l \in DOMAIN A
    BY <1>4, <1>7, <2>1
  <2>2. CASE <<"on", p, l.facts>> \in edits \/ <<"add", p, l.facts>> \in edits
    <3>1. \/ \E g \in hs \ Plugin : l.facts = MountFacts(g, m)
          \/ \E q : l.facts = {Import(q)}
          \/ \E pl \in hs \cap Plugin : l.facts = PluginFacts(pl) \cup MountFacts(pl, m)
      BY <1>2, <1>3, <2>2
    <3>2. \A q : l.facts # {Import(q)}
      BY <1>7, MountFactsHold
    <3>3. ASSUME NEW g \in hs \ Plugin, l.facts = MountFacts(g, m) PROVE h \in hs
      <4>1. h = g
        BY <1>7, <3>3, MountFactsHold
      <4> QED BY <4>1
    <3>4. ASSUME NEW g \in hs \cap Plugin, l.facts = PluginFacts(g) \cup MountFacts(g, m) PROVE h \in hs
      <4>1. h = g
        BY <1>7, <3>4, MountFactsHold
      <4> QED BY <4>1
    <3> QED BY <3>1, <3>2, <3>3, <3>4
  <2> QED BY <1>1, <2>1, <2>2
<1>8. ASSUME NEW h \in old \cup hs
      PROVE  \E l \in DOMAIN B : l.on /\ MountFacts(h, m) \subseteq l.facts
  <2>1. CASE h \in old
    BY <1>1, <1>4, <2>1
  <2>2. CASE h \in hs \cap Plugin
    <3>1. On(PluginFacts(h) \cup MountFacts(h, m)) \in DOMAIN B
      BY <1>1, <1>5, <2>2
    <3> QED BY <1>6, <3>1
  <2>3. CASE h \in hs \ Plugin /\ h \notin old
    <3>1. h \in Server \cup Worker
      BY <2>3 DEF Handler
    <3>2. On(MountFacts(h, m)) \in DOMAIN B
      BY <1>1, <1>4, <1>5, <2>3, <3>1
    <3> QED BY <1>6, <3>2
  <2> QED BY <2>1, <2>2, <2>3
<1>9. ASSUME NEW h \in (Server \cup Worker) \ (old \cup hs)
      PROVE  If(FALSE, MountFacts(h, m)) \in DOMAIN B
  <2>1. h \in Handler
    BY DEF Handler
  <2>2. If(FALSE, MountFacts(h, m)) \in DOMAIN A
    BY <1>4
  <2>3. \A q : MountFacts(h, m) # {Import(q)}
    BY <2>1, MountFactsHold
  <2>4. ASSUME <<"on", p, MountFacts(h, m)>> \in edits PROVE FALSE
    <3>1. Mounts(hs, m, <<"on", p, MountFacts(h, m)>>)
      BY <1>2, <2>4
    <3>2. \E g \in hs \ Plugin : MountFacts(h, m) = MountFacts(g, m)
      BY <1>3, <2>3, <3>1
    <3> QED BY <2>1, <3>2, MountFactsHold
  <2>5. <<"on", p, If(FALSE, MountFacts(h, m)).facts>> \notin edits
    BY <1>6, <2>4
  <2> QED BY <1>1, <2>2, <2>5
<1> QED BY <1>7, <1>8, <1>9 DEF ModuleLines, B, p

\* A file without edits keeps its lines.
LEMMA Untouched ==
    ASSUME NEW fs, NEW edits, WellFormed(edits), \A p \in DOMAIN fs : IsABag(fs[p]),
           NEW p \in DOMAIN fs, \A e \in edits : e[2] # p
    PROVE  /\ DOMAIN readFileAndApply(fs, edits)[p] = DOMAIN fs[p]
           /\ \A l \in DOMAIN fs[p] : readFileAndApply(fs, edits)[p][l] = fs[p][l]
<1> DEFINE r == readFileAndApply(fs, edits)
<1>1. \A k, facts : <<k, p, facts>> \notin edits
  OBVIOUS
<1>2. Edited(fs[p], r[p], p, edits)
  BY ApplyHolds
<1> HIDE DEF r
<1>3. \A l \in DOMAIN fs[p] : l \in DOMAIN r[p] /\ r[p][l] = fs[p][l]
  BY <1>1, <1>2 DEF Edited
<1>4. \A l \in DOMAIN r[p] : l \in DOMAIN fs[p]
  BY <1>1, <1>2 DEF Edited
<1> QED BY <1>3, <1>4 DEF r

\* The template of .env, and an edit of it.
LEMMA EnvLinesNew ==
    ASSUME NEW c, NEW set, set \subseteq Worker, \A h \in set : h = "rabbitmq" => h \in c.handlers
    PROVE  EnvLines(SetToBag(envTemplate(c)), c.handlers, set)
<1>1. DOMAIN SetToBag(envTemplate(c)) = envTemplate(c)
  BY DEF SetToBag
<1>2. \A h \in Server \cup Worker : If(h \in c.handlers, EnvUse(h)) \in envTemplate(c)
  BY DEF envTemplate
<1>3. ASSUME NEW h \in set PROVE On(EnvSettings(h)) \in envTemplate(c)
  <2>1. If(h = "rabbitmq" => h \in c.handlers, EnvSettings(h)) \in envTemplate(c)
    BY DEF envTemplate
  <2>2. (h = "rabbitmq" => h \in c.handlers) = TRUE
    OBVIOUS
  <2> QED BY <2>1, <2>2 DEF On
<1> QED BY <1>1, <1>2, <1>3 DEF EnvLines

\* An edit of .env enables the handlers it is for and leaves the settings alone.
LEMMA EnvLinesEdited ==
    ASSUME NEW fs, NEW edits, WellFormed(edits), \A p \in DOMAIN fs : IsABag(fs[p]),
           Env \in DOMAIN fs, NEW old, NEW set, NEW hs, old \subseteq hs,
           EnvLines(fs[Env], old, set),
           \A e \in edits : e[2] = Env <=> \E h \in hs : e = <<"on", Env, EnvUse(h)>>,
           \A h \in hs : <<"on", Env, EnvUse(h)>> \in edits
    PROVE  EnvLines(readFileAndApply(fs, edits)[Env], hs, set)
<1> DEFINE A == fs[Env]
           B == readFileAndApply(fs, edits)[Env]
<1>a. Edited(A, B, Env, edits)
  BY ApplyHolds
<1>1. /\ \A l \in DOMAIN A : l.on \/ <<"on", Env, l.facts>> \notin edits => l \in DOMAIN B
      /\ \A facts : <<"on", Env, facts>> \in edits /\ If(FALSE, facts) \in DOMAIN A => On(facts) \in DOMAIN B
  <2> HIDE DEF A, B
  <2> QED BY <1>a DEF Edited
<1>2. \A facts : /\ On(facts).facts = facts /\ On(facts).on /\ If(FALSE, facts).facts = facts
                 /\ On(facts) = If(TRUE, facts)
  BY DEF On, If
<1>3. ASSUME NEW h, NEW g, EnvUse(h) = EnvUse(g) PROVE h = g
  <2>1. <<"USE", h>> \in EnvUse(g)
    BY <1>3 DEF EnvUse
  <2>2. <<"USE", h>> = <<"USE", g>>
    BY <2>1 DEF EnvUse
  <2> QED BY <2>2
<1>4. \A h : <<"on", Env, EnvUse(h)>> \in edits <=> h \in hs
  <2> TAKE h
  <2>1. ASSUME <<"on", Env, EnvUse(h)>> \in edits PROVE h \in hs
    <3>1. PICK g \in hs : <<"on", Env, EnvUse(h)>> = <<"on", Env, EnvUse(g)>>
      BY <2>1
    <3> QED BY <1>3, <3>1
  <2> QED BY <2>1
<1>5. /\ \A h \in Server \cup Worker : If(h \in old, EnvUse(h)) \in DOMAIN A
      /\ \A h \in set : On(EnvSettings(h)) \in DOMAIN A
  BY DEF EnvLines
<1> HIDE DEF A, B
<1>6. ASSUME NEW h \in Server \cup Worker PROVE If(h \in hs, EnvUse(h)) \in DOMAIN B
  <2>1. CASE h \in old
    <3>1. (h \in old) = TRUE /\ (h \in hs) = TRUE
      BY <2>1
    <3>2. On(EnvUse(h)) \in DOMAIN A
      BY <1>2, <1>5, <3>1
    <3>3. On(EnvUse(h)) \in DOMAIN B
      BY <1>1, <1>2, <3>2
    <3> QED BY <1>2, <3>1, <3>3
  <2>2. CASE h \in hs /\ h \notin old
    <3>1. (h \in old) = FALSE /\ (h \in hs) = TRUE
      BY <2>2
    <3>2. If(FALSE, EnvUse(h)) \in DOMAIN A
      BY <1>5, <3>1
    <3>3. On(EnvUse(h)) \in DOMAIN B
      BY <1>1, <1>4, <2>2, <3>2
    <3> QED BY <1>2, <3>1, <3>3
  <2>3. CASE h \notin hs
    <3>1. (h \in old) = FALSE /\ (h \in hs) = FALSE
      BY <2>3
    <3>2. If(FALSE, EnvUse(h)) \in DOMAIN A
      BY <1>5, <3>1
    <3>3. <<"on", Env, If(FALSE, EnvUse(h)).facts>> \notin edits
      BY <1>2, <1>4, <2>3
    <3>4. If(FALSE, EnvUse(h)) \in DOMAIN B
      BY <1>1, <3>2, <3>3
    <3> QED BY <3>1, <3>4
  <2> QED BY <2>1, <2>2, <2>3
<1>7. \A h \in set : On(EnvSettings(h)) \in DOMAIN B
  BY <1>1, <1>2, <1>5
<1> QED BY <1>6, <1>7 DEF EnvLines, B

-----------------------------------------------------------------------------
(***************************************************************************)
(* The inductive invariant: which files there are, the lines of every      *)
(* module.go, of .env and of the root schema, from the commands alone.     *)
(***************************************************************************)
FilesInv ==
    /\ log = <<>> => files = <<>>
    /\ \A p \in DOMAIN files : IsABag(files[p])
    /\ log # <<>> => Env \in DOMAIN files
    /\ \A m \in Module : ModuleGo(m) \in DOMAIN files <=> m \in cfg.modules
    /\ \A m \in Module, h \in Handler : HandlerFile(h, m) \in DOMAIN files <=> Asked(h, m)

\* module.go of a module mounts what Mounted says.
ModuleInv == \A m \in cfg.modules : ModuleLines(files[ModuleGo(m)], m, Mounted(m))

\* The workers whose settings .env has: RabbitMQ only if it was asked for first.
Settings == {h \in Worker : h = "rabbitmq" => h \in log[1].handlers}

\* The lines of .env follow candi.json, which knows every handler asked for.
EnvInv ==
    /\ log # <<>> => EnvLines(files[Env], cfg.handlers, Settings)
    /\ \A m \in Module, h \in Handler \ Plugin : Asked(h, m) => h \in cfg.handlers

\* The root schema has the fields of the GraphQL modules, once each.
SchemaInv ==
    \A m \in Module :
        IF Asked("graphql", m)
          THEN /\ RootSchema \in DOMAIN files /\ On(GraphQLField(m)) \in DOMAIN files[RootSchema]
               /\ files[RootSchema][On(GraphQLField(m))] = 1
          ELSE RootSchema \in DOMAIN files => On(GraphQLField(m)) \notin DOMAIN files[RootSchema]

GenInv == LogInv /\ FilesInv /\ ModuleInv /\ EnvInv /\ SchemaInv

(***************************************************************************)
(* What the commands init, module and handler have in common when they are *)
(* carried out: the modules ms get the handlers hs, the files new are      *)
(* written (module.go with the configuration mod), and the edits mount the *)
(* handlers mounted, of which the others are workers ms have already.      *)
(***************************************************************************)
Extension(ms, hs, mounted, mod, new, others, created, e) ==
    /\ ms \in SUBSET Module /\ hs \in SUBSET Handler /\ mounted \in SUBSET Handler
    /\ e \in ExtendEntry /\ e.done /\ e.modules = ms /\ e.handlers = hs /\ log' = Append(log, e)
    /\ e.command \in {"init", "module"} => ms \cap cfg.modules = {} /\ mounted = hs
    /\ e.command = "handler" => ms \subseteq cfg.modules
    /\ log = <<>> <=> e.command = "init"
    /\ cfg' = [handlers |-> cfg'.handlers, plugins |-> cfg'.plugins, modules |-> cfg'.modules,
               deps |-> cfg'.deps, driver |-> cfg'.driver, gorm |-> cfg'.gorm]
    /\ cfg'.modules = cfg.modules \cup ms
    /\ cfg'.handlers = (IF log = <<>> THEN {} ELSE cfg.handlers) \cup (hs \ Plugin)
    /\ hs \subseteq mounted
    /\ \A h \in mounted \ hs : h \in Worker /\ \A m \in ms : Asked(h, m)
    /\ \A h \in hs, m \in ms : ~Asked(h, m)
    /\ mod.handlers = hs \ Plugin
    /\ \A f \in new : \/ \E x \in ms \ cfg.modules : f = <<ModuleGo(x), moduleMainTemplate(x, mod)>>
                      \/ \E h \in hs, x \in ms : f[1] = HandlerFile(h, x)
                      \/ f = <<RootSchema, {}>> /\ RootSchema \notin DOMAIN files
                      \/ f = <<Env, envTemplate(cfg')>> /\ log = <<>>
                      \/ OtherPath(f[1])
    /\ \A x \in ms \ cfg.modules : <<ModuleGo(x), moduleMainTemplate(x, mod)>> \in new
    /\ \A h \in hs, x \in ms : \E f \in new : f[1] = HandlerFile(h, x)
    /\ log = <<>> => <<Env, envTemplate(cfg')>> \in new
    /\ "graphql" \in hs /\ RootSchema \notin DOMAIN files => <<RootSchema, {}>> \in new
    /\ WellFormed(others) /\ Elsewhere(others)
    /\ files' = readFileAndApply(Write(files, new),
                   others \cup getNeedFileUpdates(cfg', ms, mounted, created))

\* The files before the edits.
LEMMA ExtensionWrites ==
    ASSUME GenInv, NEW ms, NEW hs, NEW mounted, NEW mod, NEW new, NEW others, NEW created, NEW e,
           Extension(ms, hs, mounted, mod, new, others, created, e)
    PROVE  LET W == Write(files, new) IN
           /\ \A p \in DOMAIN W : IsABag(W[p])
           /\ \A x \in ms \ cfg.modules : W[ModuleGo(x)] = SetToBag(moduleMainTemplate(x, mod))
           /\ \A x \in cfg.modules : W[ModuleGo(x)] = files[ModuleGo(x)]
           /\ Env \in DOMAIN W
           /\ W[Env] = IF log = <<>> THEN SetToBag(envTemplate(cfg')) ELSE files[Env]
           /\ RootSchema \in DOMAIN files => W[RootSchema] = files[RootSchema]
           /\ RootSchema \in DOMAIN W /\ RootSchema \notin DOMAIN files => W[RootSchema] = SetToBag({})
           /\ RootSchema \in DOMAIN files \/ "graphql" \in hs => RootSchema \in DOMAIN W
           /\ \A x \in Module : ModuleGo(x) \in DOMAIN W <=> x \in cfg.modules \cup ms
           /\ \A x \in Module, h \in Handler :
                 HandlerFile(h, x) \in DOMAIN W <=> Asked(h, x) \/ (x \in ms /\ h \in hs)
<1> DEFINE W == Write(files, new)
<1>1. /\ DOMAIN W = {f[1] : f \in new} \cup DOMAIN files
      /\ \A p \in DOMAIN W : IsABag(W[p])
      /\ \A p \in DOMAIN files : (\A f \in new : f[1] # p) => W[p] = files[p]
      /\ \A f \in new : (\A g \in new : g[1] = f[1] => g[2] = f[2]) => W[f[1]] = SetToBag(f[2])
  <2>1. \A p \in DOMAIN files : IsABag(files[p])
    BY DEF GenInv, FilesInv
  <2>2. DOMAIN W = {f[1] : f \in new} \cup DOMAIN files /\ \A p \in DOMAIN W : IsABag(W[p])
    BY <2>1, WriteHolds
  <2>3. \A p \in DOMAIN files : (\A f \in new : f[1] # p) => W[p] = files[p]
    BY <2>1, WriteHolds
  <2>4. ASSUME NEW f \in new, \A g \in new : g[1] = f[1] => g[2] = f[2]
        PROVE  W[f[1]] = SetToBag(f[2])
    BY <2>4, WriteNew
  <2> QED BY <2>2, <2>3, <2>4
<1>2. /\ ms \subseteq Module /\ hs \subseteq Handler
      /\ \A f \in new : \/ \E x \in ms \ cfg.modules : f = <<ModuleGo(x), moduleMainTemplate(x, mod)>>
                        \/ \E h \in hs, x \in ms : f[1] = HandlerFile(h, x)
                        \/ f = <<RootSchema, {}>> /\ RootSchema \notin DOMAIN files
                        \/ f = <<Env, envTemplate(cfg')>> /\ log = <<>>
                        \/ OtherPath(f[1])
      /\ \A x \in ms \ cfg.modules : <<ModuleGo(x), moduleMainTemplate(x, mod)>> \in new
      /\ \A h \in hs, x \in ms : \E f \in new : f[1] = HandlerFile(h, x)
      /\ log = <<>> => <<Env, envTemplate(cfg')>> \in new
      /\ "graphql" \in hs /\ RootSchema \notin DOMAIN files => <<RootSchema, {}>> \in new
  BY DEF Extension
<1>3. /\ log # <<>> => Env \in DOMAIN files
      /\ log = <<>> => DOMAIN files = {}
      /\ \A m \in Module : ModuleGo(m) \in DOMAIN files <=> m \in cfg.modules
      /\ \A m \in Module, h \in Handler : HandlerFile(h, m) \in DOMAIN files <=> Asked(h, m)
      /\ cfg.modules \subseteq Module
  BY DEF GenInv, FilesInv, LogInv
<1>p. /\ \A x, y : /\ ModuleGo(x) = ModuleGo(y) => x = y
                   /\ ModuleGo(x) # Env /\ ModuleGo(x) # RootSchema
      /\ Env # RootSchema
      /\ \A h \in Handler : \A x, y : /\ HandlerFile(h, x) # Env /\ HandlerFile(h, x) # RootSchema
                                      /\ HandlerFile(h, x) # ModuleGo(y)
      /\ \A h, g \in Handler : \A x, y : HandlerFile(h, x) = HandlerFile(g, y) => h = g /\ x = y
  <2>1. Env # RootSchema
    BY PathsDiffer
  <2>2. \A x, y : /\ ModuleGo(x) = ModuleGo(y) => x = y
                 /\ ModuleGo(x) # Env /\ ModuleGo(x) # RootSchema
    BY PathsDiffer
  <2>3. \A h \in Handler : \A x, y : /\ HandlerFile(h, x) # Env /\ HandlerFile(h, x) # RootSchema
                                     /\ HandlerFile(h, x) # ModuleGo(y)
    BY PathsDiffer
  <2>4. \A h, g \in Handler : \A x, y : HandlerFile(h, x) = HandlerFile(g, y) => h = g /\ x = y
    BY PathsDiffer
  <2> QED BY <2>1, <2>2, <2>3, <2>4
<1>q. ASSUME NEW f \in new, ~OtherPath(f[1])
      PROVE  \/ \E x \in ms \ cfg.modules : f = <<ModuleGo(x), moduleMainTemplate(x, mod)>>
             \/ \E h \in hs, x \in ms : f[1] = HandlerFile(h, x)
             \/ f = <<RootSchema, {}>> /\ RootSchema \notin DOMAIN files
             \/ f = <<Env, envTemplate(cfg')>> /\ log = <<>>
  BY <1>2, <1>q
<1>4. ASSUME NEW f \in new, NEW x, f[1] = ModuleGo(x)
      PROVE  x \in ms \ cfg.modules /\ f = <<ModuleGo(x), moduleMainTemplate(x, mod)>>
  <2>1. ~OtherPath(f[1])
    BY <1>4 DEF OtherPath
  <2>2. PICK y \in ms \ cfg.modules : f = <<ModuleGo(y), moduleMainTemplate(y, mod)>>
    BY <1>2, <1>4, <1>p, <1>q, <2>1
  <2>3. x = y
    BY <1>4, <1>p, <2>2
  <2> QED BY <2>2, <2>3
<1>5. ASSUME NEW f \in new, f[1] = Env PROVE f = <<Env, envTemplate(cfg')>> /\ log = <<>>
  <2>1. ~OtherPath(f[1])
    BY <1>5 DEF OtherPath
  <2> QED BY <1>2, <1>5, <1>p, <1>q, <2>1
<1>6. ASSUME NEW f \in new, f[1] = RootSchema PROVE f = <<RootSchema, {}>> /\ RootSchema \notin DOMAIN files
  <2>1. ~OtherPath(f[1])
    BY <1>6 DEF OtherPath
  <2> QED BY <1>2, <1>6, <1>p, <1>q, <2>1
<1>7. ASSUME NEW f \in new, NEW h \in Handler, NEW x, f[1] = HandlerFile(h, x) PROVE h \in hs /\ x \in ms
  <2>1. ~OtherPath(f[1])
    BY <1>7 DEF OtherPath
  <2>2. PICK g \in hs, y \in ms : f[1] = HandlerFile(g, y)
    BY <1>7, <1>p, <1>q, <2>1
  <2>3. HandlerFile(h, x) = HandlerFile(g, y) /\ g \in Handler
    BY <1>2, <1>7, <2>2
  <2>4. g = h /\ y = x
    BY <1>p, <2>3
  <2> QED BY <2>2, <2>4
<1> HIDE DEF W
<1>8. ASSUME NEW x \in ms \ cfg.modules PROVE W[ModuleGo(x)] = SetToBag(moduleMainTemplate(x, mod))
  <2>1. <<ModuleGo(x), moduleMainTemplate(x, mod)>> \in new
    BY <1>2
  <2> QED BY <1>1, <1>4, <2>1
<1>9. ASSUME NEW x \in cfg.modules PROVE W[ModuleGo(x)] = files[ModuleGo(x)]
  BY <1>1, <1>3, <1>4
<1>10. /\ Env \in DOMAIN W
       /\ W[Env] = IF log = <<>> THEN SetToBag(envTemplate(cfg')) ELSE files[Env]
  <2>1. CASE log = <<>>
    <3>1. <<Env, envTemplate(cfg')>> \in new
      BY <1>2, <2>1
    <3> QED BY <1>1, <1>5, <2>1, <3>1
  <2>2. CASE log # <<>>
    BY <1>1, <1>3, <1>5, <2>2
  <2> QED BY <2>1, <2>2
<1>11. RootSchema \in DOMAIN files => W[RootSchema] = files[RootSchema]
  BY <1>1, <1>6
<1>12. RootSchema \in DOMAIN W /\ RootSchema \notin DOMAIN files => W[RootSchema] = SetToBag({})
  <2> SUFFICES ASSUME RootSchema \in DOMAIN W, RootSchema \notin DOMAIN files PROVE W[RootSchema] = SetToBag({})
    OBVIOUS
  <2>1. PICK f \in new : f[1] = RootSchema
    BY <1>1
  <2>2. f[2] = {} /\ \A g \in new : g[1] = f[1] => g[2] = f[2]
    BY <1>6, <2>1
  <2> QED BY <1>1, <2>1, <2>2
<1>13. RootSchema \in DOMAIN files \/ "graphql" \in hs => RootSchema \in DOMAIN W
  BY <1>1, <1>2
<1>14. \A x \in Module : ModuleGo(x) \in DOMAIN W <=> x \in cfg.modules \cup ms
  <2> TAKE x \in Module
  <2>1. ModuleGo(x) \in DOMAIN W => x \in cfg.modules \cup ms
    BY <1>1, <1>3, <1>4
  <2>2. ASSUME x \in ms \ cfg.modules PROVE ModuleGo(x) \in DOMAIN W
    <3>1. <<ModuleGo(x), moduleMainTemplate(x, mod)>> \in new
      BY <1>2, <2>2
    <3> QED BY <1>1, <3>1
  <2>3. x \in cfg.modules => ModuleGo(x) \in DOMAIN W
    BY <1>1, <1>3
  <2> QED BY <2>1, <2>2, <2>3
<1>15. \A x \in Module, h \in Handler :
          HandlerFile(h, x) \in DOMAIN W <=> Asked(h, x) \/ (x \in ms /\ h \in hs)
  BY <1>1, <1>2, <1>3, <1>7
<1>16. \A p \in DOMAIN W : IsABag(W[p])
  BY <1>1
<1> QED BY <1>8, <1>9, <1>10, <1>11, <1>12, <1>13, <1>14, <1>15, <1>16 DEF W

\* The command is in the log, and what was asked is what was asked before or by it.
LEMMA ExtensionLog ==
    ASSUME GenInv, NEW ms, NEW hs, NEW mounted, NEW mod, NEW new, NEW others, NEW created, NEW e,
           Extension(ms, hs, mounted, mod, new, others, created, e)
    PROVE  LogInv' /\ \A h, m : Asked(h, m)' <=> Asked(h, m) \/ (m \in ms /\ h \in hs)
<1>1. /\ LogInv /\ e \in ExtendEntry /\ e.done /\ e.modules = ms /\ e.handlers = hs /\ log' = Append(log, e)
      /\ ms \subseteq Module /\ hs \subseteq Handler
      /\ e.command \in {"init", "module"} => ms \cap cfg.modules = {}
      /\ e.command = "handler" => ms \subseteq cfg.modules
      /\ e.command \in {"init", "module", "handler"}
      /\ cfg'.modules = cfg.modules \cup ms
  BY DEF Extension, GenInv, ExtendEntry
<1>2. e \in Entry
  BY <1>1 DEF Entry
<1>3. \A h, m : Asked(h, m)' <=> Asked(h, m) \/ (m \in ms /\ h \in hs)
  BY <1>1, <1>2, AskedStep DEF LogInv
<1>4. PICK n :
      /\ log' \in Seq(Entry) /\ log' # <<>>
      /\ DOMAIN log' = DOMAIN log \cup {n} /\ n \notin DOMAIN log
      /\ \A i \in DOMAIN log : log'[i] = log[i]
      /\ log'[n] = e
  BY <1>1, <1>2, AppendHolds DEF LogInv
<1>5. cfg'.modules \subseteq Module
  BY <1>1 DEF LogInv
<1>6. /\ cfg' = [handlers |-> cfg'.handlers, plugins |-> cfg'.plugins, modules |-> cfg'.modules,
                 deps |-> cfg'.deps, driver |-> cfg'.driver, gorm |-> cfg'.gorm]
      /\ cfg'.handlers \subseteq Server \cup Worker
  <2>1. hs \ Plugin \subseteq Server \cup Worker
    BY <1>1 DEF Handler
  <2>2. log # <<>> => cfg.handlers \subseteq Server \cup Worker
    BY <1>1 DEF LogInv
  <2> QED BY <2>1, <2>2 DEF Extension
<1>7. \A i \in DOMAIN log' : /\ log'[i].modules \subseteq cfg'.modules
                             /\ log'[i].command \in {"init", "module"} => log'[i].done
  BY <1>1, <1>4 DEF LogInv
<1>8. ASSUME NEW m \in cfg'.modules
      PROVE  \E i : IsBirth(i, m)' /\ \A j : IsBirth(j, m)' => j = i
  <2>1. CASE m \in cfg.modules
    <3>1. e.command \in {"init", "module"} => m \notin e.modules
      BY <1>1, <2>1
    <3>2. \A j : IsBirth(j, m)' <=> IsBirth(j, m)
      BY <1>1, <1>2, <2>1, <3>1, BirthStep
    <3> QED BY <1>1, <2>1, <3>2 DEF LogInv
  <2>2. CASE m \notin cfg.modules
    <3>1. m \in e.modules /\ e.command \in {"init", "module"}
      BY <1>1, <1>8, <2>2
    <3>2. \A j : IsBirth(j, m)' <=> j = Len(log) + 1
      BY <1>1, <1>2, <2>2, <3>1, NewBirth
    <3> QED BY <3>2
  <2> QED BY <2>1, <2>2
<1>9. LogInv'
  BY <1>4, <1>5, <1>6, <1>7, <1>8 DEF LogInv
<1> QED BY <1>3, <1>9

\* The files there are follow what was asked.
LEMMA ExtensionFiles ==
    ASSUME GenInv, NEW ms, NEW hs, NEW mounted, NEW mod, NEW new, NEW others, NEW created, NEW e,
           DistinctNames, Extension(ms, hs, mounted, mod, new, others, created, e)
    PROVE  FilesInv'
<1> DEFINE W == Write(files, new)
           edits == others \cup getNeedFileUpdates(cfg', ms, mounted, created)
<1>1. /\ ms \in SUBSET Module /\ WellFormed(others) /\ Elsewhere(others)
      /\ files' = readFileAndApply(W, edits) /\ cfg'.modules = cfg.modules \cup ms
      /\ log' = Append(log, e) /\ e \in Entry
  BY DEF Extension, Entry
<1>2. WellFormed(edits)
  BY <1>1, EditsHold DEF EditsOf
<1>3. /\ \A p \in DOMAIN W : IsABag(W[p])
      /\ Env \in DOMAIN W
      /\ \A x \in Module : ModuleGo(x) \in DOMAIN W <=> x \in cfg.modules \cup ms
      /\ \A x \in Module, h \in Handler :
            HandlerFile(h, x) \in DOMAIN W <=> Asked(h, x) \/ (x \in ms /\ h \in hs)
  BY ExtensionWrites
<1> HIDE DEF W, edits
<1>4. DOMAIN files' = DOMAIN W /\ \A p \in DOMAIN files' : IsABag(files'[p])
  BY <1>1, <1>2, <1>3, ApplyHolds
<1>5. log' # <<>>
  BY <1>1, AppendHolds DEF GenInv, LogInv
<1>6. \A h, m : Asked(h, m)' <=> Asked(h, m) \/ (m \in ms /\ h \in hs)
  BY ExtensionLog
<1>7. \A m \in Module, h \in Handler : HandlerFile(h, m) \in DOMAIN files' <=> Asked(h, m)'
  BY <1>3, <1>4, <1>6
<1>8. \A m \in Module : ModuleGo(m) \in DOMAIN files' <=> m \in cfg'.modules
  BY <1>1, <1>3, <1>4
<1> QED BY <1>3, <1>4, <1>5, <1>7, <1>8 DEF FilesInv

\* The handlers mounted in each module.go follow what was asked.
LEMMA ExtensionModules ==
    ASSUME GenInv, NEW ms, NEW hs, NEW mounted, NEW mod, NEW new, NEW others, NEW created, NEW e,
           DistinctNames, Extension(ms, hs, mounted, mod, new, others, created, e)
    PROVE  ModuleInv'
<1> DEFINE W == Write(files, new)
           edits == others \cup getNeedFileUpdates(cfg', ms, mounted, created)
<1>0. ms \in SUBSET Module /\ WellFormed(others) /\ Elsewhere(others)
  BY DEF Extension
<1>1. /\ ms \in SUBSET Module /\ WellFormed(others) /\ Elsewhere(others)
      /\ files' = readFileAndApply(W, edits) /\ cfg'.modules = cfg.modules \cup ms
      /\ log' = Append(log, e) /\ e \in ExtendEntry /\ e.done /\ e.modules = ms /\ e.handlers = hs
      /\ hs \in SUBSET Handler /\ mounted \in SUBSET Handler
      /\ e.command \in {"init", "module"} => ms \cap cfg.modules = {} /\ mounted = hs
      /\ e.command = "handler" => ms \subseteq cfg.modules
      /\ hs \subseteq mounted /\ mod.handlers = hs \ Plugin
      /\ \A h \in mounted \ hs : h \in Worker /\ \A m \in ms : Asked(h, m)
  BY DEF Extension
<1>2. /\ WellFormed(edits)
      /\ \A x \in Module, a \in edits : a[2] = ModuleGo(x) => x \in ms /\ Clean[x] = x /\ Mounts(mounted, x, a)
      /\ \A x \in ms : \A a : Clean[x] = x /\ Mounts(mounted, x, a) => a \in edits
  <2> HIDE DEF W
  <2>1. EditsOf(edits, cfg', ms, mounted)
    BY <1>0, EditsHold
  <2> HIDE DEF edits
  <2> QED BY <2>1 DEF EditsOf
<1>3. /\ \A p \in DOMAIN W : IsABag(W[p])
      /\ \A x \in ms \ cfg.modules : W[ModuleGo(x)] = SetToBag(moduleMainTemplate(x, mod))
      /\ \A x \in cfg.modules : W[ModuleGo(x)] = files[ModuleGo(x)]
      /\ \A x \in Module : ModuleGo(x) \in DOMAIN W <=> x \in cfg.modules \cup ms
  BY ExtensionWrites
<1> HIDE DEF W, edits
<1>4. SUFFICES ASSUME NEW m \in cfg'.modules
               PROVE  ModuleLines(files'[ModuleGo(m)], m, Mounted(m)')
  BY DEF ModuleInv
<1>5. m \in Module /\ m \in cfg.modules \cup ms /\ ModuleGo(m) \in DOMAIN W
  BY <1>1, <1>3 DEF GenInv, LogInv
\* The lines before the edits.
<1>6. PICK old \in SUBSET Handler :
          /\ ModuleLines(W[ModuleGo(m)], m, old)
          /\ Mounted(m)' = IF Clean[m] = m /\ m \in ms THEN old \cup mounted ELSE old
  <2>1. CASE m \in cfg.modules
    <3>1. /\ ModuleLines(W[ModuleGo(m)], m, Mounted(m)) /\ Mounted(m) \subseteq Handler
      BY <1>3, <2>1 DEF GenInv, ModuleInv, Mounted, Handler
    <3>2. e.command \in {"init", "module"} => m \notin e.modules
      BY <1>1, <2>1
    <3>3. Mounted(m)' = Mounted(m) \cup (IF Clean[m] = m /\ m \in ms THEN hs ELSE {})
      BY <1>1, <2>1, <3>2, MountedStep DEF GenInv
    <3>4. Clean[m] = m /\ m \in ms => mounted \ hs \subseteq Mounted(m)
      BY <1>1, MountedAsked
    <3>5. Mounted(m)' = IF Clean[m] = m /\ m \in ms THEN Mounted(m) \cup mounted ELSE Mounted(m)
      BY <1>1, <3>3, <3>4
    <3> QED BY <3>1, <3>5
  <2>2. CASE m \notin cfg.modules
    <3>1. m \in ms /\ e.command \in {"init", "module"} /\ mounted = hs
      BY <1>1, <1>5, <2>2 DEF ExtendEntry
    <3>2. ModuleLines(W[ModuleGo(m)], m, hs \ Plugin)
      <4>1. ModuleLines(SetToBag(moduleMainTemplate(m, mod)), m, hs \ Plugin)
        BY <1>1, ModuleLinesNew
      <4> QED BY <1>3, <2>2, <3>1, <4>1
    <3>3. Mounted(m)' = IF Clean[m] = m THEN hs ELSE hs \ Plugin
      BY <1>1, <2>2, <3>1, MountedNew DEF GenInv
    <3>4. hs = (hs \ Plugin) \cup mounted
      BY <3>1
    <3> QED BY <1>1, <3>1, <3>2, <3>3, <3>4
  <2> QED BY <2>1, <2>2
<1>7. CASE Clean[m] = m /\ m \in ms
  <2>1. /\ \A a \in edits : a[2] = ModuleGo(m) => Mounts(mounted, m, a)
        /\ \A a : Mounts(mounted, m, a) => a \in edits
    BY <1>2, <1>5, <1>7
  <2>2. ModuleLines(readFileAndApply(W, edits)[ModuleGo(m)], m, old \cup mounted)
    BY <1>1, <1>2, <1>3, <1>5, <1>6, <2>1, ModuleLinesEdited
  <2> QED BY <1>1, <1>6, <1>7, <2>2
<1>8. CASE ~(Clean[m] = m /\ m \in ms)
  <2>1. \A a \in edits : a[2] # ModuleGo(m)
    BY <1>2, <1>5, <1>8
  <2>2. DOMAIN readFileAndApply(W, edits)[ModuleGo(m)] = DOMAIN W[ModuleGo(m)]
    BY <1>2, <1>3, <1>5, <2>1, Untouched
  <2>3. ModuleLines(files'[ModuleGo(m)], m, old)
    BY <1>1, <1>6, <2>2 DEF ModuleLines
  <2> QED BY <1>6, <1>8, <2>3
<1> QED BY <1>7, <1>8

\* The lines of .env follow the configuration.
LEMMA ExtensionEnv ==
    ASSUME GenInv, NEW ms, NEW hs, NEW mounted, NEW mod, NEW new, NEW others, NEW created, NEW e,
           DistinctNames, Extension(ms, hs, mounted, mod, new, others, created, e)
    PROVE  EnvInv'
<1> DEFINE W == Write(files, new)
           edits == others \cup getNeedFileUpdates(cfg', ms, mounted, created)
           old == IF log = <<>> THEN cfg'.handlers ELSE cfg.handlers
<1>0. ms \in SUBSET Module /\ WellFormed(others) /\ Elsewhere(others)
  BY DEF Extension
<1>1. /\ ms \in SUBSET Module /\ hs \in SUBSET Handler /\ WellFormed(others) /\ Elsewhere(others)
      /\ files' = readFileAndApply(W, edits)
      /\ cfg'.handlers = (IF log = <<>> THEN {} ELSE cfg.handlers) \cup (hs \ Plugin)
      /\ log' = Append(log, e) /\ e \in Entry /\ e.handlers = hs
  BY DEF Extension, Entry
<1>2. /\ WellFormed(edits)
      /\ \A a \in edits : a[2] = Env <=> \E h \in cfg'.handlers : a = <<"on", Env, EnvUse(h)>>
      /\ \A h \in cfg'.handlers : <<"on", Env, EnvUse(h)>> \in edits
  <2> HIDE DEF W
  <2>1. EditsOf(edits, cfg', ms, mounted)
    BY <1>0, EditsHold
  <2> HIDE DEF edits
  <2> QED BY <2>1 DEF EditsOf
<1>3. /\ \A p \in DOMAIN W : IsABag(W[p])
      /\ Env \in DOMAIN W
      /\ W[Env] = IF log = <<>> THEN SetToBag(envTemplate(cfg')) ELSE files[Env]
  BY ExtensionWrites
<1> HIDE DEF W, edits
<1>4. EnvLines(W[Env], old, Settings')
  <2>1. CASE log = <<>>
    <3>1. log' = <<e>>
      BY <1>1, <2>1
    <3>2. log'[1] = e
      BY <3>1
    <3>3. \A h \in Settings' : h = "rabbitmq" => h \in cfg'.handlers
      BY <1>1, <3>2 DEF Settings, Worker, Plugin
    <3>4. Settings' \subseteq Worker
      BY DEF Settings
    <3> QED BY <1>3, <2>1, <3>3, <3>4, EnvLinesNew
  <2>2. CASE log # <<>>
    <3>1. log'[1] = log[1]
      BY <1>1, <2>2 DEF GenInv, LogInv
    <3>2. Settings' = Settings
      BY <3>1 DEF Settings
    <3>3. EnvLines(files[Env], cfg.handlers, Settings)
      BY <2>2 DEF GenInv, EnvInv
    <3> QED BY <1>3, <2>2, <3>2, <3>3
  <2> QED BY <2>1, <2>2
<1>5. old \subseteq cfg'.handlers
  BY <1>1
<1> HIDE DEF old
<1>6. EnvLines(files'[Env], cfg'.handlers, Settings')
  BY <1>1, <1>2, <1>3, <1>4, <1>5, EnvLinesEdited
<1>7. ASSUME NEW m \in Module, NEW h \in Handler \ Plugin, Asked(h, m)' PROVE h \in cfg'.handlers
  <2>1. Asked(h, m) \/ h \in hs
    BY <1>7, ExtensionLog
  <2>2. CASE Asked(h, m)
    <3>1. log # <<>>
      BY <2>2 DEF Asked
    <3>2. h \in cfg.handlers
      BY <2>2 DEF GenInv, EnvInv
    <3> QED BY <1>1, <3>1, <3>2
  <2>3. CASE h \in hs
    BY <1>1, <2>3
  <2> QED BY <2>1, <2>2, <2>3
<1> QED BY <1>6, <1>7 DEF EnvInv

\* A GraphQL module gets its field in the root schema, and gets it once.
LEMMA ExtensionSchema ==
    ASSUME GenInv, NEW ms, NEW hs, NEW mounted, NEW mod, NEW new, NEW others, NEW created, NEW e,
           DistinctNames, Extension(ms, hs, mounted, mod, new, others, created, e)
    PROVE  SchemaInv'
<1> DEFINE W == Write(files, new)
           edits == others \cup getNeedFileUpdates(cfg', ms, mounted, created)
           r == readFileAndApply(W, edits)
<1>0. ms \in SUBSET Module /\ WellFormed(others) /\ Elsewhere(others)
  BY DEF Extension
<1>1. /\ ms \in SUBSET Module /\ WellFormed(others) /\ Elsewhere(others) /\ files' = r
      /\ \A h \in mounted \ hs : h \in Worker
      /\ \A h \in hs, m \in ms : ~Asked(h, m)
      /\ hs \subseteq mounted
  BY DEF Extension
<1>2. "graphql" \in mounted <=> "graphql" \in hs
  BY <1>1 DEF Worker
<1>3. /\ WellFormed(edits)
      /\ \A a \in edits : a[2] = RootSchema =>
            "graphql" \in hs /\ \E m \in ms : a = <<"add", RootSchema, GraphQLField(m)>>
      /\ "graphql" \in hs => \A m \in ms : <<"add", RootSchema, GraphQLField(m)>> \in edits
  <2> HIDE DEF W
  <2>1. EditsOf(edits, cfg', ms, mounted)
    BY <1>0, EditsHold
  <2> HIDE DEF edits
  <2> QED BY <1>2, <2>1 DEF EditsOf
<1>4. /\ \A p \in DOMAIN W : IsABag(W[p])
      /\ RootSchema \in DOMAIN files => W[RootSchema] = files[RootSchema]
      /\ RootSchema \in DOMAIN W /\ RootSchema \notin DOMAIN files => W[RootSchema] = SetToBag({})
      /\ RootSchema \in DOMAIN files \/ "graphql" \in hs => RootSchema \in DOMAIN W
  BY ExtensionWrites
<1>5. ASSUME NEW h, NEW g, GraphQLField(h) = GraphQLField(g) PROVE h = g
  <2>1. <<"field", h>> \in GraphQLField(g)
    BY <1>5 DEF GraphQLField
  <2>2. <<"field", h>> = <<"field", g>>
    BY <2>1 DEF GraphQLField
  <2> QED BY <2>2
<1>6. /\ \A facts : <<"on", RootSchema, facts>> \notin edits
      /\ \A m : <<"add", RootSchema, GraphQLField(m)>> \in edits <=> "graphql" \in hs /\ m \in ms
  <2>1. \A facts : <<"on", RootSchema, facts>> \notin edits
    BY <1>3
  <2>2. ASSUME NEW m, <<"add", RootSchema, GraphQLField(m)>> \in edits PROVE "graphql" \in hs /\ m \in ms
    <3>1. PICK g \in ms : <<"add", RootSchema, GraphQLField(m)>> = <<"add", RootSchema, GraphQLField(g)>>
      BY <1>3, <2>2
    <3>2. m = g
      BY <1>5, <3>1
    <3> QED BY <1>3, <2>2, <3>2
  <2> QED BY <1>3, <2>1, <2>2
<1> HIDE DEF W, edits
<1>7. DOMAIN r = DOMAIN W
  BY <1>3, <1>4, ApplyHolds
<1>8. ASSUME RootSchema \in DOMAIN W
      PROVE  /\ \A l \in DOMAIN W[RootSchema] : l \in DOMAIN r[RootSchema]
             /\ \A l \in DOMAIN r[RootSchema] :
                   l \in DOMAIN W[RootSchema] \/ <<"add", RootSchema, l.facts>> \in edits
             /\ \A facts : <<"add", RootSchema, facts>> \in edits => On(facts) \in DOMAIN r[RootSchema]
             /\ \A l \in DOMAIN W[RootSchema] :
                   <<"add", RootSchema, l.facts>> \notin edits => r[RootSchema][l] = W[RootSchema][l]
             /\ \A facts : <<"add", RootSchema, facts>> \in edits /\ On(facts) \notin DOMAIN W[RootSchema]
                   => r[RootSchema][On(facts)] = 1
  <2>1. Edited(W[RootSchema], r[RootSchema], RootSchema, edits)
    BY <1>3, <1>4, <1>8, ApplyHolds
  <2> HIDE DEF r
  <2>2. \A l \in DOMAIN W[RootSchema] : l \in DOMAIN r[RootSchema]
    BY <1>6, <2>1 DEF Edited
  <2>3. \A l \in DOMAIN r[RootSchema] :
            l \in DOMAIN W[RootSchema] \/ <<"add", RootSchema, l.facts>> \in edits
    BY <1>6, <2>1 DEF Edited
  <2>4. \A facts : <<"add", RootSchema, facts>> \in edits => On(facts) \in DOMAIN r[RootSchema]
    BY <2>1 DEF Edited
  <2>5. \A l \in DOMAIN W[RootSchema] :
            <<"add", RootSchema, l.facts>> \notin edits => r[RootSchema][l] = W[RootSchema][l]
    BY <1>6, <2>1 DEF Edited
  <2>6. \A facts : <<"add", RootSchema, facts>> \in edits /\ On(facts) \notin DOMAIN W[RootSchema]
            => r[RootSchema][On(facts)] = 1
    BY <1>6, <2>1 DEF Edited
  <2> QED BY <2>2, <2>3, <2>4, <2>5, <2>6
<1>9. \A facts : On(facts).facts = facts
  BY DEF On, If
<1>10. DOMAIN SetToBag({}) = {}
  BY DEF SetToBag
<1> HIDE DEF r
<1>11. SUFFICES ASSUME NEW m \in Module
                PROVE  IF Asked("graphql", m)'
                         THEN /\ RootSchema \in DOMAIN r /\ On(GraphQLField(m)) \in DOMAIN r[RootSchema]
                              /\ r[RootSchema][On(GraphQLField(m))] = 1
                         ELSE RootSchema \in DOMAIN r => On(GraphQLField(m)) \notin DOMAIN r[RootSchema]
  BY <1>1 DEF SchemaInv
<1>12. Asked("graphql", m)' <=> Asked("graphql", m) \/ (m \in ms /\ "graphql" \in hs)
  BY ExtensionLog
<1>13. /\ Asked("graphql", m) =>
             /\ RootSchema \in DOMAIN files /\ On(GraphQLField(m)) \in DOMAIN files[RootSchema]
             /\ files[RootSchema][On(GraphQLField(m))] = 1
       /\ ~Asked("graphql", m) /\ RootSchema \in DOMAIN files =>
             On(GraphQLField(m)) \notin DOMAIN files[RootSchema]
  BY DEF GenInv, SchemaInv
<1>14. CASE Asked("graphql", m)
  <2>1. ~("graphql" \in hs /\ m \in ms)
    BY <1>1, <1>14
  <2>2. RootSchema \in DOMAIN W /\ W[RootSchema] = files[RootSchema]
    BY <1>4, <1>13, <1>14
  <2>3. <<"add", RootSchema, On(GraphQLField(m)).facts>> \notin edits
    BY <1>6, <1>9, <2>1
  <2> QED BY <1>7, <1>8, <1>12, <1>13, <1>14, <2>2, <2>3
<1>15. CASE ~Asked("graphql", m)
  <2>1. RootSchema \in DOMAIN W => On(GraphQLField(m)) \notin DOMAIN W[RootSchema]
    BY <1>4, <1>10, <1>13, <1>15
  <2>2. CASE "graphql" \in hs /\ m \in ms
    <3>1. RootSchema \in DOMAIN W
      BY <1>4, <2>2
    <3>2. <<"add", RootSchema, GraphQLField(m)>> \in edits
      BY <1>6, <2>2
    <3> QED BY <1>7, <1>8, <1>12, <2>1, <2>2, <3>1, <3>2
  <2>3. CASE ~("graphql" \in hs /\ m \in ms)
    <3>1. <<"add", RootSchema, On(GraphQLField(m)).facts>> \notin edits
      BY <1>6, <1>9, <2>3
    <3>2. RootSchema \in DOMAIN r => On(GraphQLField(m)) \notin DOMAIN r[RootSchema]
      BY <1>7, <1>8, <2>1, <3>1
    <3> QED BY <1>12, <1>15, <2>3, <3>2
  <2> QED BY <2>2, <2>3
<1> QED BY <1>14, <1>15

\* A command that extends the project preserves the invariant.
LEMMA ExtensionStep ==
    ASSUME GenInv, NEW ms, NEW hs, NEW mounted, NEW mod, NEW new, NEW others, NEW created, NEW e,
           DistinctNames, Extension(ms, hs, mounted, mod, new, others, created, e)
    PROVE  GenInv'
  BY ExtensionLog, ExtensionFiles, ExtensionModules, ExtensionEnv, ExtensionSchema DEF GenInv

\* The entries the commands write in the log.
LEMMA CommandHolds ==
    ASSUME NEW name \in {"init", "module", "handler"}, NEW ms \in SUBSET Module, NEW hs \in SUBSET Handler
    PROVE  /\ Command(name, ms, hs) \in ExtendEntry /\ Command(name, ms, hs).done
           /\ Command(name, ms, hs).command = name /\ Command(name, ms, hs).modules = ms
           /\ Command(name, ms, hs).handlers = hs
  BY DEF Command, ExtendEntry

\* A command asks for handlers.
LEMMA MenuHolds == \A hs \in Menu : hs \in SUBSET Handler
  BY GeneratorAssumption DEF Handler

\* InitService writes the service and its modules.
LEMMA InitExtends ==
    ASSUME GenInv, DistinctNames, NEW ms \in SUBSET Module, NEW hs \in Menu, NEW s, InitService(ms, hs, s)
    PROVE  \E mod, new, others, created, e : Extension(ms, hs, hs, mod, new, others, created, e)
<1> DEFINE c == [handlers |-> hs \ Plugin, plugins |-> hs \cap Plugin, modules |-> ms,
                 deps |-> s.deps, driver |-> s.driver, gorm |-> s.gorm]
           mods == UNION {ModuleFiles(m, hs, c) : m \in ms}
           new == ServiceFiles(c) \cup mods
           others == updateSharedUsecase(ms) \cup updateSharedRepository(ms)
           mod == [c EXCEPT !.handlers = hs \cap (Server \cup Worker)]
           e == Command("init", ms, hs)
<1>1. /\ log = <<>> /\ cfg' = c /\ log' = <<e>>
      /\ files' = readFileAndApply(Write(<<>>, new), others \cup getNeedFileUpdates(c, ms, hs, c.plugins))
  BY DEF InitService
<1>2. hs \in SUBSET Handler
  BY MenuHolds
<1>3. cfg.modules = {} /\ files = <<>> /\ DOMAIN files = {}
  BY <1>1 DEF GenInv, LogInv, FilesInv
<1>4. /\ e \in ExtendEntry /\ e.done /\ e.modules = ms /\ e.handlers = hs /\ e.command = "init"
  BY <1>2, CommandHolds
<1>5. /\ c.modules = ms /\ c.handlers = hs \ Plugin /\ mod.handlers = hs \ Plugin
      /\ c = [handlers |-> c.handlers, plugins |-> c.plugins, modules |-> c.modules,
              deps |-> c.deps, driver |-> c.driver, gorm |-> c.gorm]
  <2>1. hs \cap (Server \cup Worker) = hs \ Plugin
    BY <1>2 DEF Handler, Server, Worker, Plugin
  <2> QED BY <2>1
<1>6. log' = Append(log, e)
  BY <1>1
<1>7. WellFormed(others) /\ Elsewhere(others)
  BY OtherEdits
<1>8. \A h, m : ~Asked(h, m)
  BY <1>1 DEF Asked
<1>9. /\ \A f \in ServiceFiles(c) : \/ f = <<Env, envTemplate(c)>> \/ f = <<RootSchema, {}>>
                                    \/ OtherPath(f[1])
      /\ <<Env, envTemplate(c)>> \in ServiceFiles(c)
      /\ "graphql" \in c.handlers => <<RootSchema, {}>> \in ServiceFiles(c)
  <2> HIDE DEF c
  <2> QED BY ServiceFilesHold
<1>10. ASSUME NEW m \in ms
       PROVE  /\ \A f \in ModuleFiles(m, hs, c) : \/ f = <<ModuleGo(m), moduleMainTemplate(m, mod)>>
                        \/ OtherPath(f[1]) \/ \E h \in hs : f[1] = HandlerFile(h, m)
              /\ <<ModuleGo(m), moduleMainTemplate(m, mod)>> \in ModuleFiles(m, hs, c)
              /\ \A h \in hs : \E f \in ModuleFiles(m, hs, c) : f[1] = HandlerFile(h, m)
  <2> HIDE DEF c
  <2> QED BY <1>2, ModuleFilesHold
<1> HIDE DEF c, mod, e, others
<1>11. /\ \A f \in mods : \/ \E x \in ms : f = <<ModuleGo(x), moduleMainTemplate(x, mod)>>
                          \/ \E h \in hs, x \in ms : f[1] = HandlerFile(h, x)
                          \/ OtherPath(f[1])
       /\ \A x \in ms : <<ModuleGo(x), moduleMainTemplate(x, mod)>> \in mods
       /\ \A h \in hs, x \in ms : \E f \in mods : f[1] = HandlerFile(h, x)
  <2>1. \A f : f \in mods <=> \E m \in ms : f \in ModuleFiles(m, hs, c)
    OBVIOUS
  <2> HIDE DEF mods
  <2>2. ASSUME NEW f \in mods
        PROVE  \/ \E x \in ms : f = <<ModuleGo(x), moduleMainTemplate(x, mod)>>
               \/ \E h \in hs, x \in ms : f[1] = HandlerFile(h, x)
               \/ OtherPath(f[1])
    <3>1. PICK m \in ms : f \in ModuleFiles(m, hs, c)
      BY <2>1
    <3> QED BY <1>10, <3>1
  <2>3. \A x \in ms : <<ModuleGo(x), moduleMainTemplate(x, mod)>> \in mods
    BY <1>10, <2>1
  <2>4. \A h \in hs, x \in ms : \E f \in mods : f[1] = HandlerFile(h, x)
    BY <1>10, <2>1
  <2> QED BY <2>2, <2>3, <2>4
<1> HIDE DEF mods
<1>12. \A f \in new : \/ \E x \in ms \ cfg.modules : f = <<ModuleGo(x), moduleMainTemplate(x, mod)>>
                      \/ \E h \in hs, x \in ms : f[1] = HandlerFile(h, x)
                      \/ f = <<RootSchema, {}>> /\ RootSchema \notin DOMAIN files
                      \/ f = <<Env, envTemplate(cfg')>> /\ log = <<>>
                      \/ OtherPath(f[1])
  BY <1>1, <1>3, <1>9, <1>11
<1>13. /\ \A x \in ms \ cfg.modules : <<ModuleGo(x), moduleMainTemplate(x, mod)>> \in new
       /\ \A h \in hs, x \in ms : \E f \in new : f[1] = HandlerFile(h, x)
       /\ log = <<>> => <<Env, envTemplate(cfg')>> \in new
       /\ "graphql" \in hs /\ RootSchema \notin DOMAIN files => <<RootSchema, {}>> \in new
  BY <1>1, <1>5, <1>9, <1>11 DEF Plugin
<1> HIDE DEF new
<1>14. files' = readFileAndApply(Write(files, new), others \cup getNeedFileUpdates(cfg', ms, hs, c.plugins))
  BY <1>1, <1>3
<1>15. Extension(ms, hs, hs, mod, new, others, c.plugins, e)
  BY <1>1, <1>2, <1>3, <1>4, <1>5, <1>6, <1>7, <1>8, <1>12, <1>13, <1>14 DEF Extension
<1> QED BY <1>15

\* The configuration after a command asked for more handlers.
LEMMA AskHolds ==
    ASSUME LogInv, log # <<>>, NEW hs, NEW ms
    PROVE  /\ Ask(hs, ms).modules = cfg.modules \cup ms
           /\ Ask(hs, ms).handlers = cfg.handlers \cup (hs \ Plugin)
           /\ Ask(hs, ms) = [handlers |-> Ask(hs, ms).handlers, plugins |-> Ask(hs, ms).plugins,
                             modules |-> Ask(hs, ms).modules, deps |-> Ask(hs, ms).deps,
                             driver |-> Ask(hs, ms).driver, gorm |-> Ask(hs, ms).gorm]
<1>1. cfg = [handlers |-> cfg.handlers, plugins |-> cfg.plugins, modules |-> cfg.modules,
             deps |-> cfg.deps, driver |-> cfg.driver, gorm |-> cfg.gorm]
  BY DEF LogInv
<1>2. Ask(hs, ms) = [handlers |-> cfg.handlers \cup (hs \ Plugin), plugins |-> cfg.plugins \cup (hs \cap Plugin),
                     modules |-> cfg.modules \cup ms, deps |-> cfg.deps, driver |-> cfg.driver,
                     gorm |-> cfg.gorm]
  <2> DEFINE hx == cfg.handlers \cup (hs \ Plugin)
             px == cfg.plugins \cup (hs \cap Plugin)
             mx == cfg.modules \cup ms
             r1 == [cfg EXCEPT !.handlers = hx]
             r2 == [r1 EXCEPT !.plugins = px]
             r3 == [r2 EXCEPT !.modules = mx]
  <2>1. r1 = [handlers |-> hx, plugins |-> cfg.plugins, modules |-> cfg.modules,
              deps |-> cfg.deps, driver |-> cfg.driver, gorm |-> cfg.gorm]
    <3> HIDE DEF hx
    <3> QED BY <1>1
  <2>2. r2 = [handlers |-> hx, plugins |-> px, modules |-> cfg.modules,
              deps |-> cfg.deps, driver |-> cfg.driver, gorm |-> cfg.gorm]
    <3> HIDE DEF hx, px, r1
    <3> QED BY <2>1
  <2>3. r3 = [handlers |-> hx, plugins |-> px, modules |-> mx,
              deps |-> cfg.deps, driver |-> cfg.driver, gorm |-> cfg.gorm]
    <3> HIDE DEF hx, px, mx, r1, r2
    <3> QED BY <2>2
  <2>4. Ask(hs, ms) = r3
    <3>1. Ask(hs, ms) = [cfg EXCEPT !.handlers = hx, !.plugins = px, !.modules = mx]
      BY DEF Ask
    <3> QED BY <3>1
  <2> QED BY <2>3, <2>4
<1> QED BY <1>2

\* A module that is not of the project was asked for nothing.
LEMMA NothingAsked ==
    ASSUME LogInv, NEW m, m \notin cfg.modules, NEW h
    PROVE  ~Asked(h, m)
  BY DEF LogInv, Asked

\* AddModule writes one module and imports it in service.go.
LEMMA ModuleExtends ==
    ASSUME GenInv, DistinctNames, NEW m \in Module, NEW hs \in Menu, AddModule(m, hs)
    PROVE  \E mod, new, others, created, e : Extension({m}, hs, hs, mod, new, others, created, e)
<1> DEFINE c == Ask(hs, {m})
           mods == ModuleFiles(m, hs, c)
           root == When("graphql" \in c.handlers /\ RootSchema \notin DOMAIN files, {<<RootSchema, {}>>})
           new == mods \cup root
           edits == updateSharedUsecase({m}) \cup updateSharedRepository({m})
           init == {<<"add", ServiceGo, ModuleImport(Clean[m])>>, <<"add", ServiceGo, ModuleInit(Clean[m])>>}
           others == edits \cup init
           created == c.plugins \ cfg.plugins
           gen == getNeedFileUpdates(c, {m}, hs, created)
           mod == [c EXCEPT !.handlers = hs \cap (Server \cup Worker)]
           e == Command("module", {m}, hs)
<1>1. /\ log # <<>> /\ m \notin cfg.modules /\ cfg' = c /\ log' = Append(log, e)
      /\ files' = readFileAndApply(Write(files, new), edits \cup gen \cup init)
  BY DEF AddModule
<1>2. hs \in SUBSET Handler
  BY MenuHolds
<1>3. /\ e \in ExtendEntry /\ e.done /\ e.modules = {m} /\ e.handlers = hs /\ e.command = "module"
  BY <1>2, CommandHolds
<1>4. /\ c.modules = cfg.modules \cup {m} /\ c.handlers = cfg.handlers \cup (hs \ Plugin)
      /\ c = [handlers |-> c.handlers, plugins |-> c.plugins, modules |-> c.modules,
              deps |-> c.deps, driver |-> c.driver, gorm |-> c.gorm]
  BY <1>1, AskHolds DEF GenInv
<1>5. mod.handlers = hs \ Plugin
  <2>1. hs \cap (Server \cup Worker) = hs \ Plugin
    BY <1>2 DEF Handler, Server, Worker, Plugin
  <2> HIDE DEF c
  <2> QED BY <1>4, <2>1
<1>6. WellFormed(others) /\ Elsewhere(others)
  <2>1. WellFormed(edits) /\ Elsewhere(edits) /\ WellFormed(init) /\ Elsewhere(init)
    BY OtherEdits
  <2> HIDE DEF edits, init
  <2> QED BY <2>1 DEF WellFormed, Elsewhere
<1>7. \A h : ~Asked(h, m)
  BY <1>1, NothingAsked DEF GenInv
<1>8. /\ \A f \in mods : \/ f = <<ModuleGo(m), moduleMainTemplate(m, mod)>>
                         \/ OtherPath(f[1]) \/ \E h \in hs : f[1] = HandlerFile(h, m)
      /\ <<ModuleGo(m), moduleMainTemplate(m, mod)>> \in mods
      /\ \A h \in hs : \E f \in mods : f[1] = HandlerFile(h, m)
  <2> HIDE DEF c
  <2> QED BY <1>2, ModuleFilesHold
<1>9. /\ \A f \in root : f = <<RootSchema, {}>> /\ RootSchema \notin DOMAIN files
      /\ "graphql" \in c.handlers /\ RootSchema \notin DOMAIN files => <<RootSchema, {}>> \in root
  BY DEF When
<1>10. files' = readFileAndApply(Write(files, new), others \cup gen)
  <2> HIDE DEF new, gen, edits, init
  <2>1. edits \cup gen \cup init = others \cup gen
    OBVIOUS
  <2> QED BY <1>1, <2>1
<1> HIDE DEF c, mod, e, others, mods, root, created
<1>11. \A f \in new : \/ \E x \in {m} \ cfg.modules : f = <<ModuleGo(x), moduleMainTemplate(x, mod)>>
                      \/ \E h \in hs, x \in {m} : f[1] = HandlerFile(h, x)
                      \/ f = <<RootSchema, {}>> /\ RootSchema \notin DOMAIN files
                      \/ f = <<Env, envTemplate(cfg')>> /\ log = <<>>
                      \/ OtherPath(f[1])
  BY <1>1, <1>8, <1>9
<1>12. /\ \A x \in {m} \ cfg.modules : <<ModuleGo(x), moduleMainTemplate(x, mod)>> \in new
       /\ \A h \in hs, x \in {m} : \E f \in new : f[1] = HandlerFile(h, x)
       /\ log = <<>> => <<Env, envTemplate(cfg')>> \in new
       /\ "graphql" \in hs /\ RootSchema \notin DOMAIN files => <<RootSchema, {}>> \in new
  BY <1>1, <1>4, <1>8, <1>9 DEF Plugin
<1> HIDE DEF new
<1>13. Extension({m}, hs, hs, mod, new, others, created, e)
  BY <1>1, <1>2, <1>3, <1>4, <1>5, <1>6, <1>7, <1>10, <1>11, <1>12 DEF Extension
<1> QED BY <1>13

\* The handlers found in the directories of a module are those it was asked for.
LEMMA HandlersFound ==
    ASSUME FilesInv, NEW m \in Module
    PROVE  /\ getAllModuleHandler(m) \subseteq Handler
           /\ \A h \in Handler : h \in getAllModuleHandler(m) <=> Asked(h, m)
<1>1. \A h \in Handler : HandlerFile(h, m) \in DOMAIN files <=> Asked(h, m)
  BY DEF FilesInv
<1> QED BY <1>1 DEF getAllModuleHandler, Handler

\* AddHandler writes the handlers and mounts them in a module that is there.
LEMMA HandlerExtends ==
    ASSUME GenInv, DistinctNames, NEW m \in Module, NEW hs \in Menu, AddHandler(m, hs),
           ~("grpc" \in hs /\ ProtoFile(m) \in DOMAIN files)
    PROVE  \E mounted, mod, new, others, created, e : Extension({m}, hs, mounted, mod, new, others, created, e)
<1> DEFINE c == Ask(hs, {})
           mod == [c EXCEPT !.handlers = hs \ Plugin]
           mounted == hs \cup (getAllModuleHandler(m) \cap Worker)
           del == UNION {DeliveryFiles(h, m, mod) : h \in hs}
           proto == When("grpc" \in hs, {<<ProtoFile(m), defaultGRPCProto(m)>>})
           schema == When("graphql" \in hs,
                          {<<<<<<"graphql">>, <<m>>>>, defaultGraphqlSchema(m)>>}
                          \cup When(RootSchema \notin DOMAIN files, {<<RootSchema, {}>>}))
           new == del \cup proto \cup schema
           created == c.plugins \ cfg.plugins
           others == {}
           e == Command("handler", {m}, hs)
<1>1. /\ log # <<>> /\ m \in cfg.modules /\ cfg' = c /\ log' = Append(log, e)
      /\ hs \cap getAllModuleHandler(m) = {}
      /\ files' = readFileAndApply(Write(files, new), getNeedFileUpdates(c, {m}, mounted, created))
  BY DEF AddHandler
<1>2. hs \in SUBSET Handler
  BY MenuHolds
<1>3. /\ e \in ExtendEntry /\ e.done /\ e.modules = {m} /\ e.handlers = hs /\ e.command = "handler"
  BY <1>2, CommandHolds
<1>4. /\ c.modules = cfg.modules \cup {} /\ c.handlers = cfg.handlers \cup (hs \ Plugin)
      /\ c = [handlers |-> c.handlers, plugins |-> c.plugins, modules |-> c.modules,
              deps |-> c.deps, driver |-> c.driver, gorm |-> c.gorm]
  BY <1>1, AskHolds DEF GenInv
<1>5. mod.handlers = hs \ Plugin
  <2> HIDE DEF c
  <2> QED BY <1>4
<1>6. WellFormed(others) /\ Elsewhere(others)
  BY DEF WellFormed, Elsewhere
<1>7. /\ getAllModuleHandler(m) \subseteq Handler
      /\ \A h \in Handler : h \in getAllModuleHandler(m) <=> Asked(h, m)
  BY HandlersFound DEF GenInv
<1>8. /\ \A h \in hs : ~Asked(h, m)
      /\ mounted \in SUBSET Handler /\ hs \subseteq mounted
      /\ \A h \in mounted \ hs : h \in Worker /\ Asked(h, m)
  BY <1>1, <1>2, <1>7
<1>9. /\ \A f \in del : OtherPath(f[1]) \/ \E h \in hs : f[1] = HandlerFile(h, m)
      /\ \A h \in hs : \E f \in del : f[1] = HandlerFile(h, m)
  <2> HIDE DEF mod
  <2>1. \A h \in hs : /\ \A f \in DeliveryFiles(h, m, mod) : f[1] = HandlerFile(h, m) \/ OtherPath(f[1])
                      /\ \E f \in DeliveryFiles(h, m, mod) : f[1] = HandlerFile(h, m)
    BY <1>2, DeliveryHolds
  <2> QED BY <2>1
<1>10. \A f \in proto : OtherPath(f[1])
  <2>1. \A f \in proto : f[1] = <<<<"proto", m>>, <<"proto">>>>
    BY DEF ProtoFile, When
  <2>2. OtherPath(<<<<"proto", m>>, <<"proto">>>>)
    BY OtherPaths
  <2> HIDE DEF proto
  <2> QED BY <2>1, <2>2
<1>11. /\ \A f \in schema : OtherPath(f[1]) \/ (f = <<RootSchema, {}>> /\ RootSchema \notin DOMAIN files)
       /\ "graphql" \in hs /\ RootSchema \notin DOMAIN files => <<RootSchema, {}>> \in schema
  <2>1. OtherPath(<<<<"graphql">>, <<m>>>>)
    <3>1. <<m>> # <<"_schema.graphql">>
      BY DEF DistinctNames
    <3> QED BY <3>1, OtherPaths
  <2>2. \A f \in schema : \/ f[1] = <<<<"graphql">>, <<m>>>>
                          \/ f = <<RootSchema, {}>> /\ RootSchema \notin DOMAIN files
    BY DEF When
  <2>3. "graphql" \in hs /\ RootSchema \notin DOMAIN files => <<RootSchema, {}>> \in schema
    BY DEF When
  <2> HIDE DEF schema
  <2> QED BY <2>1, <2>2, <2>3
<1>12. files' = readFileAndApply(Write(files, new), others \cup getNeedFileUpdates(c, {m}, mounted, created))
  <2> DEFINE gen == getNeedFileUpdates(c, {m}, mounted, created)
  <2>1. files' = readFileAndApply(Write(files, new), gen)
    BY <1>1
  <2> HIDE DEF gen, new
  <2>2. others \cup gen = gen
    OBVIOUS
  <2> QED BY <2>1, <2>2 DEF gen
<1> HIDE DEF c, mod, e, others, del, proto, schema, created, mounted
<1>13. \A f \in new : \/ \E x \in {m} \ cfg.modules : f = <<ModuleGo(x), moduleMainTemplate(x, mod)>>
                      \/ \E h \in hs, x \in {m} : f[1] = HandlerFile(h, x)
                      \/ f = <<RootSchema, {}>> /\ RootSchema \notin DOMAIN files
                      \/ f = <<Env, envTemplate(cfg')>> /\ log = <<>>
                      \/ OtherPath(f[1])
  BY <1>9, <1>10, <1>11
<1>14. /\ \A x \in {m} \ cfg.modules : <<ModuleGo(x), moduleMainTemplate(x, mod)>> \in new
       /\ \A h \in hs, x \in {m} : \E f \in new : f[1] = HandlerFile(h, x)
       /\ log = <<>> => <<Env, envTemplate(cfg')>> \in new
       /\ "graphql" \in hs /\ RootSchema \notin DOMAIN files => <<RootSchema, {}>> \in new
  BY <1>1, <1>9, <1>11
<1>15. cfg'.modules = cfg.modules \cup {m}
  BY <1>1, <1>4
<1> HIDE DEF new
<1>16. Extension({m}, hs, mounted, mod, new, others, created, e)
  BY <1>1, <1>2, <1>3, <1>4, <1>5, <1>6, <1>8, <1>12, <1>13, <1>14, <1>15 DEF Extension
<1> QED BY <1>16

(***************************************************************************)
(* The commands that mount nothing: a usecase is added or applied, or the  *)
(* folder of a proto file is found and AddHandler ends.                    *)
(***************************************************************************)
IsServed(p) == p = Env \/ p = RootSchema \/ \E x : p = ModuleGo(x)

\* What is served stays as it is.
SameFiles ==
    /\ \A p \in DOMAIN files' : IsABag(files'[p])
    /\ \A p : ~OtherPath(p) => (p \in DOMAIN files' <=> p \in DOMAIN files)
    /\ \A p \in DOMAIN files : IsServed(p) =>
          DOMAIN files'[p] = DOMAIN files[p] /\ \A l \in DOMAIN files[p] : files'[p][l] = files[p][l]

\* New files and edits of other files change none of what is served.
LEMMA EditsQuiet ==
    ASSUME GenInv, NEW new, NEW edits, \A f \in new : OtherPath(f[1]),
           WellFormed(edits), Elsewhere(edits), files' = readFileAndApply(Write(files, new), edits)
    PROVE  SameFiles
<1> DEFINE W == Write(files, new)
<1>1. \A p \in DOMAIN files : IsABag(files[p])
  BY DEF GenInv, FilesInv
<1>2. /\ DOMAIN W = {f[1] : f \in new} \cup DOMAIN files
      /\ \A p \in DOMAIN W : IsABag(W[p])
      /\ \A p \in DOMAIN files : (\A f \in new : f[1] # p) => W[p] = files[p]
  BY <1>1, WriteHolds
<1>3. files' = readFileAndApply(W, edits)
  OBVIOUS
<1> HIDE DEF W
<1>4. DOMAIN files' = DOMAIN W /\ \A p \in DOMAIN files' : IsABag(files'[p])
  <2> DEFINE r == readFileAndApply(W, edits)
  <2>1. DOMAIN r = DOMAIN W
    BY <1>2, ApplyHolds
  <2>2. \A p \in DOMAIN r : IsABag(r[p])
    BY <1>2, ApplyHolds
  <2> QED BY <1>3, <2>1, <2>2
<1>5. \A p : ~OtherPath(p) => (p \in DOMAIN files' <=> p \in DOMAIN files)
  BY <1>2, <1>4
<1>6. ASSUME NEW p \in DOMAIN files, IsServed(p)
      PROVE  DOMAIN files'[p] = DOMAIN files[p] /\ \A l \in DOMAIN files[p] : files'[p][l] = files[p][l]
  <2>1. ~OtherPath(p)
    BY <1>6 DEF OtherPath, IsServed
  <2>2. W[p] = files[p] /\ p \in DOMAIN W
    BY <1>2, <2>1
  <2>3. \A f \in edits : f[2] # p
    BY <1>6 DEF Elsewhere, IsServed
  <2>4. /\ DOMAIN readFileAndApply(W, edits)[p] = DOMAIN W[p]
        /\ \A l \in DOMAIN W[p] : readFileAndApply(W, edits)[p][l] = W[p][l]
    BY <1>2, <2>2, <2>3, Untouched
  <2> QED BY <1>3, <2>2, <2>4
<1> QED BY <1>4, <1>5, <1>6 DEF SameFiles

\* They preserve the invariant.
LEMMA QuietStep ==
    ASSUME GenInv, log # <<>>, NEW e \in Entry, cfg' = cfg, log' = Append(log, e),
           e.modules \subseteq cfg.modules,
           e.command \in {"usecase", "apply"} \/ (e.command = "handler" /\ ~e.done),
           SameFiles
    PROVE  GenInv'
<1>1. /\ LogInv /\ cfg.modules \subseteq Module
      /\ e.command \notin {"init", "module"}
  BY DEF GenInv, LogInv
<1>2. PICK n :
      /\ log' \in Seq(Entry) /\ log' # <<>>
      /\ DOMAIN log' = DOMAIN log \cup {n} /\ n \notin DOMAIN log
      /\ \A i \in DOMAIN log : log'[i] = log[i]
      /\ log'[n] = e
  BY <1>1, AppendHolds DEF LogInv
<1>3. \A h, m : Asked(h, m)' <=> Asked(h, m)
  BY <1>1, AskedStep DEF LogInv
<1>4. \A m \in cfg.modules : Mounted(m)' = Mounted(m)
  BY <1>1, MountedSame
<1>5. LogInv'
  <2>1. \A i \in DOMAIN log' : /\ log'[i].modules \subseteq cfg'.modules
                               /\ log'[i].command \in {"init", "module"} => log'[i].done
    BY <1>1, <1>2 DEF LogInv
  <2>2. ASSUME NEW m \in cfg'.modules PROVE \E i : IsBirth(i, m)' /\ \A j : IsBirth(j, m)' => j = i
    <3>1. \A j : IsBirth(j, m)' <=> IsBirth(j, m)
      BY <1>1, <2>2, BirthStep
    <3> QED BY <1>1, <2>2, <3>1 DEF LogInv
  <2> QED BY <1>1, <1>2, <2>1, <2>2 DEF LogInv
<1>6. /\ \A x \in Module : ~OtherPath(ModuleGo(x))
      /\ \A x \in Module, h \in Handler : ~OtherPath(HandlerFile(h, x))
  BY DEF OtherPath
<1>7. ~OtherPath(Env) /\ ~OtherPath(RootSchema)
  BY DEF OtherPath
<1>8. FilesInv'
  <2>1. \A m \in Module : ModuleGo(m) \in DOMAIN files' <=> m \in cfg'.modules
    <3>1. \A m \in Module : ModuleGo(m) \in DOMAIN files <=> m \in cfg.modules
      BY DEF GenInv, FilesInv
    <3>2. \A m \in Module : ModuleGo(m) \in DOMAIN files' <=> ModuleGo(m) \in DOMAIN files
      BY <1>6 DEF SameFiles
    <3> QED BY <3>1, <3>2
  <2>2. \A m \in Module, h \in Handler : HandlerFile(h, m) \in DOMAIN files' <=> Asked(h, m)'
    BY <1>3, <1>6 DEF GenInv, FilesInv, SameFiles
  <2>3. Env \in DOMAIN files' /\ \A p \in DOMAIN files' : IsABag(files'[p])
    BY <1>7 DEF GenInv, FilesInv, SameFiles
  <2> QED BY <1>2, <2>1, <2>2, <2>3 DEF FilesInv
<1>9. ModuleInv'
  <2>1. ASSUME NEW m \in cfg.modules PROVE ModuleLines(files'[ModuleGo(m)], m, Mounted(m)')
    <3>1. ModuleGo(m) \in DOMAIN files /\ IsServed(ModuleGo(m))
      BY <1>1 DEF GenInv, FilesInv, IsServed
    <3>2. DOMAIN files'[ModuleGo(m)] = DOMAIN files[ModuleGo(m)]
      BY <3>1 DEF SameFiles
    <3>3. ModuleLines(files[ModuleGo(m)], m, Mounted(m))
      BY DEF GenInv, ModuleInv
    <3> QED BY <1>4, <3>2, <3>3 DEF ModuleLines
  <2> QED BY <2>1 DEF ModuleInv
<1>10. EnvInv'
  <2>1. log'[1] = log[1]
    BY <1>1, <1>2 DEF LogInv
  <2>2. DOMAIN files'[Env] = DOMAIN files[Env]
    BY DEF GenInv, FilesInv, SameFiles, IsServed
  <2>3. EnvLines(files[Env], cfg.handlers, Settings)
    BY DEF GenInv, EnvInv
  <2>4. Settings' = Settings
    BY <2>1 DEF Settings
  <2>5. EnvLines(files'[Env], cfg'.handlers, Settings')
    BY <2>2, <2>3, <2>4 DEF EnvLines
  <2>6. \A m \in Module, h \in Handler \ Plugin : Asked(h, m)' => h \in cfg'.handlers
    BY <1>3 DEF GenInv, EnvInv
  <2> QED BY <2>5, <2>6 DEF EnvInv
<1>11. SchemaInv'
  <2>1. RootSchema \in DOMAIN files' <=> RootSchema \in DOMAIN files
    BY <1>7 DEF SameFiles
  <2>2. RootSchema \in DOMAIN files =>
           /\ DOMAIN files'[RootSchema] = DOMAIN files[RootSchema]
           /\ \A l \in DOMAIN files[RootSchema] : files'[RootSchema][l] = files[RootSchema][l]
    BY DEF SameFiles, IsServed
  <2>3. ASSUME NEW m \in Module
        PROVE  IF Asked("graphql", m)'
                 THEN /\ RootSchema \in DOMAIN files' /\ On(GraphQLField(m)) \in DOMAIN files'[RootSchema]
                      /\ files'[RootSchema][On(GraphQLField(m))] = 1
                 ELSE RootSchema \in DOMAIN files' => On(GraphQLField(m)) \notin DOMAIN files'[RootSchema]
    BY <1>3, <2>1, <2>2 DEF GenInv, SchemaInv
  <2> QED BY <2>3 DEF SchemaInv
<1> QED BY <1>5, <1>8, <1>9, <1>10, <1>11 DEF GenInv

\* A usecase's edits of its handlers are of their files and routes.
LEMMA DeliveryEdits ==
    ASSUME DistinctNames, NEW m \in Module, NEW u, NEW hs \in SUBSET Handler
    PROVE  WellFormed(DeliveryUpdates(m, u, hs)) /\ Elsewhere(DeliveryUpdates(m, u, hs))
<1> DEFINE D(h) ==
               When(~Contains(h, m, u), {<<"add", HandlerFile(h, m), HandlerFunc(h, m, u)>>})
               \cup When(~Present(RouteFile(h, m), Route(h, m, u)),
                         {<<"add", RouteFile(h, m), Route(h, m, u)>>})
               \cup When(h \notin Server /\ ~Present(HandlerFile(h, m), {Import(<<"domain", m>>)}),
                         {<<"add", HandlerFile(h, m), {Import(<<"domain", m>>)}>>})
           Fine(p) == p # Env /\ p # RootSchema /\ \A x : p # ModuleGo(x)
<1>1. DeliveryUpdates(m, u, hs) = UNION {D(h) : h \in hs \ {"mqtt"}}
  BY DEF DeliveryUpdates
<1>2. \A h \in Handler : Fine(HandlerFile(h, m))
  BY PathsDiffer
<1>3. Fine(ProtoFile(m))
  <2>1. OtherPath(<<<<"proto", m>>, <<"proto">>>>)
    BY OtherPaths
  <2> QED BY <2>1 DEF ProtoFile, OtherPath
<1>4. Fine(<<<<"graphql">>, <<m>>>>)
  <2>1. <<m>> # <<"_schema.graphql">>
    BY DEF DistinctNames
  <2>2. OtherPath(<<<<"graphql">>, <<m>>>>)
    BY <2>1, OtherPaths
  <2> QED BY <2>2 DEF OtherPath
<1>5. \A h \in Handler : Fine(RouteFile(h, m))
  <2> HIDE DEF Fine
  <2> QED BY <1>2, <1>3, <1>4 DEF RouteFile
<1>6. ASSUME NEW h \in Handler, NEW e \in D(h)
      PROVE  e = <<e[1], e[2], e[3]>> /\ Fine(e[2])
  <2> HIDE DEF Fine
  <2>1. \/ e = <<"add", HandlerFile(h, m), HandlerFunc(h, m, u)>>
        \/ e = <<"add", RouteFile(h, m), Route(h, m, u)>>
        \/ e = <<"add", HandlerFile(h, m), {Import(<<"domain", m>>)}>>
    BY DEF When
  <2> QED BY <1>2, <1>5, <2>1
<1> HIDE DEF D
<1>7. ASSUME NEW e \in DeliveryUpdates(m, u, hs)
      PROVE  e = <<e[1], e[2], e[3]>> /\ Fine(e[2])
  <2>1. PICK h \in hs \ {"mqtt"} : e \in D(h)
    BY <1>1, <1>7
  <2> QED BY <1>6, <2>1
<1> QED BY <1>7 DEF WellFormed, Elsewhere

\* AddUsecase writes the use case and edits its interface, its domain and handlers.
LEMMA AddUsecaseStep ==
    ASSUME GenInv, DistinctNames, NEW m \in Module, NEW u \in UsecaseName, NEW hs \in Menu,
           AddUsecase(m, u, hs)
    PROVE  GenInv'
<1> DEFINE new == {<<UsecaseFile(m, u), templateNewUsecase(m, u)>>}
           del == DeliveryUpdates(m, u, hs)
           doms == {<<"add", <<<<"domain", m>>, <<"request.go">>>>, {Def("Request", u)}>>,
                    <<"add", <<<<"domain", m>>, <<"response.go">>>>, {Def("Response", u)}>>,
                    <<"add", UsecaseFile(m, <<"usecase.go">>), {Def("interface", u)}>>}
           e == UsecaseCommand("usecase", m, u, hs)
<1>1. /\ log # <<>> /\ m \in cfg.modules /\ cfg' = cfg /\ log' = Append(log, e)
      /\ files' = readFileAndApply(Write(files, new), del \cup doms)
  BY DEF AddUsecase
<1>2. hs \in SUBSET Handler
  BY MenuHolds
<1>3. e \in Entry /\ e.modules = {m} /\ e.command = "usecase"
  BY <1>2 DEF UsecaseCommand, Entry, UsecaseEntry
<1>4. \A n : OtherPath(<<<<"domain", m>>, n>>) /\ OtherPath(UsecaseFile(m, n))
  BY OtherPaths DEF UsecaseFile
<1>5. \A f \in new : OtherPath(f[1])
  <2>1. \A f \in new : f[1] = UsecaseFile(m, u)
    OBVIOUS
  <2> HIDE DEF new
  <2> QED BY <1>4, <2>1
<1>6. WellFormed(doms) /\ Elsewhere(doms)
  <2>1. \A f \in doms : /\ f = <<f[1], f[2], f[3]>>
                        /\ \/ \E n : f[2] = <<<<"domain", m>>, n>>
                           \/ f[2] = UsecaseFile(m, <<"usecase.go">>)
    OBVIOUS
  <2> HIDE DEF doms
  <2>2. \A f \in doms : OtherPath(f[2])
    BY <1>4, <2>1
  <2> QED BY <2>1, <2>2 DEF WellFormed, Elsewhere, OtherPath
<1>7. WellFormed(del) /\ Elsewhere(del)
  BY <1>2, DeliveryEdits
<1> HIDE DEF new, del, doms, e
<1>8. WellFormed(del \cup doms) /\ Elsewhere(del \cup doms)
  BY <1>6, <1>7 DEF WellFormed, Elsewhere
<1>9. SameFiles
  BY <1>1, <1>5, <1>8, EditsQuiet
<1> QED BY <1>1, <1>3, <1>9, QuietStep

\* ApplyUsecase edits the handlers.
LEMMA ApplyUsecaseStep ==
    ASSUME GenInv, DistinctNames, NEW m \in Module, NEW u \in UsecaseName \cup Default(m),
           NEW hs \in Menu, ApplyUsecase(m, u, hs)
    PROVE  GenInv'
<1> DEFINE del == DeliveryUpdates(m, u, hs)
           e == UsecaseCommand("apply", m, u, hs)
<1>1. /\ log # <<>> /\ m \in cfg.modules /\ cfg' = cfg /\ log' = Append(log, e)
      /\ files' = readFileAndApply(files, del)
  BY DEF ApplyUsecase
<1>2. hs \in SUBSET Handler
  BY MenuHolds
<1>3. e \in Entry /\ e.modules = {m} /\ e.command = "apply"
  <2>1. u \in UsecaseName \cup (UNION {Default(x) : x \in Module})
    OBVIOUS
  <2> QED BY <1>2, <2>1 DEF UsecaseCommand, Entry, UsecaseEntry
<1>4. WellFormed(del) /\ Elsewhere(del)
  BY <1>2, DeliveryEdits
<1> HIDE DEF del, e
<1>5. SameFiles
  <2>1. \A p \in DOMAIN files : IsABag(files[p])
    BY DEF GenInv, FilesInv
  <2>2. DOMAIN files' = DOMAIN files
    BY <1>1, <1>4, <2>1, ApplyHolds
  <2>3. \A p \in DOMAIN files' : IsABag(files'[p])
    BY <1>1, <1>4, <2>1, ApplyHolds
  <2>4. ASSUME NEW p \in DOMAIN files, IsServed(p)
        PROVE  DOMAIN files'[p] = DOMAIN files[p] /\ \A l \in DOMAIN files[p] : files'[p][l] = files[p][l]
    <3>1. \A f \in del : f[2] # p
      BY <1>4, <2>4 DEF Elsewhere, IsServed
    <3>2. /\ DOMAIN readFileAndApply(files, del)[p] = DOMAIN files[p]
          /\ \A l \in DOMAIN files[p] : readFileAndApply(files, del)[p][l] = files[p][l]
      BY <1>4, <2>1, <3>1, Untouched
    <3> QED BY <1>1, <3>2
  <2> QED BY <2>2, <2>3, <2>4 DEF SameFiles
<1> QED BY <1>1, <1>3, <1>5, QuietStep

\* The folder of the proto file is there: nothing is written.
LEMMA HandlerFails ==
    ASSUME GenInv, NEW m \in Module, NEW hs \in Menu, AddHandler(m, hs),
           "grpc" \in hs /\ ProtoFile(m) \in DOMAIN files
    PROVE  GenInv'
<1> DEFINE e == [Command("handler", {m}, hs) EXCEPT !.done = FALSE]
<1>1. /\ log # <<>> /\ m \in cfg.modules /\ cfg' = cfg /\ files' = files /\ log' = Append(log, e)
  BY DEF AddHandler
<1>2. hs \in SUBSET Handler
  BY MenuHolds
<1>3. e \in Entry /\ e.modules = {m} /\ e.command = "handler" /\ ~e.done
  BY <1>2 DEF Command, Entry, ExtendEntry
<1> HIDE DEF e
<1>4. SameFiles
  BY <1>1 DEF SameFiles, GenInv, FilesInv
<1> QED BY <1>1, <1>3, <1>4, QuietStep

-----------------------------------------------------------------------------
\* Before the first command there is nothing.
LEMMA GenInvInit == GeneratorInit => GenInv
<1> SUFFICES ASSUME GeneratorInit PROVE GenInv
  OBVIOUS
<1>1. log = <<>> /\ files = <<>> /\ cfg.modules = {} /\ DOMAIN log = {} /\ DOMAIN files = {}
  BY DEF GeneratorInit
<1>2. \A h, m : ~Asked(h, m)
  BY <1>1 DEF Asked
<1>3. LogInv
  <2>1. log \in Seq(Entry)
    BY <1>1
  <2> QED BY <1>1, <2>1 DEF LogInv
<1>4. FilesInv
  BY <1>1, <1>2 DEF FilesInv
<1>5. ModuleInv
  BY <1>1 DEF ModuleInv
<1>6. EnvInv
  BY <1>1, <1>2 DEF EnvInv
<1>7. SchemaInv
  BY <1>1, <1>2 DEF SchemaInv
<1> QED BY <1>3, <1>4, <1>5, <1>6, <1>7 DEF GenInv

\* Every command preserves the invariant.
LEMMA GenInvNext == DistinctNames /\ GenInv /\ [GeneratorNext]_generatorVars => GenInv'
<1> SUFFICES ASSUME DistinctNames, GenInv, [GeneratorNext]_generatorVars PROVE GenInv'
  OBVIOUS
<1>1. ASSUME NEW ms \in SUBSET Module, NEW hs \in Menu, NEW s \in Stack, InitService(ms, hs, s)
      PROVE  GenInv'
  <2>1. PICK mod, new, others, created, e : Extension(ms, hs, hs, mod, new, others, created, e)
    BY <1>1, InitExtends
  <2> QED BY <2>1, ExtensionStep
<1>2. ASSUME NEW m \in Module, NEW hs \in Menu, AddModule(m, hs) PROVE GenInv'
  <2>1. PICK mod, new, others, created, e : Extension({m}, hs, hs, mod, new, others, created, e)
    BY <1>2, ModuleExtends
  <2> QED BY <2>1, ExtensionStep
<1>3. ASSUME NEW m \in Module, NEW hs \in Menu, AddHandler(m, hs) PROVE GenInv'
  <2>1. CASE "grpc" \in hs /\ ProtoFile(m) \in DOMAIN files
    BY <1>3, <2>1, HandlerFails
  <2>2. CASE ~("grpc" \in hs /\ ProtoFile(m) \in DOMAIN files)
    <3>1. PICK mounted, mod, new, others, created, e :
             Extension({m}, hs, mounted, mod, new, others, created, e)
      BY <1>3, <2>2, HandlerExtends
    <3> QED BY <3>1, ExtensionStep
  <2> QED BY <2>1, <2>2
<1>4. ASSUME NEW m \in Module, NEW u \in UsecaseName, NEW hs \in Menu, AddUsecase(m, u, hs)
      PROVE  GenInv'
  BY <1>4, AddUsecaseStep
<1>5. ASSUME NEW m \in Module, NEW hs \in Menu, NEW u \in UsecaseName \cup Default(m),
             ApplyUsecase(m, u, hs)
      PROVE  GenInv'
  BY <1>5, ApplyUsecaseStep
<1>6. CASE UNCHANGED generatorVars
  <2>1. files' = files /\ cfg' = cfg /\ log' = log
    BY <1>6 DEF generatorVars
  <2>2. \A h, m : Asked(h, m)' <=> Asked(h, m)
    BY <2>1 DEF Asked, Extends
  <2>3. LogInv'
    <3>1. \A i, m : IsBirth(i, m)' <=> IsBirth(i, m)
      BY <2>1 DEF IsBirth
    <3> QED BY <2>1, <3>1 DEF GenInv, LogInv
  <2>4. FilesInv'
    BY <2>1, <2>2 DEF GenInv, FilesInv
  <2>5. ModuleInv'
    <3>1. \A m : Mounted(m)' = Mounted(m)
      BY <2>1 DEF Mounted, Birth, Extends
    <3> QED BY <2>1, <3>1 DEF GenInv, ModuleInv
  <2>6. EnvInv'
    <3>1. Settings' = Settings
      BY <2>1 DEF Settings
    <3> QED BY <2>1, <2>2, <3>1 DEF GenInv, EnvInv
  <2>7. SchemaInv'
    BY <2>1, <2>2 DEF GenInv, SchemaInv
  <2> QED BY <2>3, <2>4, <2>5, <2>6, <2>7 DEF GenInv
<1> QED BY <1>1, <1>2, <1>3, <1>4, <1>5, <1>6 DEF GeneratorNext

\* The invariant says what is asked for.
LEMMA GenInvServes == GenInv => AskedIsServed
<1> SUFFICES ASSUME GenInv, NEW m \in cfg.modules, NEW h \in Handler
             PROVE  LET mounts == \E l \in DOMAIN files[ModuleGo(m)] : l.on /\ MountFacts(h, m) \subseteq l.facts
                    IN  /\ mounts <=> h \in Mounted(m)
                        /\ mounts => HandlerFile(h, m) \in DOMAIN files
                        /\ mounts /\ h \notin Plugin => Present(Env, EnvUse(h))
                        /\ mounts /\ h \in Worker /\ (h = "rabbitmq" => h \in log[1].handlers)
                              => Present(Env, EnvSettings(h))
                        /\ h = "graphql" /\ h \in getAllModuleHandler(m)
                              => Present(RootSchema, GraphQLField(m)) /\ files[RootSchema][On(GraphQLField(m))] = 1
  BY DEF AskedIsServed, Handler
<1>1. m \in Module /\ log # <<>>
  BY DEF GenInv, LogInv
<1>2. (\E l \in DOMAIN files[ModuleGo(m)] : l.on /\ MountFacts(h, m) \subseteq l.facts) <=> h \in Mounted(m)
  BY DEF GenInv, ModuleInv, ModuleLines
<1>3. h \in Mounted(m) => Asked(h, m)
  BY MountedAsked
<1>4. Asked(h, m) <=> HandlerFile(h, m) \in DOMAIN files
  BY <1>1 DEF GenInv, FilesInv
<1>5. Asked(h, m) /\ h \notin Plugin => Present(Env, EnvUse(h))
  <2>1. Asked(h, m) /\ h \notin Plugin => h \in cfg.handlers /\ h \in Server \cup Worker
    BY <1>1 DEF GenInv, EnvInv, Handler
  <2>2. \A g \in Server \cup Worker : If(g \in cfg.handlers, EnvUse(g)) \in DOMAIN files[Env]
    BY <1>1 DEF GenInv, EnvInv, EnvLines
  <2>3. h \in cfg.handlers => If(h \in cfg.handlers, EnvUse(h)) = On(EnvUse(h))
    BY DEF If, On
  <2> QED BY <2>1, <2>2, <2>3 DEF Present
<1>6. h \in Worker /\ (h = "rabbitmq" => h \in log[1].handlers) => Present(Env, EnvSettings(h))
  BY <1>1 DEF GenInv, EnvInv, EnvLines, Settings, Present
<1>7. h = "graphql" /\ h \in getAllModuleHandler(m)
         => Present(RootSchema, GraphQLField(m)) /\ files[RootSchema][On(GraphQLField(m))] = 1
  <2>1. h \in getAllModuleHandler(m) => Asked(h, m)
    BY <1>1, HandlersFound DEF GenInv
  <2> QED BY <1>1, <2>1 DEF GenInv, SchemaInv, Present
<1> QED BY <1>2, <1>3, <1>4, <1>5, <1>6, <1>7

(***************************************************************************)
(* After any sequence of commands a handler that was asked for is in the   *)
(* module's directory, mounted by module.go and enabled in .env, a GraphQL *)
(* module has one field in the root schema, and nothing else is mounted    *)
(* (project_generator.go:347, project_generator_add_handler.go:188): for   *)
(* any module names that cleanSpecialChar does not confuse, any use cases, *)
(* dependencies and any number of commands.                                *)
(***************************************************************************)
THEOREM GeneratorServes ==
    ASSUME DistinctNames
    PROVE  GeneratorSpec => []AskedIsServed
<1>1. GeneratorInit => GenInv
  BY GenInvInit
<1>2. GenInv /\ [GeneratorNext]_generatorVars => GenInv'
  BY GenInvNext
<1>3. GenInv => AskedIsServed
  BY GenInvServes
<1> QED BY <1>1, <1>2, <1>3, PTL DEF GeneratorSpec
=============================================================================
