----------------------------- MODULE FifoQueue -----------------------------
(***************************************************************************)
(* What candishared.Queue promises its callers: an unbounded first-in      *)
(* first-out queue whose Pop and Peek fail, and change nothing, when it is *)
(* empty.                                                                  *)
(***************************************************************************)
EXTENDS Naturals, Sequences

CONSTANTS Elem,    \* the values pushed
          Zero     \* the zero value of Go's type parameter T

VARIABLES items,   \* the contents, oldest first
          result   \* what the last call returned: the value and whether err is nil

fifoVars == <<items, result>>

Init == items = << >> /\ result = [val |-> Zero, ok |-> TRUE]

Push(e) ==
    /\ items' = Append(items, e)
    /\ result' = [val |-> Zero, ok |-> TRUE]

Pop ==
    \/ /\ items = << >>
       /\ items' = items
       /\ result' = [val |-> Zero, ok |-> FALSE]
    \/ /\ items # << >>
       /\ items' = Tail(items)
       /\ result' = [val |-> Head(items), ok |-> TRUE]

Peek ==
    /\ items' = items
    /\ result' = IF items = << >> THEN [val |-> Zero, ok |-> FALSE]
                                  ELSE [val |-> Head(items), ok |-> TRUE]

Next == (\E e \in Elem : Push(e)) \/ Pop \/ Peek

Spec == Init /\ [][Next]_fifoVars
=============================================================================
