----------------------------- MODULE LinkedList -----------------------------
(***************************************************************************)
(* core.List, the doubly linked list behind PUSH, LPOP and RPOP: the heap  *)
(* cells of internal/core/list.go and the pointers the operations rewrite. *)
(* An operation runs under the lock of Database, so it is one step.        *)
(*                                                                         *)
(* A cell is never reused: the collector frees what cannot be reached, and *)
(* a freed cell that comes back as &node{} cannot be told from a new one.  *)
(***************************************************************************)
EXTENDS Integers, Sequences

CONSTANTS
  Nodes,   \* the cells &node{} may return; their number bounds the pushes
  Values,  \* what a cell holds
  Nil,     \* the nil pointer
  None,    \* the operation returns nothing
  Failed   \* the error "list is empty"

ASSUME NodesAssumption == Nil \notin Nodes

VARIABLES
  head, tail, length,  \* the fields of List
  value, prev, next,   \* the fields of the cells
  made,                \* the cells allocated so far
  got,                 \* what the last operation returned
  chain                \* history: the cells of the list, from left to right

fields == <<head, tail, length>>
cells  == <<value, prev, next, made>>
vars   == <<head, tail, length, value, prev, next, made, got, chain>>

TypeOK ==
  /\ {head, tail} \subseteq Nodes \cup {Nil}
  /\ length \in Nat
  /\ value \in [Nodes -> Values \cup {None}]
  /\ prev \in [Nodes -> Nodes \cup {Nil}]
  /\ next \in [Nodes -> Nodes \cup {Nil}]
  /\ made \subseteq Nodes
  /\ got \in Values \cup {None, Failed}
  /\ chain \in Seq(made)

\* NewList.
Init ==
  /\ head = Nil
  /\ tail = Nil
  /\ length = 0
  /\ value = [n \in Nodes |-> None]
  /\ prev = [n \in Nodes |-> Nil]
  /\ next = [n \in Nodes |-> Nil]
  /\ made = {}
  /\ got = None
  /\ chain = <<>>

\* n := &node{value: v}
New(n, v) ==
  /\ n \notin made
  /\ made' = made \cup {n}
  /\ value' = [value EXCEPT ![n] = v]
  /\ got' = None
  /\ length' = length + 1

LPush(n, v) ==
  /\ New(n, v)
  /\ head' = n
  /\ IF length = 0
     THEN tail' = n /\ UNCHANGED <<prev, next>>
     ELSE /\ next' = [next EXCEPT ![n] = head]
          /\ prev' = [prev EXCEPT ![head] = n]
          /\ UNCHANGED tail
  /\ chain' = <<n>> \o chain

RPush(n, v) ==
  /\ New(n, v)
  /\ tail' = n
  /\ IF length = 0
     THEN head' = n /\ UNCHANGED <<prev, next>>
     ELSE /\ prev' = [prev EXCEPT ![n] = tail]
          /\ next' = [next EXCEPT ![tail] = n]
          /\ UNCHANGED head
  /\ chain' = Append(chain, n)

\* Mutant: length is decremented before the test for the empty list.
PopEmptyCounted ==
  /\ length = 0
  /\ got' = Failed
  /\ length' = length - 1
  /\ UNCHANGED <<head, tail, cells, chain>>

PopEmpty ==
  /\ length = 0
  /\ got' = Failed
  /\ UNCHANGED <<fields, cells, chain>>

\* Mutant: the new head keeps its pointer to the popped cell.
LPopDangling ==
  /\ length # 0
  /\ got' = value[head]
  /\ length' = length - 1
  /\ IF length = 1
     THEN head' = Nil /\ tail' = Nil
     ELSE head' = next[head] /\ UNCHANGED tail
  /\ chain' = Tail(chain)
  /\ UNCHANGED <<value, prev, next, made>>

LPop ==
  /\ length # 0
  /\ got' = value[head]
  /\ length' = length - 1
  /\ IF length = 1
     THEN head' = Nil /\ tail' = Nil /\ UNCHANGED prev
     ELSE /\ head' = next[head]
          /\ prev' = [prev EXCEPT ![next[head]] = Nil]
          /\ UNCHANGED tail
  /\ chain' = Tail(chain)
  /\ UNCHANGED <<value, next, made>>

\* Mutant: RPop returns the value at the wrong end.
RPopOfHead ==
  /\ length # 0
  /\ got' = value[head]
  /\ length' = length - 1
  /\ IF length = 1
     THEN head' = Nil /\ tail' = Nil /\ UNCHANGED next
     ELSE /\ tail' = prev[tail]
          /\ next' = [next EXCEPT ![prev[tail]] = Nil]
          /\ UNCHANGED head
  /\ chain' = SubSeq(chain, 1, Len(chain) - 1)
  /\ UNCHANGED <<value, prev, made>>

RPop ==
  /\ length # 0
  /\ got' = value[tail]
  /\ length' = length - 1
  /\ IF length = 1
     THEN head' = Nil /\ tail' = Nil /\ UNCHANGED next
     ELSE /\ tail' = prev[tail]
          /\ next' = [next EXCEPT ![prev[tail]] = Nil]
          /\ UNCHANGED head
  /\ chain' = SubSeq(chain, 1, Len(chain) - 1)
  /\ UNCHANGED <<value, prev, made>>

Clear ==
  /\ head' = Nil
  /\ tail' = Nil
  /\ length' = 0
  /\ got' = None
  /\ chain' = <<>>
  /\ UNCHANGED cells

Next ==
  \/ \E n \in Nodes, v \in Values : LPush(n, v) \/ RPush(n, v)
  \/ PopEmpty
  \/ LPop
  \/ RPop
  \/ Clear

Spec == Init /\ [][Next]_vars

-----------------------------------------------------------------------------
(***************************************************************************)
(* The pointers spell the list.  Whatever the sequence of operations at    *)
(* the two ends, length counts the cells, next leads from head to tail     *)
(* through each of them once, prev leads back, and neither end points out  *)
(* of the list, so a popped cell can be collected and is never seen again. *)
(***************************************************************************)
WellFormed ==
  /\ length = Len(chain)
  /\ \A i, j \in DOMAIN chain : chain[i] = chain[j] => i = j
  /\ head = IF length = 0 THEN Nil ELSE chain[1]
  /\ tail = IF length = 0 THEN Nil ELSE chain[length]
  /\ length > 0 => prev[chain[1]] = Nil /\ next[chain[length]] = Nil
  /\ \A i \in 1 .. length - 1 : /\ next[chain[i]] = chain[i + 1]
                                /\ prev[chain[i + 1]] = chain[i]

\* A cell that was never handed out has the nil pointers of &node{}.
Untouched == \A n \in Nodes \ made : prev[n] = Nil /\ next[n] = Nil

Contents == [i \in DOMAIN chain |-> value[chain[i]]]

Queue == INSTANCE Deque WITH items <- Contents

(***************************************************************************)
(* Read from left to right the list is a double-ended queue: pushes and    *)
(* pops at either end return and keep what those of a sequence would.      *)
(***************************************************************************)
ImplementsDeque == Queue!Spec
=============================================================================
