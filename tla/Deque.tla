------------------------------- MODULE Deque --------------------------------
(***************************************************************************)
(* What the users of core.List rely on: a double-ended queue of values.    *)
(***************************************************************************)
EXTENDS Integers, Sequences

CONSTANTS
  Values,  \* what a caller stores
  None,    \* the operation returned nothing
  Failed   \* the operation returned the error "list is empty"

VARIABLES
  items,   \* the values, leftmost first
  got      \* what the last operation returned

vars == <<items, got>>

Init == items = <<>> /\ got = None

Prepend(v) == items' = <<v>> \o items /\ got' = None
Postpend(v) == items' = Append(items, v) /\ got' = None

TakeFirst ==
  /\ items # <<>>
  /\ got' = Head(items)
  /\ items' = Tail(items)

TakeLast ==
  /\ items # <<>>
  /\ got' = items[Len(items)]
  /\ items' = SubSeq(items, 1, Len(items) - 1)

TakeNothing ==
  /\ items = <<>>
  /\ got' = Failed
  /\ UNCHANGED items

Empty == items' = <<>> /\ got' = None

Next ==
  \/ \E v \in Values : Prepend(v) \/ Postpend(v)
  \/ TakeFirst
  \/ TakeLast
  \/ TakeNothing
  \/ Empty

Spec == Init /\ [][Next]_vars
=============================================================================
