----------------------------- MODULE MCStorage ------------------------------
(***************************************************************************)
(* Small instances of Storage and Recovery.  Every run names the requests  *)
(* its clients send; they are ones the clients under cmd/client can send.  *)
(***************************************************************************)
EXTENDS Recovery

CONSTANTS k1, k2, w1, w2, c1, c2

R(cmd, key) ==
  [cmd |-> cmd, key |-> key, value |-> Absent, offset |-> Absent,
   exp |-> Absent]
SetTo(key, value)       == [R("SET", key) EXCEPT !.value = value]
SetFor(key, value, exp) == [SetTo(key, value) EXCEPT !.exp = exp]
IncrBy(key, offset)     == [R("INCR", key) EXCEPT !.offset = offset]
PushOf(key, value)      == [R("PUSH", key) EXCEPT !.value = value]
Flush                   == R("FLUSHDB", Absent)

NoSeed == <<>>

\* Two clients; every way a command can be refused or end the process.
AnyRequest == [c \in Conns |->
  {SetTo(k1, 1), SetFor(k1, w1, 1), SetFor(k1, w1, Wide), R("SET", k1),
   R("SET", Absent), IncrBy(k1, 1), PushOf(k1, w1), Flush}]

\* Sound where the clients send the same requests.
ConnSymmetry == Permutations(Conns)

\* Two clients whose commands do not commute.
TwoSets == [c \in Conns |-> {SetTo(k1, w1), SetTo(k1, w2)}]
=============================================================================
