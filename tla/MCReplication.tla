--------------------------- MODULE MCReplication ----------------------------
(***************************************************************************)
(* Small instances of Replication.  The first node is the bootstrap node.  *)
(***************************************************************************)
EXTENDS Replication, TLC

CONSTANTS k1, k2, w1, c1, c2

R(cmd, key) ==
  [cmd |-> cmd, key |-> key, value |-> Absent, offset |-> Absent,
   exp |-> Absent]
SetTo(key, value)       == [R("SET", key) EXCEPT !.value = value]
SetFor(key, value, exp) == [SetTo(key, value) EXCEPT !.exp = exp]
IncrBy(key, offset)     == [R("INCR", key) EXCEPT !.offset = offset]
PushOf(key, value)      == [R("PUSH", key) EXCEPT !.value = value]
Small(r)                == [r EXCEPT !.cmd = "set"]

\* A client of the leader and one of a follower, which share no key.
TwoClients == c1 :> 1 @@ c2 :> 2

OwnKeys == (c1 :> {PushOf(k1, w1), Small(SetFor(k1, w1, 1))})
        @@ (c2 :> {SetTo(k2, 1), IncrBy(k2, 1)})

\* One client, of the node that is going to lead.
OneClient == c1 :> 2
OnePush   == c1 :> {PushOf(k1, w1)}
=============================================================================
