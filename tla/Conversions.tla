---------------------------- MODULE Conversions -----------------------------
(***************************************************************************)
(* What becomes of a request on its way to another node:                   *)
(* internal/utils/conversions.go, and the two ends of SyncRequest in       *)
(* internal/cluster/replication.                                           *)
(***************************************************************************)
EXTENDS Commands

CONSTANTS
  Half32,  \* 2^31 in the code: Exp, an int32, lies in -Half32 .. Half32 - 1
  Long     \* the "exp"s that reach the server as an int64, not a shorter int

ASSUME ConversionsAssumption ==
  /\ Half32 \in Nat \ {0}
  /\ Long \subseteq Int

Int32(n) == ((n + Half32) % (2 * Half32)) - Half32

\* A string field of a message: what is missing is empty.
Field(f) == IF f = Absent THEN Empty ELSE f

\* proto.Command
Command ==
  [Command : STRING,
   Key     : Keys \cup {Empty},
   Value   : Text \cup {Empty},
   Exp     : -Half32 .. Half32 - 1,
   Offset  : Text \cup {Empty}]

ConvertRequestToCommand(r) ==
  [Command |-> r.cmd,
   Key     |-> Field(r.key),
   Value   |-> Field(r.value),
   Exp     |-> IF r.exp \in Long THEN Int32(r.exp) ELSE 0,
   Offset  |-> Field(r.offset)]

\* Mutant: the offset of an INCR is not copied.
WithoutOffset(c) ==
  [cmd    |-> c.Command,
   key    |-> Optional(c.Key),
   value  |-> Optional(c.Value),
   offset |-> Absent,
   exp    |-> IF c.Exp = 0 THEN Absent ELSE c.Exp]

ConvertCommandToRequest(c) ==
  [cmd    |-> c.Command,
   key    |-> Optional(c.Key),
   value  |-> Optional(c.Value),
   offset |-> Optional(c.Offset),
   exp    |-> IF c.Exp = 0 THEN Absent ELSE c.Exp]

\* A request as the node it is forwarded or replicated to runs it.
Converted(r) == ConvertCommandToRequest(ConvertRequestToCommand(r))

(***************************************************************************)
(* A record of the leader's log as a node that syncs runs it.  The client  *)
(* fills in every field, a missing one as the empty string.                *)
(***************************************************************************)
Synced(rec) ==
  [cmd    |-> rec.cmd,
   key    |-> rec.key,
   value  |-> Field(rec.value),
   offset |-> Field(rec.offset),
   exp    |-> Absent]
=============================================================================
