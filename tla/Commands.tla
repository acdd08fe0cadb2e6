------------------------------ MODULE Commands ------------------------------
(***************************************************************************)
(* The commands of Geomys as functions on the state of one database:       *)
(* internal/core/database.go (the operations), internal/core/commands.go   *)
(* (the switch of HandleCommand) and the record that                       *)
(* internal/persistence/wtd.go keeps of a command and replays.  Nothing    *)
(* here has state; Storage runs these functions under the locks of the     *)
(* code.                                                                   *)
(*                                                                         *)
(* A numeral and the integer strconv.Atoi reads from it are one value: the *)
(* integer.  Every other non-empty string is a member of Words.            *)
(***************************************************************************)
EXTENDS Integers, Sequences

CONSTANTS
  Keys,     \* the non-empty strings used as keys
  Words,    \* the non-empty strings strconv.Atoi rejects
  Half,     \* 2^63 in the code: an int lies in -Half .. Half - 1
  Absent,   \* the field is missing from the request, the entry from the map
  Empty,    \* the empty string
  Wide      \* an "exp" of a type the switch in HandleCommand does not list

Number == -Half .. Half - 1
Text   == Number \cup Words

ASSUME CommandsAssumption ==
  /\ Half \in Nat \ {0}
  /\ Words \cap Int = {}
  /\ {Absent, Empty} \cap (Keys \cup Text) = {}
  /\ {Absent, Wide} \cap Int = {}
  /\ Absent \notin {Empty, Wide} \cup Seq(Text \cup {Absent, Empty})

(***************************************************************************)
(* What strings.ToUpper does to the command names the server knows.        *)
(***************************************************************************)
Capitals ==
  [set |-> "SET", incr |-> "INCR", push |-> "PUSH", lpop |-> "LPOP",
   rpop |-> "RPOP", get |-> "GET", flushdb |-> "FLUSHDB"]

ToUpper(cmd) == IF cmd \in DOMAIN Capitals THEN Capitals[cmd] ELSE cmd

\* The commands HandleCommand writes to the log before it runs them.
LoggedCommands == {"SET", "INCR", "PUSH", "LPOP", "RPOP"}

Request ==
  [cmd    : STRING,
   key    : Keys \cup {Absent, Empty},
   value  : Text \cup {Absent, Empty},
   offset : Text \cup {Absent, Empty},
   exp    : Int \cup {Absent, Wide}]

(***************************************************************************)
(* The three maps of a Database.  left[k] is the deadline expiry[k] seen   *)
(* from now: the milliseconds until it, negative once now > expiry[k].     *)
(* A list may hold Absent: the nil that a replayed PUSH without a value    *)
(* appends.                                                                *)
(***************************************************************************)
Element == Text \cup {Absent, Empty}

Database ==
  [store : [Keys -> Text \cup {Absent}],
   left  : [Keys -> Int \cup {Absent}],
   lists : [Keys -> Seq(Element) \cup {Absent}]]

NewDatabase ==
  [store |-> [k \in Keys |-> Absent],
   left  |-> [k \in Keys |-> Absent],
   lists |-> [k \in Keys |-> Absent]]

(***************************************************************************)
(* An operation returns the database it leaves and the reply.  A panic is  *)
(* a reply too: it ends the process, nothing in the server recovers.       *)
(***************************************************************************)
Error    == [status |-> "ERROR", value |-> Absent]
NoReply  == [status |-> "NONE", value |-> Absent]
Ok(d, v) == [db |-> d, reply |-> [status |-> "OK", value |-> v]]
Fail(d)  == [db |-> d, reply |-> Error]
Panic(d) == [db |-> d, reply |-> [status |-> "PANIC", value |-> Absent]]

Reply == [status : {"OK", "ERROR", "PANIC", "NONE"}, value : Element]

\* Mutant: an int without a width.
WrapForgotten(n) == n

\* Two's-complement addition of the machine int.
Wrap(n) == ((n + Half) % (2 * Half)) - Half

Get(d, key) ==
  IF key \in Keys /\ d.store[key] # Absent
  THEN Ok(d, d.store[key])
  ELSE Fail(d)

\* A deadline left by an earlier SET of the key stays when ttl is not positive.
Set(d, key, value, ttl) ==
  IF key \in Keys /\ value # Empty
  THEN Ok([d EXCEPT !.store[key] = value,
                    !.left[key]  = IF ttl > 0 THEN ttl ELSE @], Absent)
  ELSE Fail(d)

Incr(d, key, offset) ==
  IF key \in Keys /\ d.store[key] \in Number
  THEN LET sum == Wrap(d.store[key] + offset)
       IN  Ok([d EXCEPT !.store[key] = sum], sum)
  ELSE Fail(d)

Push(d, key, value) ==
  IF key \in Keys
  THEN Ok([d EXCEPT !.lists[key] =
             IF @ = Absent THEN <<value>> ELSE Append(@, value)], Absent)
  ELSE Fail(d)

Poppable(d, key) == key \in Keys /\ d.lists[key] \notin {Absent, <<>>}

Lpop(d, key) ==
  IF Poppable(d, key)
  THEN Ok([d EXCEPT !.lists[key] = Tail(@)], Head(d.lists[key]))
  ELSE Fail(d)

Rpop(d, key) ==
  IF Poppable(d, key)
  THEN LET last == Len(d.lists[key])
       IN  Ok([d EXCEPT !.lists[key] = SubSeq(@, 1, last - 1)],
              d.lists[key][last])
  ELSE Fail(d)

\* HandleCommand answers the pop of an empty string with an error.
Returned(out) ==
  IF out.reply.value = Empty THEN [out EXCEPT !.reply = Error] ELSE out

(***************************************************************************)
(* What HandleCommand does once the request is logged: the checks on the   *)
(* fields, in the order of the code, and the operation.                    *)
(***************************************************************************)
HandleCommand(d, r) ==
  LET cmd == ToUpper(r.cmd) IN
  CASE cmd = "SET" ->
         IF r.exp = Wide THEN Panic(d)
         ELSE IF r.value = Absent THEN Fail(d)
         ELSE Set(d, r.key, r.value, IF r.exp = Absent THEN 0 ELSE r.exp)
    [] cmd = "INCR" ->
         IF r.offset \in Number THEN Incr(d, r.key, r.offset) ELSE Fail(d)
    [] cmd = "PUSH" ->
         IF r.value = Absent THEN Fail(d) ELSE Push(d, r.key, r.value)
    [] cmd = "LPOP" -> Returned(Lpop(d, r.key))
    [] cmd = "RPOP" -> Returned(Rpop(d, r.key))
    [] OTHER -> Fail(d)

(***************************************************************************)
(* The record of a request in binlog.dat, as LoadRequests gives it back.   *)
(* The name is written as the client sent it, "exp" is not written, and a  *)
(* missing field and an empty one are the same zero length.                *)
(***************************************************************************)
Optional(field) == IF field = Empty THEN Absent ELSE field

RecordOf(r) ==
  [cmd    |-> r.cmd,
   key    |-> r.key,
   value  |-> Optional(r.value),
   offset |-> Optional(r.offset)]

Record ==
  [cmd    : STRING,
   key    : Keys \cup {Empty},
   value  : Text \cup {Absent},
   offset : Text \cup {Absent}]

\* RebuildFromPersistence asserts that these fields are strings, and panics.
Unreplayable(rec) ==
  \/ rec.cmd = "SET"  /\ rec.value = Absent
  \/ rec.cmd = "INCR" /\ rec.offset = Absent

\* Mutant: a replay that takes each pop from the other end.
ReplayedMirrored(d, rec) ==
  CASE rec.cmd = "SET"  -> Set(d, rec.key, rec.value, 0).db
    [] rec.cmd = "INCR" -> IF rec.offset \in Number
                           THEN Incr(d, rec.key, rec.offset).db ELSE d
    [] rec.cmd = "PUSH" -> Push(d, rec.key, rec.value).db
    [] rec.cmd = "RPOP" -> Lpop(d, rec.key).db
    [] rec.cmd = "LPOP" -> Rpop(d, rec.key).db
    [] OTHER -> d

(***************************************************************************)
(* One turn of the loop of RebuildFromPersistence.  It compares the        *)
(* command name as it was written, and sets no deadline.                   *)
(***************************************************************************)
Replayed(d, rec) ==
  CASE rec.cmd = "SET"  -> Set(d, rec.key, rec.value, 0).db
    [] rec.cmd = "INCR" -> IF rec.offset \in Number
                           THEN Incr(d, rec.key, rec.offset).db ELSE d
    [] rec.cmd = "PUSH" -> Push(d, rec.key, rec.value).db
    [] rec.cmd = "RPOP" -> Rpop(d, rec.key).db
    [] rec.cmd = "LPOP" -> Lpop(d, rec.key).db
    [] OTHER -> d
=============================================================================
