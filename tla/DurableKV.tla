----------------------------- MODULE DurableKV ------------------------------
(***************************************************************************)
(* What one client may rely on: a store that survives every crash.  A      *)
(* command takes effect at one instant, completely, and its reply is the   *)
(* one that effect determines; a crash can lose the reply, never the       *)
(* effect; a refused command has no effect.                                *)
(***************************************************************************)
EXTENDS Commands

CONSTANT Asked     \* the requests the client sends

VARIABLES
  kv,      \* the store, without deadlines
  owed,    \* the reply to the command in progress, NoReply if none is
  answer   \* the last reply the client has, NoReply on a new connection

vars == <<kv, owed, answer>>

Init ==
  /\ kv \in Database
  /\ owed = NoReply
  /\ answer = NoReply

Effect(r) ==
  IF ToUpper(r.cmd) = "FLUSHDB" THEN Ok(NewDatabase, Absent)
                                ELSE HandleCommand(kv, r)

Commit(r) ==
  /\ owed = NoReply
  /\ ToUpper(r.cmd) \in LoggedCommands \cup {"FLUSHDB"}
  /\ kv' = Effect(r).db
  /\ owed' = Effect(r).reply
  /\ UNCHANGED answer

Respond ==
  /\ owed # NoReply
  /\ answer' = owed
  /\ owed' = NoReply
  /\ UNCHANGED kv

Query(r) ==
  /\ owed = NoReply
  /\ ToUpper(r.cmd) = "GET"
  /\ answer' = Get(kv, r.key).reply
  /\ UNCHANGED <<kv, owed>>

Refuse ==
  /\ owed = NoReply
  /\ answer' = Error
  /\ UNCHANGED <<kv, owed>>

Disconnect ==
  /\ owed' = NoReply
  /\ answer' = NoReply
  /\ UNCHANGED kv

Next ==
  \/ \E r \in Asked : Commit(r) \/ Query(r)
  \/ Respond
  \/ Refuse
  \/ Disconnect

Spec == Init /\ [][Next]_vars
=============================================================================
