------------------------------ MODULE Recovery ------------------------------
(***************************************************************************)
(* What a restart makes of the log, against what the server held before.   *)
(* docs/Design.md says that the server reconstructs the stored commands    *)
(* "replaying each operation to restore the last known state"; the         *)
(* properties say when that is so.                                         *)
(***************************************************************************)
EXTENDS Storage, SequencesExt

\* The records LoadRequests returns for a file.
LoadRequests(f) ==
  LET stop == SelectInSeq(f, LAMBDA entry : entry = Torn)
  IN  IF stop = 0 THEN f ELSE SubSeq(f, 1, stop - 1)

\* The database RebuildFromPersistence makes of a file, a turn at a time.
RebuildFromPersistence(f) ==
  LET records == LoadRequests(f)
      rebuilt[i \in 0 .. Len(records)] ==
        IF i = 0 THEN NewDatabase ELSE Replayed(rebuilt[i - 1], records[i])
  IN  rebuilt[Len(records)]

Recovered == RebuildFromPersistence(file)

(***************************************************************************)
(* When the properties of this module may be expected.  SoundLog: no write *)
(* stops half-way, a start can read the log, and every request that        *)
(* reaches it is one that a replay repeats; so is the log found at first.  *)
(* FlushesAreAlone: a client that flushes is the only one, and its flush   *)
(* does not fail.  NoSharedKey: what a client writes, no other does.       *)
(* CommutingClients: all they write is PUSHes and INCRs.                   *)
(* AloneWithoutDeadlines: there is one client, and no value it sets        *)
(* expires.                                                                *)
(***************************************************************************)
Logged(r) == ToUpper(r.cmd) \in LoggedCommands /\ Writable(r)

Repeatable(r) ==
  /\ r.cmd \in LoggedCommands
  /\ r.cmd \in {"SET", "PUSH"} => r.value \in Text
  /\ r.cmd = "INCR" => r.offset \in Text

SoundLog ==
  /\ ~TornWrites /\ ~ReadMayFail
  /\ \A i \in DOMAIN Seed : ~Unreplayable(Seed[i])
  /\ \A c \in Conns : \A r \in Requests[c] : Logged(r) => Repeatable(r)

FlushesAreAlone ==
  \A c \in Conns : \A r \in Requests[c] :
    ToUpper(r.cmd) = "FLUSHDB" => Conns = {c} /\ ~DiskMayFail

NoSharedKey ==
  \A c, d \in Conns : c # d =>
    \A r \in Requests[c], q \in Requests[d] :
      Logged(r) /\ Logged(q) /\ r.key = q.key => r.key \notin Keys

CommutingClients ==
  /\ IsFiniteSet(Conns)
  /\ \A c \in Conns : \A r \in Requests[c] :
       /\ ToUpper(r.cmd) # "FLUSHDB"
       /\ Logged(r) => r.cmd = "PUSH" \/ (r.cmd = "INCR" /\ r.offset \in Number)

AloneWithoutDeadlines ==
  /\ \E c \in Conns : Conns = {c}
  /\ \A c \in Conns : \A r \in Requests[c] : Logged(r) =>
       r.exp = Absent \/ (r.exp \in Int /\ r.exp <= 0)

-----------------------------------------------------------------------------
\* No goroutine is between the two halves of a command on k, or of a FLUSHDB.
Quiet(k) ==
  /\ phase = "up"
  /\ \A c \in Conns : pc[c] # "idle" => pc[c] = "logged" /\ req[c].key # k

(***************************************************************************)
(* A restart gives back every list and every live value of a key that no   *)
(* command in flight touches, whatever other keys' commands are doing.     *)
(***************************************************************************)
QuietKeysAreRecovered ==
  \A k \in Keys : Quiet(k) =>
    /\ Recovered.lists[k] = db.lists[k]
    /\ db.store[k] # Absent => Recovered.store[k] = db.store[k]

(***************************************************************************)
(* Concurrent PUSHes and INCRs commute: whatever the order in which the    *)
(* goroutines take the two locks, the list a restart rebuilds holds each   *)
(* value as often as the list in memory and the PUSHes in flight together, *)
(* and the counter it rebuilds is the one in memory plus the INCRs in      *)
(* flight.                                                                 *)
(***************************************************************************)
Occurrences(list, e) ==
  IF list = Absent THEN 0 ELSE Cardinality({i \in DOMAIN list : list[i] = e})

InFlight(cmd, k) ==
  {c \in Conns : /\ pc[c] = "logged"
                 /\ req[c].cmd = cmd
                 /\ req[c].key = k}

Offsets(k) == [c \in InFlight("INCR", k) |-> req[c].offset]

NothingLostOrDoubled ==
  phase = "up" => \A k \in Keys :
    /\ \A e \in Element :
         Occurrences(Recovered.lists[k], e)
           = Occurrences(db.lists[k], e)
               + Cardinality({c \in InFlight("PUSH", k) : req[c].value = e})
    /\ Recovered.store[k] =
         IF db.store[k] \in Number
         THEN Wrap(db.store[k] + SumFunction(Offsets(k)))
         ELSE db.store[k]

-----------------------------------------------------------------------------
(***************************************************************************)
(* One connection implements DurableKV.  The store is what the log         *)
(* rebuilds, so a command takes effect when its record is written; the     *)
(* reply owed is the one HandleCommand is about to compute from the maps.  *)
(***************************************************************************)
Client == CHOOSE c \in Conns : TRUE

Owed ==
  CASE pc[Client] = "logged"  -> HandleCommand(db, req[Client]).reply
    [] pc[Client] = "cleared" -> Ok(db, Absent).reply
    [] OTHER                  -> NoReply

Durable == INSTANCE DurableKV WITH
             Asked  <- Requests[Client],
             kv     <- Recovered,
             owed   <- Owed,
             answer <- reply[Client]

(***************************************************************************)
(* To a client alone on the server, crashes cost at most a reply: every    *)
(* behaviour of the log, the maps, the crashes and the replays is one of   *)
(* the crash-proof store, replies included.                                *)
(***************************************************************************)
ImplementsDurableKV == Durable!Spec
=============================================================================
