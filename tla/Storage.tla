------------------------------ MODULE Storage -------------------------------
(***************************************************************************)
(* One Geomys process and its disk: the goroutines that serve client       *)
(* connections, the cleanup goroutine, binlog.dat, crashes and restarts.   *)
(*                                                                         *)
(* HandleCommand holds no lock across its two effects.  It appends the     *)
(* request to the log under the lock of Persistence, and later changes the *)
(* maps under the lock of Database; FLUSHDB truncates the log under the    *)
(* first lock and empties the maps under the second.  Each is one action   *)
(* here, and other goroutines run in between.                              *)
(***************************************************************************)
EXTENDS Commands

CONSTANTS
  Conns,        \* client connections, one goroutine each
  Requests,     \* Requests[c]: the requests the client of c sends
  Seed,         \* what binlog.dat holds when the server is first started
  MaxFile,      \* bound: records in the log
  DiskMayFail,  \* a write or a truncation of the log may return an error
  ReadMayFail,  \* opening or reading the log may return an error
  TornWrites,   \* a write may stop half-way, with an error or with a crash
  Torn          \* the bytes such a write leaves in the file

ASSUME StorageAssumption ==
  /\ Requests \in [Conns -> SUBSET Request]
  /\ Seed \in Seq(Record)
  /\ MaxFile \in Nat
  /\ {DiskMayFail, ReadMayFail, TornWrites} \subseteq BOOLEAN
  /\ Torn \notin Record

VARIABLES
  phase,   \* "down", "rebuilding" or "up"
  db,      \* the maps, lost with the process
  file,    \* binlog.dat: the records, in order, and Torn
  handle,  \* p.file: "open", "closed", or "none" before Persistence exists
  cursor,  \* the next record RebuildFromPersistence replays
  pc,      \* what the goroutine of a connection does next
  req,     \* the request it works on
  reply,   \* the last reply it sent
  at,      \* history: where in file its record is, 0 if a flush removed it
  acked    \* history: [pos, rec] of the commands answered OK and not flushed

vars == <<phase, db, file, handle, cursor, pc, req, reply, at, acked>>

TypeOK ==
  /\ phase \in {"down", "rebuilding", "up"}
  /\ db \in Database
  /\ file \in Seq(Record \cup {Torn})
  /\ handle \in {"none", "open", "closed"}
  /\ cursor \in Nat
  /\ pc \in [Conns -> {"idle", "logged", "cleared"}]
  /\ req \in [Conns -> Request \cup {Absent}]
  /\ reply \in [Conns -> Reply]
  /\ at \in [Conns -> Nat]
  /\ acked \subseteq [pos : Nat, rec : Record]

Init ==
  /\ phase = "down"
  /\ db = NewDatabase
  /\ file = Seed
  /\ handle = "none"
  /\ cursor = 0
  /\ pc = [c \in Conns |-> "idle"]
  /\ req = [c \in Conns |-> Absent]
  /\ reply = [c \in Conns |-> NoReply]
  /\ at = [c \in Conns |-> 0]
  /\ acked = {}

-----------------------------------------------------------------------------
(***************************************************************************)
(* The end of the process, by a crash or by a panic: the maps and the      *)
(* connections go.  The callers say what becomes of the file.              *)
(***************************************************************************)
Die ==
  /\ phase' = "down"
  /\ db' = NewDatabase
  /\ handle' = "none"
  /\ cursor' = 0
  /\ pc' = [c \in Conns |-> "idle"]
  /\ req' = [c \in Conns |-> Absent]
  /\ reply' = [c \in Conns |-> NoReply]
  /\ at' = [c \in Conns |-> 0]

Answer(c, rep) ==
  /\ pc' = [pc EXCEPT ![c] = "idle"]
  /\ reply' = [reply EXCEPT ![c] = rep]

(***************************************************************************)
(* HandleCommand on request r.  It begins with CreateOrReplacePersistence, *)
(* which opens the log if NewServer could not, or answers with an error.   *)
(***************************************************************************)
OpenLog(c, r) ==
  /\ phase = "up"
  /\ pc[c] = "idle"
  /\ handle = "none"
  /\ handle' = "open"
  /\ UNCHANGED <<phase, db, file, cursor, pc, req, reply, at, acked>>

OpenLogFails(c, r) ==
  /\ phase = "up"
  /\ pc[c] = "idle"
  /\ handle = "none"
  /\ ReadMayFail
  /\ Answer(c, Error)
  /\ UNCHANGED <<phase, db, file, handle, cursor, req, at, acked>>

Handles(c) == phase = "up" /\ pc[c] = "idle" /\ handle # "none"

\* It is a command that is logged.
Received(c, r) == Handles(c) /\ ToUpper(r.cmd) \in LoggedCommands

Writable(r) == r.key # Absent

(***************************************************************************)
(* LogRequest: one write, under p.mu, of the whole record.                 *)
(***************************************************************************)
LogRequest(c, r) ==
  /\ Received(c, r)
  /\ Writable(r)
  /\ handle = "open"
  /\ Len(file) < MaxFile
  /\ file' = Append(file, RecordOf(r))
  /\ at' = [at EXCEPT ![c] = Len(file) + 1]
  /\ pc' = [pc EXCEPT ![c] = "logged"]
  /\ req' = [req EXCEPT ![c] = r]
  /\ UNCHANGED <<phase, db, handle, cursor, reply, acked>>

\* Mutant: HandleCommand goes on when LogRequest returned an error.
LogErrorIgnored(c, r) ==
  /\ Received(c, r)
  /\ Writable(r)
  /\ handle = "closed" \/ DiskMayFail
  /\ at' = [at EXCEPT ![c] = Len(file) + 1]
  /\ pc' = [pc EXCEPT ![c] = "logged"]
  /\ req' = [req EXCEPT ![c] = r]
  /\ UNCHANGED <<phase, db, file, handle, cursor, reply, acked>>

(***************************************************************************)
(* The write returns an error: the handle was closed by a FLUSHDB that     *)
(* failed, or the disk refuses the bytes, some of which it may have taken. *)
(***************************************************************************)
LogRequestFails(c, r) ==
  /\ Received(c, r)
  /\ Writable(r)
  /\ \/ /\ handle = "closed" \/ DiskMayFail
        /\ UNCHANGED file
     \/ /\ handle = "open" /\ TornWrites /\ Len(file) < MaxFile
        /\ file' = Append(file, Torn)
  /\ Answer(c, Error)
  /\ UNCHANGED <<phase, db, handle, cursor, req, at, acked>>

\* req["key"].(string) panics before anything is written.
KeyMissing(c, r) ==
  /\ Received(c, r)
  /\ ~Writable(r)
  /\ Die
  /\ UNCHANGED <<file, acked>>

\* Which commands answered just now count as acknowledged on disk.
Acknowledge(c, rep) ==
  acked' = IF rep.status = "OK" /\ at[c] # 0
           THEN acked \cup {[pos |-> at[c], rec |-> RecordOf(req[c])]}
           ELSE acked

\* The rest of HandleCommand, its operation under db.mu, and the reply.
Execute(c) ==
  /\ pc[c] = "logged"
  /\ LET out == HandleCommand(db, req[c]) IN
     IF out.reply.status = "PANIC"
     THEN Die /\ UNCHANGED <<file, acked>>
     ELSE /\ db' = out.db
          /\ Answer(c, out.reply)
          /\ Acknowledge(c, out.reply)
          /\ at' = [at EXCEPT ![c] = 0]
          /\ UNCHANGED <<phase, file, handle, cursor, req>>

HandleGet(c, r) ==
  /\ Handles(c)
  /\ ToUpper(r.cmd) = "GET"
  /\ reply' = [reply EXCEPT ![c] = Get(db, r.key).reply]
  /\ UNCHANGED <<phase, db, file, handle, cursor, pc, req, at, acked>>

-----------------------------------------------------------------------------
(***************************************************************************)
(* FLUSHDB.  Persistence.Clear closes the handle, truncates the file by    *)
(* name and opens it again; an error in between leaves the handle closed.  *)
(***************************************************************************)
ReadsFlush(c, r) == Handles(c) /\ ToUpper(r.cmd) = "FLUSHDB"

Truncated ==
  /\ file' = <<>>
  /\ at' = [d \in Conns |-> 0]
  /\ acked' = {}

ClearDisk(c, r) ==
  /\ ReadsFlush(c, r)
  /\ Truncated
  /\ handle' = "open"
  /\ pc' = [pc EXCEPT ![c] = "cleared"]
  /\ req' = [req EXCEPT ![c] = r]
  /\ UNCHANGED <<phase, db, cursor, reply>>

ClearDiskFails(c, r) ==
  /\ ReadsFlush(c, r)
  /\ DiskMayFail
  /\ Truncated \/ UNCHANGED <<file, at, acked>>
  /\ handle' = "closed"
  /\ Answer(c, Error)
  /\ UNCHANGED <<phase, db, cursor, req>>

\* Mutant: Database.Clear forgets the lists.
ClearMapsOnly(c) ==
  /\ pc[c] = "cleared"
  /\ db' = [NewDatabase EXCEPT !.lists = db.lists]
  /\ Answer(c, [status |-> "OK", value |-> Absent])
  /\ UNCHANGED <<phase, file, handle, cursor, req, at, acked>>

ClearMemory(c) ==
  /\ pc[c] = "cleared"
  /\ db' = NewDatabase
  /\ Answer(c, [status |-> "OK", value |-> Absent])
  /\ UNCHANGED <<phase, file, handle, cursor, req, at, acked>>

-----------------------------------------------------------------------------
(***************************************************************************)
(* Time and the cleanup goroutine: one pass, under db.mu, removes every    *)
(* key whose deadline has passed.                                          *)
(***************************************************************************)
Expired(k) == db.left[k] # Absent /\ db.left[k] < 0

Tick ==
  /\ phase = "up"
  /\ \E k \in Keys : db.left[k] # Absent /\ ~Expired(k)
  /\ db' = [db EXCEPT !.left =
              [k \in Keys |-> IF @[k] = Absent \/ Expired(k)
                              THEN @[k] ELSE @[k] - 1]]
  /\ UNCHANGED <<phase, file, handle, cursor, pc, req, reply, at, acked>>

\* Mutants: the cleanup deletes from one of the two maps only.
SweptValues(d) ==
  [d EXCEPT !.store = [k \in Keys |-> IF Expired(k) THEN Absent ELSE @[k]]]

SweptDeadlines(d) ==
  [d EXCEPT !.left = [k \in Keys |-> IF Expired(k) THEN Absent ELSE @[k]]]

Swept(d) ==
  LET kept(map) == [k \in Keys |-> IF Expired(k) THEN Absent ELSE map[k]]
  IN  [d EXCEPT !.store = kept(@), !.left = kept(@)]

Cleanup ==
  /\ phase = "up"
  /\ \E k \in Keys : Expired(k)
  /\ db' = Swept(db)
  /\ UNCHANGED <<phase, file, handle, cursor, pc, req, reply, at, acked>>

-----------------------------------------------------------------------------
Crash ==
  /\ phase # "down"
  /\ Die
  /\ UNCHANGED <<file, acked>>

\* The process dies inside the write of a record.
CrashInWrite(c, r) ==
  /\ Received(c, r)
  /\ Writable(r)
  /\ handle = "open" /\ TornWrites /\ Len(file) < MaxFile
  /\ file' = Append(file, Torn)
  /\ Die
  /\ UNCHANGED acked

\* Mutant: the replay misses the first record.
StartPastFirst ==
  /\ phase = "down"
  /\ phase' = "rebuilding"
  /\ handle' = "open"
  /\ cursor' = 2
  /\ UNCHANGED <<db, file, pc, req, reply, at, acked>>

\* main, up to NewServer and its call of RebuildFromPersistence.
Start ==
  /\ phase = "down"
  /\ phase' = "rebuilding"
  /\ handle' = "open"
  /\ cursor' = 1
  /\ UNCHANGED <<db, file, pc, req, reply, at, acked>>

\* NewServer warns that it cannot open the log, and the server goes on.
StartWithoutLog ==
  /\ phase = "down"
  /\ ReadMayFail
  /\ phase' = "up"
  /\ UNCHANGED <<db, file, handle, cursor, pc, req, reply, at, acked>>

\* LoadRequests stops at the end of the file or at what it cannot parse.
MoreToReplay == cursor \in DOMAIN file /\ file[cursor] # Torn

Replay ==
  /\ phase = "rebuilding"
  /\ MoreToReplay
  /\ ~Unreplayable(file[cursor])
  /\ db' = Replayed(db, file[cursor])
  /\ cursor' = cursor + 1
  /\ UNCHANGED <<phase, file, handle, pc, req, reply, at, acked>>

ReplayPanics ==
  /\ phase = "rebuilding"
  /\ MoreToReplay
  /\ Unreplayable(file[cursor])
  /\ Die
  /\ UNCHANGED <<file, acked>>

\* NewServer returns and Server.Start accepts connections.
Serve ==
  /\ phase = "rebuilding"
  /\ ~MoreToReplay
  /\ phase' = "up"
  /\ UNCHANGED <<db, file, handle, cursor, pc, req, reply, at, acked>>

(***************************************************************************)
(* LoadRequests takes a read that fails for the end of the log; where its  *)
(* Seek fails, NewServer warns and nothing is replayed.  The server goes   *)
(* on with the maps as they are.                                           *)
(***************************************************************************)
ReadFails ==
  /\ phase = "rebuilding"
  /\ ReadMayFail
  /\ phase' = "up"
  /\ UNCHANGED <<db, file, handle, cursor, pc, req, reply, at, acked>>

Next ==
  \/ \E c \in Conns : \E r \in Requests[c] :
       \/ OpenLog(c, r)
       \/ OpenLogFails(c, r)
       \/ LogRequest(c, r)
       \/ LogRequestFails(c, r)
       \/ KeyMissing(c, r)
       \/ CrashInWrite(c, r)
       \/ HandleGet(c, r)
       \/ ClearDisk(c, r)
       \/ ClearDiskFails(c, r)
  \/ \E c \in Conns : Execute(c) \/ ClearMemory(c)
  \/ Tick
  \/ Cleanup
  \/ Crash
  \/ Start
  \/ StartWithoutLog
  \/ Replay
  \/ ReplayPanics
  \/ ReadFails
  \/ Serve

Spec == Init /\ [][Next]_vars

(***************************************************************************)
(* The clock runs and the cleanup goroutine, which loops for ever, is      *)
(* scheduled again and again.  Clients, the disk and crashes owe nothing.  *)
(***************************************************************************)
FairSpec == Spec /\ WF_vars(Tick) /\ WF_vars(Cleanup)

-----------------------------------------------------------------------------
(***************************************************************************)
(* Write-ahead durability.  A command answered OK is in the log, at the    *)
(* place LogRequest wrote it, until a FLUSHDB truncates the log: through   *)
(* crashes and restarts, other connections' writes, failed and torn        *)
(* writes, and a handle that a failed FLUSHDB left closed.  (A command     *)
(* whose record a FLUSHDB removed while it was in flight is not counted.)  *)
(***************************************************************************)
AckedOnDisk ==
  \A a \in acked : a.pos \in DOMAIN file /\ file[a.pos] = a.rec

(***************************************************************************)
(* A deadline never outlives its value.  The cleanup goroutine, FLUSHDB    *)
(* and a restart drop both together; a deadline left behind would make the *)
(* cleanup delete the value a later SET without "exp" gives the key.       *)
(***************************************************************************)
NoOrphanDeadline ==
  \A k \in Keys : db.left[k] # Absent => db.store[k] # Absent

(***************************************************************************)
(* A key with a deadline is gone some time after it, whatever the          *)
(* connections do meanwhile (they can send finitely many SETs here).       *)
(***************************************************************************)
ExpiredKeysGo ==
  \A k \in Keys : db.left[k] # Absent ~> db.store[k] = Absent
=============================================================================
