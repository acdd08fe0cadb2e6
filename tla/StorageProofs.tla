--------------------------- MODULE StorageProofs ----------------------------
(***************************************************************************)
(* Theorems about Storage, for every set of keys, of connections and of    *)
(* requests, and for a disk that may fail in every way Storage knows.      *)
(***************************************************************************)
EXTENDS Storage, CommandsProofs

-----------------------------------------------------------------------------
LEMMA SweptType ==
  ASSUME NEW d \in Database
  PROVE  Swept(d) \in Database
  BY DEF Swept, Database

LEMMA RecordType ==
  ASSUME NEW r \in Request, Writable(r)
  PROVE  RecordOf(r) \in Record
  BY DEF Request, Writable, RecordOf, Optional, Record

-----------------------------------------------------------------------------
(***************************************************************************)
(* The inductive invariant.  TypeOK alone is not inductive, since Execute  *)
(* runs the request of a goroutine whatever it is, nor is AckedOnDisk,     *)
(* since Execute acknowledges the place a goroutine remembers: between its *)
(* two halves a command has a request, and its record is at that place.    *)
(***************************************************************************)
LoggedOnDisk ==
  \A c \in Conns : pc[c] = "logged" =>
    /\ req[c] \in Request
    /\ Writable(req[c])
    /\ at[c] # 0 => at[c] \in DOMAIN file /\ file[at[c]] = RecordOf(req[c])

IInv == TypeOK /\ LoggedOnDisk /\ AckedOnDisk

\* A step that appends to the log leaves every place already in it.
LEMMA AppendKeeps ==
  ASSUME NEW S, NEW f \in Seq(S), NEW e \in S, NEW i \in DOMAIN f
  PROVE  i \in DOMAIN Append(f, e) /\ Append(f, e)[i] = f[i]
  OBVIOUS

LEMMA AppendType ==
  ASSUME NEW S, NEW f \in Seq(S), NEW e \in S
  PROVE  Append(f, e) \in Seq(S)
  OBVIOUS

LEMMA NoReplyType == NoReply \in Reply /\ Error \in Reply
  BY DEF NoReply, Error, Reply, Element

LEMMA InitInvariant == Init => IInv
<1> SUFFICES ASSUME Init PROVE IInv
  OBVIOUS
<1>1. TypeOK
  <2>1. file \in Seq(Record \cup {Torn})
    BY StorageAssumption DEF Init
  <2> QED
    BY <2>1, NewDatabaseType, NoReplyType DEF Init, TypeOK
<1>2. LoggedOnDisk /\ AckedOnDisk
  BY DEF Init, LoggedOnDisk, AckedOnDisk
<1> QED
  BY <1>1, <1>2 DEF IInv

\* A process that ends leaves nothing but the file to be checked.
LEMMA DieInvariant ==
  ASSUME IInv, Die, UNCHANGED acked,
         \/ UNCHANGED file
         \/ file' = Append(file, Torn)
  PROVE  IInv'
<1> USE DEF IInv
<1>1. file' \in Seq(Record \cup {Torn})
  <2>1. file \in Seq(Record \cup {Torn})
    BY DEF TypeOK
  <2> QED
    BY <2>1, AppendType
<1>2. TypeOK'
  BY <1>1, NewDatabaseType, NoReplyType DEF TypeOK, Die
<1>3. LoggedOnDisk'
  BY DEF Die, LoggedOnDisk
<1>4. AckedOnDisk'
  BY AppendKeeps DEF AckedOnDisk, TypeOK
<1> QED
  BY <1>2, <1>3, <1>4

\* LogRequest puts the record of the request where it says it does.
LEMMA LogRequestInvariant ==
  ASSUME IInv, NEW c \in Conns, NEW r \in Requests[c], LogRequest(c, r)
  PROVE  IInv'
<1>1. r \in Request /\ RecordOf(r) \in Record
  BY StorageAssumption, RecordType DEF LogRequest
<1>2. file \in Seq(Record \cup {Torn}) /\ Len(file) + 1 \in Nat
  BY DEF IInv, TypeOK
<1>3. file' = Append(file, RecordOf(r)) /\ file' \in Seq(Record \cup {Torn})
  BY <1>1, <1>2, AppendType DEF LogRequest
<1>4. \A i \in DOMAIN file : i \in DOMAIN file' /\ file'[i] = file[i]
  BY <1>1, <1>2, <1>3, AppendKeeps
<1>5. Len(file) + 1 \in DOMAIN file' /\ file'[Len(file) + 1] = RecordOf(r)
  BY <1>1, <1>2, <1>3
<1>6. TypeOK'
  BY <1>1, <1>2, <1>3 DEF IInv, TypeOK, LogRequest
<1>7. LoggedOnDisk'
  <2> SUFFICES ASSUME NEW b \in Conns, pc'[b] = "logged"
               PROVE  /\ req'[b] \in Request
                      /\ Writable(req'[b])
                      /\ at'[b] # 0 => /\ at'[b] \in DOMAIN file'
                                       /\ file'[at'[b]] = RecordOf(req'[b])
    BY DEF LoggedOnDisk
  <2>1. CASE b = c
    BY <1>1, <1>5, <2>1 DEF IInv, TypeOK, LogRequest
  <2>2. CASE b # c
    BY <1>4, <2>2 DEF IInv, TypeOK, LoggedOnDisk, LogRequest
  <2> QED
    BY <2>1, <2>2
<1>8. AckedOnDisk'
  BY <1>4 DEF IInv, AckedOnDisk, LogRequest
<1> QED
  BY <1>6, <1>7, <1>8 DEF IInv

LEMMA LogRequestFailsInvariant ==
  ASSUME IInv, NEW c \in Conns, NEW r \in Requests[c], LogRequestFails(c, r)
  PROVE  IInv'
<1>1. file \in Seq(Record \cup {Torn})
  BY DEF IInv, TypeOK
<1>2. file' \in Seq(Record \cup {Torn})
  BY <1>1, AppendType DEF LogRequestFails
<1>3. \A i \in DOMAIN file : i \in DOMAIN file' /\ file'[i] = file[i]
  BY <1>1, AppendKeeps DEF LogRequestFails
<1>4. TypeOK'
  BY <1>2, NoReplyType DEF IInv, TypeOK, LogRequestFails, Answer
<1>5. LoggedOnDisk'
  BY <1>3 DEF IInv, TypeOK, LoggedOnDisk, LogRequestFails, Answer
<1>6. AckedOnDisk'
  BY <1>3 DEF IInv, AckedOnDisk, LogRequestFails
<1> QED
  BY <1>4, <1>5, <1>6 DEF IInv

\* Execute acknowledges a place that LoggedOnDisk knows to hold the record.
LEMMA ExecuteInvariant ==
  ASSUME IInv, NEW c \in Conns, Execute(c)
  PROVE  IInv'
<1> DEFINE out == HandleCommand(db, req[c])
<1>1. pc[c] = "logged" /\ req[c] \in Request /\ RecordOf(req[c]) \in Record
  BY RecordType DEF IInv, LoggedOnDisk, Execute
<1>2. out \in Outcome
  BY <1>1, HandleCommandType DEF IInv, TypeOK
<1>3. CASE out.reply.status = "PANIC"
  BY <1>3, DieInvariant DEF Execute
<1>4. CASE out.reply.status # "PANIC"
  <2>1. /\ db' = out.db
        /\ Answer(c, out.reply)
        /\ Acknowledge(c, out.reply)
        /\ at' = [at EXCEPT ![c] = 0]
        /\ UNCHANGED <<phase, file, handle, cursor, req>>
    BY <1>4 DEF Execute
  <2>2. acked' \subseteq acked \cup {[pos |-> at[c], rec |-> RecordOf(req[c])]}
    BY <2>1 DEF Acknowledge
  <2>3. acked' # acked => at[c] # 0
    BY <2>1 DEF Acknowledge
  <2>4. TypeOK'
    <3>1. out.db \in Database /\ out.reply \in Reply
      BY <1>2 DEF Outcome
    <3>2. acked' \subseteq [pos : Nat, rec : Record]
      BY <1>1, <2>2 DEF IInv, TypeOK
    <3> QED
      BY <2>1, <3>1, <3>2 DEF IInv, TypeOK, Answer
  <2>5. LoggedOnDisk'
    BY <2>1 DEF IInv, TypeOK, LoggedOnDisk, Answer
  <2>6. AckedOnDisk'
    <3>1. at[c] # 0 => /\ at[c] \in DOMAIN file
                       /\ file[at[c]] = RecordOf(req[c])
      BY <1>1 DEF IInv, LoggedOnDisk
    <3> QED
      BY <2>1, <2>2, <2>3, <3>1 DEF IInv, AckedOnDisk
  <2> QED
    BY <2>4, <2>5, <2>6 DEF IInv
<1> QED
  BY <1>3, <1>4

\* FLUSHDB forgets the places it removes from the file.
LEMMA FlushInvariant ==
  ASSUME IInv, NEW c \in Conns, NEW r \in Requests[c],
         ClearDisk(c, r) \/ ClearDiskFails(c, r)
  PROVE  IInv'
<1> USE DEF IInv, ReadsFlush, Handles, Truncated, Answer
<1>1. r \in Request
  BY StorageAssumption
<1>2. /\ ClearDiskFails(c, r) => pc' = [pc EXCEPT ![c] = "idle"]
      /\ ClearDisk(c, r) => pc' = [pc EXCEPT ![c] = "cleared"]
  BY DEF ClearDisk, ClearDiskFails
<1>3. CASE file' = <<>> /\ at' = [d \in Conns |-> 0] /\ acked' = {}
  <2>1. ClearDisk(c, r) => TypeOK'
    BY <1>1, <1>2, <1>3 DEF TypeOK, ClearDisk
  <2>2. ClearDiskFails(c, r) => TypeOK'
    <3>1. ClearDiskFails(c, r) => reply' \in [Conns -> Reply]
      BY NoReplyType DEF TypeOK, ClearDiskFails
    <3>2. ClearDiskFails(c, r) =>
            pc' \in [Conns -> {"idle", "logged", "cleared"}]
      BY DEF TypeOK, ClearDiskFails
    <3>3. ClearDiskFails(c, r) => /\ handle' = "closed"
                                  /\ UNCHANGED <<phase, db, cursor, req>>
      BY DEF ClearDiskFails
    <3> QED
      BY <1>3, <3>1, <3>2, <3>3 DEF TypeOK
  <2>3. LoggedOnDisk'
    BY <1>1, <1>2, <1>3 DEF TypeOK, LoggedOnDisk, ClearDisk, ClearDiskFails
  <2>4. AckedOnDisk'
    BY <1>3 DEF AckedOnDisk
  <2> QED
    BY <2>1, <2>2, <2>3, <2>4
<1>4. CASE ClearDiskFails(c, r) /\ UNCHANGED <<file, at, acked>>
  <2>1. TypeOK'
    BY <1>4, NoReplyType DEF TypeOK, ClearDiskFails
  <2>2. LoggedOnDisk'
    BY <1>2, <1>4 DEF TypeOK, LoggedOnDisk, ClearDiskFails
  <2>3. AckedOnDisk'
    BY <1>4 DEF AckedOnDisk
  <2> QED
    BY <2>1, <2>2, <2>3
<1> QED
  BY <1>3, <1>4 DEF ClearDisk, ClearDiskFails

\* Steps that touch neither the log nor the places in it: <db, reply>.
LEMMA ElsewhereInvariant ==
  ASSUME IInv, UNCHANGED <<file, at, acked, req>>,
         phase' \in {"down", "rebuilding", "up"}, db' \in Database,
         handle' \in {"none", "open", "closed"}, cursor' \in Nat,
         reply' \in [Conns -> Reply],
         \/ UNCHANGED pc
         \/ \E c \in Conns : pc' = [pc EXCEPT ![c] = "idle"]
  PROVE  IInv'
<1> USE DEF IInv
<1>1. TypeOK'
  BY DEF TypeOK
<1>2. LoggedOnDisk'
  BY DEF TypeOK, LoggedOnDisk
<1>3. AckedOnDisk'
  BY DEF AckedOnDisk
<1> QED
  BY <1>1, <1>2, <1>3

LEMMA ClearMemoryInvariant ==
  ASSUME IInv, NEW c \in Conns, ClearMemory(c)
  PROVE  IInv'
<1>1. [status |-> "OK", value |-> Absent] \in Reply
  BY DEF Reply, Element
<1>2. reply' \in [Conns -> Reply]
  BY <1>1 DEF IInv, TypeOK, ClearMemory, Answer
<1> QED
  BY <1>2, NewDatabaseType, ElsewhereInvariant
     DEF IInv, TypeOK, ClearMemory, Answer

LEMMA HandleGetInvariant ==
  ASSUME IInv, NEW c \in Conns, NEW r \in Requests[c], HandleGet(c, r)
  PROVE  IInv'
<1>1. db \in Database
  BY DEF IInv, TypeOK
<1>2. Get(db, r.key) \in Outcome
  BY <1>1, OkType, FailType DEF Get, Database, Element
<1>3. Get(db, r.key).reply \in Reply
  BY <1>2 DEF Outcome
<1> QED
  BY <1>3, ElsewhereInvariant DEF IInv, TypeOK, HandleGet

LEMMA OpenLogInvariant ==
  ASSUME IInv, NEW c \in Conns, NEW r \in Requests[c],
         OpenLog(c, r) \/ OpenLogFails(c, r)
  PROVE  IInv'
<1>1. OpenLog(c, r) => reply' \in [Conns -> Reply]
  BY DEF IInv, TypeOK, OpenLog
<1>2. OpenLogFails(c, r) => reply' \in [Conns -> Reply]
  BY NoReplyType DEF IInv, TypeOK, OpenLogFails, Answer
<1> QED
  BY <1>1, <1>2, ElsewhereInvariant
     DEF IInv, TypeOK, OpenLog, OpenLogFails, Answer

LEMMA ClockInvariant ==
  ASSUME IInv, Tick \/ Cleanup
  PROVE  IInv'
<1>1. db \in Database
  BY DEF IInv, TypeOK
<1>2. Tick => db' \in Database
  BY <1>1 DEF Tick, Expired, Database
<1>3. Cleanup => db' \in Database
  BY <1>1, SweptType DEF Cleanup
<1> QED
  BY <1>2, <1>3, ElsewhereInvariant DEF IInv, TypeOK, Tick, Cleanup

LEMMA ReplayInvariant ==
  ASSUME IInv,
         Start \/ StartWithoutLog \/ Replay \/ ReadFails \/ Serve
  PROVE  IInv'
<1>1. Replay => db' \in Database
  <2> SUFFICES ASSUME Replay PROVE db' \in Database
    OBVIOUS
  <2>1. file[cursor] \in Record \cup {Torn} /\ file[cursor] # Torn
    BY DEF IInv, TypeOK, Replay, MoreToReplay
  <2> QED
    BY <2>1, ReplayedType DEF IInv, TypeOK, Replay
<1>2. Start => cursor' \in Nat
  BY DEF Start
<1>3. Replay => cursor' \in Nat
  BY DEF Replay, IInv, TypeOK
<1> QED
  BY <1>1, <1>2, <1>3, ElsewhereInvariant
     DEF IInv, TypeOK, Start, StartWithoutLog, Replay, ReadFails, Serve

-----------------------------------------------------------------------------
LEMMA NextInvariant == IInv /\ [Next]_vars => IInv'
<1> SUFFICES ASSUME IInv, [Next]_vars PROVE IInv'
  OBVIOUS
<1>1. ASSUME NEW c \in Conns, NEW r \in Requests[c], LogRequest(c, r)
      PROVE  IInv'
  BY <1>1, LogRequestInvariant
<1>2. ASSUME NEW c \in Conns, NEW r \in Requests[c], LogRequestFails(c, r)
      PROVE  IInv'
  BY <1>2, LogRequestFailsInvariant
<1>3. ASSUME NEW c \in Conns, NEW r \in Requests[c],
             KeyMissing(c, r) \/ CrashInWrite(c, r)
      PROVE  IInv'
  BY <1>3, DieInvariant DEF KeyMissing, CrashInWrite
<1>4. ASSUME NEW c \in Conns, NEW r \in Requests[c], HandleGet(c, r)
      PROVE  IInv'
  BY <1>4, HandleGetInvariant
<1>5. ASSUME NEW c \in Conns, NEW r \in Requests[c],
             ClearDisk(c, r) \/ ClearDiskFails(c, r)
      PROVE  IInv'
  BY <1>5, FlushInvariant
<1>6. ASSUME NEW c \in Conns, Execute(c)
      PROVE  IInv'
  BY <1>6, ExecuteInvariant
<1>7. ASSUME NEW c \in Conns, ClearMemory(c)
      PROVE  IInv'
  BY <1>7, ClearMemoryInvariant
<1>8. CASE Tick \/ Cleanup
  BY <1>8, ClockInvariant
<1>9. CASE Crash \/ ReplayPanics
  BY <1>9, DieInvariant DEF Crash, ReplayPanics
<1>10. CASE Start \/ StartWithoutLog \/ Replay \/ ReadFails \/ Serve
  BY <1>10, ReplayInvariant
<1>11. CASE UNCHANGED vars
  BY <1>11, ElsewhereInvariant DEF vars, IInv, TypeOK
<1>12. ASSUME NEW c \in Conns, NEW r \in Requests[c],
              OpenLog(c, r) \/ OpenLogFails(c, r)
       PROVE  IInv'
  BY <1>12, OpenLogInvariant
<1> QED
  BY <1>1, <1>2, <1>3, <1>4, <1>5, <1>6, <1>7, <1>8, <1>9, <1>10, <1>11, <1>12
     DEF Next

LEMMA Invariance == Spec => []IInv
<1>1. Init => IInv
  BY InitInvariant
<1>2. IInv /\ [Next]_vars => IInv'
  BY NextInvariant
<1> QED
  BY <1>1, <1>2, PTL DEF Spec

(***************************************************************************)
(* Every state of every server has its type: in particular no sequence of  *)
(* commands, crashes and replays puts anything but a numeral or a word in  *)
(* the map, and no overflow leaves the range of an int.                    *)
(***************************************************************************)
THEOREM TypeCorrect == Spec => []TypeOK
<1>1. IInv => TypeOK
  BY DEF IInv
<1> QED
  BY <1>1, Invariance, PTL

(***************************************************************************)
(* A command answered OK is in the log where LogRequest wrote it, for any  *)
(* number of connections, any requests, and a disk that fails or tears     *)
(* writes at will, through any number of crashes.                          *)
(***************************************************************************)
THEOREM AckedStaysOnDisk == Spec => []AckedOnDisk
<1>1. IInv => AckedOnDisk
  BY DEF IInv
<1> QED
  BY <1>1, Invariance, PTL

-----------------------------------------------------------------------------
(***************************************************************************)
(* Deadlines.  The operations change store and left key by key, so what is *)
(* true of a database before them is true after.                           *)
(***************************************************************************)
NoOrphan(d) == \A k \in Keys : d.left[k] # Absent => d.store[k] # Absent

LEMMA NewDatabaseNoOrphan == NoOrphan(NewDatabase)
  BY DEF NoOrphan, NewDatabase

LEMMA SetNoOrphan ==
  ASSUME NEW d \in Database, NoOrphan(d), NEW key,
         NEW value \in Text \cup {Empty}, NEW ttl
  PROVE  NoOrphan(Set(d, key, value, ttl).db)
<1>1. CASE key \in Keys /\ value # Empty
  <2> DEFINE e == Set(d, key, value, ttl).db
  <2>1. e.store = [d.store EXCEPT ![key] = value]
    BY <1>1 DEF Set, Ok, Database
  <2>2. e.left = [d.left EXCEPT ![key] = IF ttl > 0 THEN ttl ELSE @]
    BY <1>1 DEF Set, Ok, Database
  <2>3. value # Absent
    BY <1>1, CommandsAssumption
  <2> HIDE DEF e
  <2>4. NoOrphan(e)
    BY <1>1, <2>1, <2>2, <2>3 DEF NoOrphan, Database
  <2> QED
    BY <2>4 DEF e
<1>2. CASE ~(key \in Keys /\ value # Empty)
  BY <1>2 DEF Set, Fail
<1> QED
  BY <1>1, <1>2

LEMMA IncrNoOrphan ==
  ASSUME NEW d \in Database, NoOrphan(d), NEW key, NEW offset \in Number
  PROVE  NoOrphan(Incr(d, key, offset).db)
<1>1. CASE key \in Keys /\ d.store[key] \in Number
  <2> DEFINE e == Incr(d, key, offset).db
             sum == Wrap(d.store[key] + offset)
  <2>1. e.store = [d.store EXCEPT ![key] = sum] /\ e.left = d.left
    BY <1>1 DEF Incr, Ok, Database
  <2>2. d.store[key] + offset \in Int
    BY <1>1, CommandsAssumption DEF Number
  <2>3. sum \in Number /\ sum # Absent
    BY <2>2, WrapType, CommandsAssumption DEF Text
  <2> HIDE DEF e, sum
  <2>4. NoOrphan(e)
    BY <1>1, <2>1, <2>3 DEF NoOrphan, Database
  <2> QED
    BY <2>4 DEF e
<1>2. CASE ~(key \in Keys /\ d.store[key] \in Number)
  BY <1>2 DEF Incr, Fail
<1> QED
  BY <1>1, <1>2

\* The list operations touch neither the values nor the deadlines.
LEMMA ListNoOrphan ==
  ASSUME NEW d \in Database, NoOrphan(d), NEW key, NEW value
  PROVE  /\ NoOrphan(Push(d, key, value).db)
         /\ NoOrphan(Lpop(d, key).db)
         /\ NoOrphan(Rpop(d, key).db)
<1>1. ASSUME NEW list
      PROVE  NoOrphan([d EXCEPT !.lists[key] = list])
  BY DEF NoOrphan, Database
<1>2. NoOrphan(Push(d, key, value).db)
  BY <1>1 DEF Push, Ok, Fail
<1>3. NoOrphan(Lpop(d, key).db)
  BY <1>1 DEF Lpop, Ok, Fail
<1>4. NoOrphan(Rpop(d, key).db)
  BY <1>1 DEF Rpop, Ok, Fail
<1> QED
  BY <1>2, <1>3, <1>4

LEMMA HandleCommandNoOrphan ==
  ASSUME NEW d \in Database, NoOrphan(d), NEW r \in Request
  PROVE  NoOrphan(HandleCommand(d, r).db)
<1> DEFINE cmd == ToUpper(r.cmd)
           ttl == IF r.exp = Absent THEN 0 ELSE r.exp
<1>1. CASE cmd = "SET"
  <2>1. CASE r.exp = Wide \/ r.value = Absent
    BY <1>1, <2>1 DEF HandleCommand, Fail, Panic
  <2>2. CASE r.exp # Wide /\ r.value # Absent
    <3>1. r.value \in Text \cup {Empty}
      BY <2>2 DEF Request
    <3>2. HandleCommand(d, r) = Set(d, r.key, r.value, ttl)
      BY <1>1, <2>2 DEF HandleCommand
    <3> QED
      BY <3>1, <3>2, SetNoOrphan
  <2> QED
    BY <2>1, <2>2
<1>2. CASE cmd = "INCR"
  BY <1>2, IncrNoOrphan DEF HandleCommand, Fail
<1>3. CASE cmd = "PUSH"
  BY <1>3, ListNoOrphan DEF HandleCommand, Fail
<1>4. CASE cmd = "LPOP"
  <2>1. Returned(Lpop(d, r.key)).db = Lpop(d, r.key).db
    BY PopType DEF Returned, Outcome
  <2> QED
    BY <1>4, <2>1, ListNoOrphan DEF HandleCommand
<1>5. CASE cmd = "RPOP"
  <2>1. Returned(Rpop(d, r.key)).db = Rpop(d, r.key).db
    BY PopType DEF Returned, Outcome
  <2> QED
    BY <1>5, <2>1, ListNoOrphan DEF HandleCommand
<1>6. CASE cmd \notin LoggedCommands
  BY <1>6 DEF HandleCommand, LoggedCommands, Fail
<1> QED
  BY <1>1, <1>2, <1>3, <1>4, <1>5, <1>6 DEF LoggedCommands

LEMMA ReplayedNoOrphan ==
  ASSUME NEW d \in Database, NoOrphan(d), NEW rec \in Record,
         ~Unreplayable(rec)
  PROVE  NoOrphan(Replayed(d, rec))
<1>1. CASE rec.cmd = "SET"
  <2>1. rec.value \in Text \cup {Empty}
    BY <1>1 DEF Unreplayable, Record
  <2> QED
    BY <1>1, <2>1, SetNoOrphan DEF Replayed
<1>2. CASE rec.cmd = "INCR"
  BY <1>2, IncrNoOrphan DEF Replayed
<1>3. CASE rec.cmd \in {"PUSH", "LPOP", "RPOP"}
  BY <1>3, ListNoOrphan DEF Replayed
<1>4. CASE rec.cmd \notin LoggedCommands
  BY <1>4 DEF Replayed, LoggedCommands
<1> QED
  BY <1>1, <1>2, <1>3, <1>4 DEF LoggedCommands

LEMMA SweptNoOrphan ==
  ASSUME NEW d \in Database, NoOrphan(d)
  PROVE  NoOrphan(Swept(d))
  BY DEF NoOrphan, Swept, Database

LEMMA NextNoOrphan ==
  ASSUME IInv, NoOrphan(db), [Next]_vars
  PROVE  NoOrphan(db')
<1> USE DEF IInv, TypeOK
<1>1. ASSUME NEW c \in Conns, Execute(c)
      PROVE  NoOrphan(db')
  <2>1. req[c] \in Request
    BY <1>1 DEF LoggedOnDisk, Execute
  <2> QED
    BY <1>1, <2>1, HandleCommandNoOrphan, NewDatabaseNoOrphan
       DEF Execute, Die
<1>2. CASE Replay
  <2>1. file[cursor] \in Record
    BY <1>2 DEF Replay, MoreToReplay
  <2> QED
    BY <1>2, <2>1, ReplayedNoOrphan DEF Replay
<1>3. CASE Tick
  BY <1>3 DEF Tick, NoOrphan, Database
<1>4. CASE Cleanup
  BY <1>4, SweptNoOrphan DEF Cleanup
<1>5. CASE db' = NewDatabase
  BY <1>5, NewDatabaseNoOrphan
<1>6. CASE UNCHANGED db
  BY <1>6
<1>7. \/ \E c \in Conns : Execute(c)
      \/ Replay \/ Tick \/ Cleanup
      \/ db' = NewDatabase
      \/ UNCHANGED db
  BY DEF Next, vars, LogRequest, LogRequestFails, KeyMissing, CrashInWrite,
         HandleGet, ClearDisk, ClearDiskFails, ClearMemory, Crash, Start,
         StartWithoutLog, OpenLog, OpenLogFails, ReplayPanics, ReadFails,
         Serve, Die
<1> QED
  BY <1>1, <1>2, <1>3, <1>4, <1>5, <1>6, <1>7

(***************************************************************************)
(* No deadline outlives its value, so the cleanup never deletes a value    *)
(* for the sake of a deadline that another, forgotten value left behind.   *)
(***************************************************************************)
THEOREM NoDeadlineIsOrphaned == Spec => []NoOrphanDeadline
<1>1. Init => NoOrphanDeadline
  BY NewDatabaseNoOrphan DEF Init, NoOrphan, NoOrphanDeadline
<1>2. IInv /\ NoOrphanDeadline /\ [Next]_vars => NoOrphanDeadline'
  BY NextNoOrphan DEF NoOrphan, NoOrphanDeadline
<1> QED
  BY <1>1, <1>2, Invariance, PTL DEF Spec
=============================================================================
