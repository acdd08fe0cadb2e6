--------------------------- MODULE RecoveryProofs ---------------------------
(***************************************************************************)
(* Theorems about Recovery: what a restart rebuilds from the log, for      *)
(* every log, and not only for the logs of a small instance.               *)
(***************************************************************************)
EXTENDS Recovery, StorageProofs, WellFoundedInduction

-----------------------------------------------------------------------------
(***************************************************************************)
(* Induction over the natural numbers as a statement about sets, derived   *)
(* from the well-foundedness of < on Nat, and what follows from it about   *)
(* functions that fold a sequence.                                         *)
(***************************************************************************)
\* A set of numbers that holds 0 and every successor of its members is Nat.
LEMMA NatInductionOnSets ==
  ASSUME NEW S \in SUBSET Nat, 0 \in S, \A n \in S : n + 1 \in S
  PROVE  S = Nat
<1> SUFFICES ASSUME Nat \ S # {} PROVE FALSE
  OBVIOUS
<1>1. PICK x \in Nat \ S : \A y \in Nat \ S : ~ (<<y, x>> \in OpToRel(<, Nat))
  <2> DEFINE T == Nat \ S
             L == OpToRel(<, Nat)
  <2>1. IsWellFoundedOn(L, Nat)
    BY NatLessThanWellFounded
  <2>2. T \subseteq Nat /\ T # {}
    OBVIOUS
  <2> HIDE DEF T, L
  <2>3. \E x \in T : \A y \in T : ~ (<<y, x>> \in L)
    BY <2>1, <2>2, WFMin
  <2> QED
    BY <2>3 DEF T, L
<1>2. x - 1 \in Nat /\ x - 1 < x /\ (x - 1) + 1 = x
  OBVIOUS
<1>3. <<x - 1, x>> \in OpToRel(<, Nat)
  BY <1>2 DEF OpToRel
<1>4. x - 1 \in S
  BY <1>1, <1>2, <1>3
<1> QED
  BY <1>2, <1>4

\* The value of a fold over r, up to each index: base, then step by step.
FoldingsOf(D, step, base, r, n) ==
  {f \in [0 .. n -> D] : /\ f[0] = base
                         /\ \A i \in 1 .. n : f[i] = step[<<f[i - 1], r[i]>>]}

\* A sequence can be folded.
LEMMA FoldExists ==
  ASSUME NEW D, NEW E, NEW step \in [D \X E -> D], NEW base \in D,
         NEW r \in Seq(E)
  PROVE  FoldingsOf(D, step, base, r, Len(r)) # {}
<1> DEFINE S == {n \in Nat : n <= Len(r) => FoldingsOf(D, step, base, r, n) # {}}
<1>1. 0 \in S
  <2>1. [i \in 0 .. 0 |-> base] \in FoldingsOf(D, step, base, r, 0)
    BY DEF FoldingsOf
  <2> QED
    BY <2>1
<1>2. ASSUME NEW n \in S, n + 1 <= Len(r)
      PROVE  FoldingsOf(D, step, base, r, n + 1) # {}
  <2>1. n \in Nat /\ n <= Len(r) /\ Len(r) \in Nat
    BY <1>2
  <2>2. PICK f : f \in FoldingsOf(D, step, base, r, n)
    BY <2>1
  <2> DEFINE g == [i \in 0 .. n + 1 |->
                     IF i = n + 1 THEN step[<<f[n], r[n + 1]>>] ELSE f[i]]
  <2>3. r[n + 1] \in E
    BY <1>2, <2>1
  <2>4. f \in [0 .. n -> D] /\ f[n] \in D /\ f[0] = base
    BY <2>1, <2>2 DEF FoldingsOf
  <2>5. step[<<f[n], r[n + 1]>>] \in D
    BY <2>3, <2>4
  <2>6. g \in [0 .. n + 1 -> D]
    BY <2>1, <2>4, <2>5
  <2>7. g[0] = base
    BY <2>1, <2>4
  <2>8. ASSUME NEW i \in 1 .. n + 1
        PROVE  g[i] = step[<<g[i - 1], r[i]>>]
    <3>1. CASE i = n + 1
      <4>1. i \in 0 .. n + 1 /\ i - 1 = n /\ n \in 0 .. n + 1 /\ n # n + 1
        BY <2>1, <3>1
      <4>2. g[i] = step[<<f[n], r[n + 1]>>] /\ g[i - 1] = f[n]
        BY <3>1, <4>1
      <4> QED
        BY <3>1, <4>2
    <3>2. CASE i # n + 1
      <4>1. i \in 1 .. n /\ i - 1 \in 0 .. n + 1 /\ i - 1 # n + 1
        BY <2>1, <3>2
      <4> QED
        BY <2>1, <2>2, <3>2, <4>1 DEF FoldingsOf
    <3> QED
      BY <3>1, <3>2
  <2> HIDE DEF g
  <2>9. g \in FoldingsOf(D, step, base, r, n + 1)
    BY <2>6, <2>7, <2>8 DEF FoldingsOf
  <2> QED
    BY <2>9
<1>3. \A n \in S : n + 1 \in S
  BY <1>2
<1>4. S = Nat
  <2> HIDE DEF S
  <2>1. S \in SUBSET Nat
    BY DEF S
  <2> QED
    BY <1>1, <1>3, <2>1, NatInductionOnSets
<1>5. Len(r) \in S
  BY <1>4
<1> QED
  BY <1>5

\* Folds of two sequences agree as long as the sequences do.
LEMMA FoldsAgree ==
  ASSUME NEW D, NEW step, NEW base, NEW q, NEW r,
         NEW m \in Nat, NEW n \in Nat, m <= n,
         \A i \in 1 .. m : q[i] = r[i],
         NEW f \in FoldingsOf(D, step, base, q, m),
         NEW g \in FoldingsOf(D, step, base, r, n)
  PROVE  \A i \in 0 .. m : f[i] = g[i]
<1> DEFINE S == {i \in Nat : i <= m => f[i] = g[i]}
<1>1. 0 \in S
  BY DEF FoldingsOf
<1>2. ASSUME NEW i \in S, i + 1 <= m
      PROVE  f[i + 1] = g[i + 1]
  <2>1. i \in Nat /\ i <= m /\ f[i] = g[i]
    BY <1>2
  <2>2. i + 1 \in 1 .. m /\ i + 1 \in 1 .. n /\ (i + 1) - 1 = i
    BY <1>2, <2>1
  <2>3. f[i + 1] = step[<<f[i], q[i + 1]>>] /\ g[i + 1] = step[<<g[i], r[i + 1]>>]
    BY <2>2 DEF FoldingsOf
  <2> QED
    BY <2>1, <2>2, <2>3
<1>3. \A i \in S : i + 1 \in S
  BY <1>2
<1>4. S = Nat
  <2> HIDE DEF S
  <2>1. S \in SUBSET Nat
    BY DEF S
  <2> QED
    BY <1>1, <1>3, <2>1, NatInductionOnSets
<1> QED
  BY <1>4

-----------------------------------------------------------------------------
(***************************************************************************)
(* A file without a torn record is loaded as it is, and the database that  *)
(* RebuildFromPersistence makes of it folds Replayed over its records.     *)
(***************************************************************************)
LEMMA LoadedWhole ==
  ASSUME NEW f \in Seq(Record)
  PROVE  LoadRequests(f) = f
<1>1. {i \in 1 .. Len(f) : f[i] = Torn} = {}
  BY StorageAssumption
<1> QED
  BY <1>1 DEF LoadRequests, SelectInSeq

\* Replayed as a function, so that it can be folded.
Turn == [p \in Database \X Record |-> Replayed(p[1], p[2])]

LEMMA TurnType ==
  /\ Turn \in [Database \X Record -> Database]
  /\ \A d \in Database, rec \in Record : Turn[<<d, rec>>] = Replayed(d, rec)
<1>1. \A d \in Database, rec \in Record : Replayed(d, rec) \in Database
  BY ReplayedType
<1> QED
  BY <1>1 DEF Turn

\* The states of the database during a replay of f, turn by turn.
Replays(f) == FoldingsOf(Database, Turn, NewDatabase, f, Len(f))

LEMMA RebuildIsFold ==
  ASSUME NEW f \in Seq(Record)
  PROVE  \E g \in Replays(f) : RebuildFromPersistence(f) = g[Len(f)]
<1> DEFINE n == Len(f)
           Eq(h) == h = [i \in 0 .. n |-> IF i = 0 THEN NewDatabase
                                          ELSE Replayed(h[i - 1], f[i])]
           h == CHOOSE x : Eq(x)
<1>1. PICK g : g \in FoldingsOf(Database, Turn, NewDatabase, f, n)
  <2>1. Turn \in [Database \X Record -> Database]
    BY TurnType
  <2>2. FoldingsOf(Database, Turn, NewDatabase, f, n) # {}
    BY <2>1, FoldExists, NewDatabaseType
  <2> QED
    BY <2>2
<1>2. g \in [0 .. n -> Database] /\ g[0] = NewDatabase /\ n \in Nat
  BY <1>1 DEF FoldingsOf
<1>3. \A i \in 1 .. n : g[i] = Replayed(g[i - 1], f[i])
  <2> TAKE i \in 1 .. n
  <2>1. i - 1 \in 0 .. n /\ f[i] \in Record
    BY <1>2
  <2>2. g[i - 1] \in Database
    BY <1>2, <2>1
  <2> QED
    BY <1>1, <2>1, <2>2, TurnType DEF FoldingsOf
<1>4. Eq(g)
  <2> DEFINE e == [i \in 0 .. n |-> IF i = 0 THEN NewDatabase
                                    ELSE Replayed(g[i - 1], f[i])]
  <2>1. \A i \in 0 .. n : i = 0 \/ i \in 1 .. n
    BY <1>2
  <2>2. \A i \in 0 .. n : g[i] = e[i]
    BY <1>2, <1>3, <2>1
  <2> HIDE DEF n
  <2> QED
    BY <1>2, <2>2
<1>5. Eq(h)
  BY <1>4
<1>6. RebuildFromPersistence(f) = h[n]
  BY LoadedWhole DEF RebuildFromPersistence
<1> DEFINE S == {i \in Nat : i <= n => h[i] = g[i]}
<1>7. 0 \in S
  BY <1>2, <1>5
<1>8. \A i \in S : i + 1 \in S
  <2> SUFFICES ASSUME NEW i \in S, i + 1 <= n PROVE h[i + 1] = g[i + 1]
    OBVIOUS
  <2>1. i \in Nat /\ h[i] = g[i] /\ i + 1 \in 0 .. n /\ i + 1 \in 1 .. n
    BY <1>2
  <2>2. (i + 1) - 1 = i /\ i + 1 # 0
    BY <2>1
  <2>3. h[i + 1] = Replayed(h[i], f[i + 1])
    <3> HIDE DEF h, n
    <3> QED
      BY <1>5, <2>1, <2>2
  <2> QED
    BY <1>3, <2>1, <2>2, <2>3
<1>9. S = Nat
  <2> HIDE DEF S
  <2>1. S \in SUBSET Nat
    BY DEF S
  <2> QED
    BY <1>7, <1>8, <2>1, NatInductionOnSets
<1>10. h[n] = g[n]
  BY <1>2, <1>9
<1> QED
  BY <1>1, <1>6, <1>10 DEF Replays

LEMMA RebuildType ==
  ASSUME NEW f \in Seq(Record)
  PROVE  RebuildFromPersistence(f) \in Database
<1>1. PICK g \in Replays(f) : RebuildFromPersistence(f) = g[Len(f)]
  BY RebuildIsFold
<1> QED
  BY <1>1 DEF Replays, FoldingsOf

LEMMA RebuildOfNothing == RebuildFromPersistence(<<>>) = NewDatabase
<1>1. <<>> \in Seq(Record) /\ Len(<<>>) = 0
  OBVIOUS
<1>2. PICK g \in Replays(<<>>) : RebuildFromPersistence(<<>>) = g[Len(<<>>)]
  BY <1>1, RebuildIsFold
<1> QED
  BY <1>1, <1>2 DEF Replays, FoldingsOf

\* One more record in the log is one more turn of the replay.
LEMMA RebuildAppend ==
  ASSUME NEW f \in Seq(Record), NEW rec \in Record
  PROVE  RebuildFromPersistence(Append(f, rec))
           = Replayed(RebuildFromPersistence(f), rec)
<1> DEFINE a == Append(f, rec)
           n == Len(f)
<1>1. /\ a \in Seq(Record) /\ Len(a) = n + 1 /\ n \in Nat
      /\ a[n + 1] = rec /\ \A i \in 1 .. n : f[i] = a[i]
  OBVIOUS
<1> HIDE DEF a, n
<1>2. PICK g \in Replays(f) : RebuildFromPersistence(f) = g[n]
  BY RebuildIsFold DEF n
<1>3. PICK h \in Replays(a) : RebuildFromPersistence(a) = h[n + 1]
  BY <1>1, RebuildIsFold
<1>4. g \in FoldingsOf(Database, Turn, NewDatabase, f, n)
  BY <1>2 DEF Replays, n
<1>5. h \in FoldingsOf(Database, Turn, NewDatabase, a, n + 1)
  BY <1>1, <1>3 DEF Replays
<1>6. n + 1 \in Nat /\ n <= n + 1
  BY <1>1
<1>7. \A i \in 0 .. n : g[i] = h[i]
  BY <1>1, <1>4, <1>5, <1>6, FoldsAgree
<1>8. h[n] = g[n] /\ g[n] \in Database
  BY <1>1, <1>4, <1>7 DEF FoldingsOf
<1>9. h[n + 1] = Turn[<<h[n], rec>>]
  <2>1. n + 1 \in 1 .. n + 1 /\ (n + 1) - 1 = n
    BY <1>1
  <2> QED
    BY <1>1, <1>5, <2>1 DEF FoldingsOf
<1> QED
  BY <1>2, <1>3, <1>8, <1>9, TurnType DEF a

-----------------------------------------------------------------------------
(***************************************************************************)
(* What a step of HandleCommand or of a replay does to one key.            *)
(*                                                                         *)
(* Memory may have forgotten a value that the log still makes, since a     *)
(* deadline has removed it, and nothing else: that relation, key by key,   *)
(* is kept by running the same record on both sides.                       *)
(***************************************************************************)
Matches(d, e, k) ==
  /\ d.lists[k] = e.lists[k]
  /\ d.store[k] # Absent => d.store[k] = e.store[k]

\* A record changes the entries of its own key only.
LEMMA OtherKeysStay ==
  ASSUME NEW d \in Database, NEW rec \in Record, NEW k \in Keys, rec.key # k
  PROVE  /\ Replayed(d, rec).store[k] = d.store[k]
         /\ Replayed(d, rec).lists[k] = d.lists[k]
<1> USE DEF Replayed, Ok, Fail
<1>1. CASE rec.cmd = "SET"
  BY <1>1 DEF Set, Database
<1>2. CASE rec.cmd = "INCR"
  BY <1>2 DEF Incr, Database
<1>3. CASE rec.cmd = "PUSH"
  BY <1>3 DEF Push, Database
<1>4. CASE rec.cmd = "LPOP"
  BY <1>4 DEF Lpop, Database
<1>5. CASE rec.cmd = "RPOP"
  BY <1>5 DEF Rpop, Database
<1> QED
  BY <1>1, <1>2, <1>3, <1>4, <1>5

\* The same record on two sides that match leaves them matching.
LEMMA ReplayedMatches ==
  ASSUME NEW d \in Database, NEW e \in Database, NEW rec \in Record,
         NEW k \in Keys, ~Unreplayable(rec), Matches(d, e, k)
  PROVE  Matches(Replayed(d, rec), Replayed(e, rec), k)
<1>1. CASE rec.key # k
  BY <1>1, OtherKeysStay DEF Matches
<1>2. CASE rec.key = k
  <2> USE <1>2 DEF Replayed, Ok, Fail, Matches
  <2>1. CASE rec.cmd = "SET"
    <3>1. rec.value # Empty
      BY CommandsAssumption DEF Record
    <3> QED
      BY <2>1, <3>1 DEF Set, Database
  <2>2. CASE rec.cmd = "INCR"
    <3>1. Absent \notin Number
      BY CommandsAssumption DEF Text
    <3> QED
      BY <2>2, <3>1 DEF Incr, Database
  <2>3. CASE rec.cmd = "PUSH"
    BY <2>3 DEF Push, Database
  <2>4. CASE rec.cmd = "LPOP"
    BY <2>4 DEF Lpop, Poppable, Database
  <2>5. CASE rec.cmd = "RPOP"
    BY <2>5 DEF Rpop, Poppable, Database
  <2> QED
    BY <2>1, <2>2, <2>3, <2>4, <2>5
<1> QED
  BY <1>1, <1>2

\* Time and the cleanup take values, and leave the lists and the order alone.
LEMMA ForgettingMatches ==
  ASSUME NEW d \in Database, NEW f \in Database, NEW e \in Database,
         NEW k \in Keys, f.lists[k] = d.lists[k],
         f.store[k] \in {d.store[k], Absent}
  PROVE  /\ Matches(d, e, k) => Matches(f, e, k)
         /\ \A rec \in Record : ~Unreplayable(rec) =>
              (Matches(Replayed(d, rec), e, k) =>
               Matches(Replayed(f, rec), e, k))
<1>1. Matches(d, e, k) => Matches(f, e, k)
  BY DEF Matches
<1>2. Matches(f, d, k)
  BY DEF Matches
<1>3. ASSUME NEW rec \in Record, ~Unreplayable(rec),
             Matches(Replayed(d, rec), e, k)
      PROVE  Matches(Replayed(f, rec), e, k)
  <2>1. Matches(Replayed(f, rec), Replayed(d, rec), k)
    BY <1>2, <1>3, ReplayedMatches
  <2> QED
    BY <1>3, <2>1 DEF Matches
<1> QED
  BY <1>1, <1>3

\* HandleCommand does to the maps what the replay of its record does.
LEMMA HandledAsReplayed ==
  ASSUME NEW d \in Database, NEW r \in Request, Logged(r), Repeatable(r),
         HandleCommand(d, r).reply.status # "PANIC"
  PROVE  /\ HandleCommand(d, r).db.store = Replayed(d, RecordOf(r)).store
         /\ HandleCommand(d, r).db.lists = Replayed(d, RecordOf(r)).lists
         /\ ~Unreplayable(RecordOf(r))
<1> DEFINE rec == RecordOf(r)
<1>1. /\ rec.cmd = r.cmd /\ rec.key = r.key /\ ToUpper(r.cmd) = r.cmd
      /\ r.cmd \in {"SET", "PUSH"} => rec.value = r.value
      /\ r.cmd = "INCR" => rec.offset = r.offset
      /\ Absent \notin Text /\ Empty \notin Text
  <2>1. Absent \notin Text /\ Empty \notin Text
    BY CommandsAssumption
  <2>2. ToUpper(r.cmd) = r.cmd
    BY DEF Repeatable, LoggedCommands, ToUpper, Capitals
  <2> QED
    BY <2>1, <2>2 DEF Repeatable, RecordOf, Optional
<1>2. ~Unreplayable(rec)
  BY <1>1 DEF Unreplayable, Repeatable
<1> HIDE DEF rec
<1>3. CASE r.cmd = "SET"
  <2>1. r.exp # Wide
    BY <1>1, <1>3 DEF HandleCommand, Panic
  <2>2. HandleCommand(d, r)
          = Set(d, r.key, r.value, IF r.exp = Absent THEN 0 ELSE r.exp)
    BY <1>1, <1>3, <2>1 DEF HandleCommand, Repeatable
  <2>3. Replayed(d, rec) = Set(d, r.key, r.value, 0).db
    BY <1>1, <1>3 DEF Replayed
  <2> QED
    BY <1>2, <2>2, <2>3 DEF Set, Ok, Fail, Database, rec
<1>4. CASE r.cmd = "INCR"
  BY <1>1, <1>2, <1>4 DEF HandleCommand, Replayed, Fail, rec
<1>5. CASE r.cmd = "PUSH"
  BY <1>1, <1>2, <1>5 DEF HandleCommand, Replayed, Repeatable, rec
<1>6. CASE r.cmd \in {"LPOP", "RPOP"}
  BY <1>1, <1>2, <1>6 DEF HandleCommand, Replayed, Returned, rec
<1> QED
  BY <1>3, <1>4, <1>5, <1>6 DEF Repeatable, LoggedCommands

-----------------------------------------------------------------------------
(***************************************************************************)
(* The inductive invariant.  QuietKeysAreRecovered says nothing of a key   *)
(* with a command in flight, nor of a database that is being rebuilt; what *)
(* carries it through is that the log is one command ahead of the maps on  *)
(* such a key, and that a replay has made of the log what the records up   *)
(* to the cursor make.                                                     *)
(***************************************************************************)
LogIsReplayable ==
  /\ file \in Seq(Record)
  /\ \A i \in DOMAIN file : ~Unreplayable(file[i])

LoggedIsRequested ==
  \A c \in Conns : pc[c] = "logged" => req[c] \in Requests[c] /\ Logged(req[c])

FlushesAlone ==
  \A c \in Conns : pc[c] = "cleared" => Conns = {c} /\ file = <<>>

NobodyServedUnlessUp ==
  phase # "up" => \A c \in Conns : pc[c] = "idle"

ReplaySoFar ==
  /\ phase = "down" => db = NewDatabase
  /\ phase = "rebuilding" =>
       /\ cursor \in 1 .. Len(file) + 1
       /\ db = RebuildFromPersistence(SubSeq(file, 1, cursor - 1))

Pending(c, k) == pc[c] = "logged" /\ req[c].key = k

KeyRecovered(k) ==
  /\ (\A c \in Conns : ~Pending(c, k)) => Matches(db, Recovered, k)
  /\ \A c \in Conns :
       Pending(c, k) => Matches(Replayed(db, RecordOf(req[c])), Recovered, k)

KeysRecovered ==
  phase = "up" /\ (\A c \in Conns : pc[c] # "cleared")
    => \A k \in Keys : KeyRecovered(k)

LogInv ==
  /\ LogIsReplayable
  /\ LoggedIsRequested
  /\ FlushesAlone
  /\ NobodyServedUnlessUp
  /\ ReplaySoFar

\* What the hypotheses of the theorem say of a connection and its requests.
LEMMA RequestFacts ==
  ASSUME SoundLog, NEW c \in Conns, NEW r \in Requests[c], Logged(r)
  PROVE  /\ r \in Request
         /\ RecordOf(r) \in Record
         /\ Repeatable(r)
         /\ ~Unreplayable(RecordOf(r))
<1>1. r \in Request /\ Repeatable(r)
  BY StorageAssumption DEF SoundLog
<1>2. RecordOf(r) \in Record
  BY <1>1, RecordType DEF Logged
<1>3. ~Unreplayable(RecordOf(r))
  <2>1. Absent \notin Text /\ Empty \notin Text
    BY CommandsAssumption
  <2> QED
    BY <1>1, <2>1 DEF Unreplayable, Repeatable, RecordOf, Optional
<1> QED
  BY <1>1, <1>2, <1>3

(***************************************************************************)
(* What is written keeps the log replayable, whatever the clients do to    *)
(* each other: this part is inductive by itself.                           *)
(***************************************************************************)
LEMMA AppendedIsReplayable ==
  ASSUME LogIsReplayable, NEW rec \in Record, ~Unreplayable(rec),
         file' = Append(file, rec)
  PROVE  LogIsReplayable'
<1>1. file \in Seq(Record) /\ \A i \in DOMAIN file : ~Unreplayable(file[i])
  BY DEF LogIsReplayable
<1>2. \A i \in DOMAIN file' :
        file'[i] = rec \/ (i \in DOMAIN file /\ file'[i] = file[i])
  BY <1>1
<1> QED
  BY <1>1, <1>2 DEF LogIsReplayable

LEMMA LogIsReplayableNext ==
  ASSUME SoundLog, LogIsReplayable, [Next]_vars
  PROVE  LogIsReplayable'
<1>1. ASSUME NEW c \in Conns, NEW r \in Requests[c], LogRequest(c, r)
      PROVE  LogIsReplayable'
  <2>1. Logged(r) /\ file' = Append(file, RecordOf(r))
    BY <1>1 DEF LogRequest, Received, Handles, Logged
  <2>2. RecordOf(r) \in Record /\ ~Unreplayable(RecordOf(r))
    BY <2>1, RequestFacts
  <2> QED
    BY <2>1, <2>2, AppendedIsReplayable
<1>2. file' = <<>> => LogIsReplayable'
  BY DEF LogIsReplayable
<1>3. UNCHANGED file => LogIsReplayable'
  BY DEF LogIsReplayable
<1>4. ASSUME NEW c \in Conns, NEW r \in Requests[c],
             \/ LogRequestFails(c, r) \/ KeyMissing(c, r)
             \/ CrashInWrite(c, r) \/ HandleGet(c, r)
             \/ OpenLog(c, r) \/ OpenLogFails(c, r)
             \/ ClearDisk(c, r) \/ ClearDiskFails(c, r)
      PROVE  UNCHANGED file \/ file' = <<>>
  BY <1>4 DEF LogRequestFails, KeyMissing, CrashInWrite, HandleGet, OpenLog,
              OpenLogFails, ClearDisk, ClearDiskFails, Truncated, SoundLog
<1>5. ASSUME NEW c \in Conns, Execute(c) \/ ClearMemory(c)
      PROVE  UNCHANGED file
  BY <1>5 DEF Execute, ClearMemory
<1>6. Tick \/ Cleanup \/ Crash \/ Start \/ Replay \/ ReplayPanics \/ Serve
        => UNCHANGED file
  BY DEF Tick, Cleanup, Crash, Start, Replay, ReplayPanics, Serve
<1> QED
  BY <1>1, <1>2, <1>3, <1>4, <1>5, <1>6
     DEF Next, vars, SoundLog, StartWithoutLog, ReadFails

-----------------------------------------------------------------------------
(***************************************************************************)
(* The rest of LogInv.  A client that flushes is alone, so that nothing is *)
(* in flight but its FLUSHDB; a replay has come as far as its cursor says. *)
(***************************************************************************)
LEMMA LogInvKept ==
  ASSUME LogInv, phase = "up", phase' = "up", LogIsReplayable',
         \A c \in Conns : \/ pc'[c] = "idle"
                          \/ pc'[c] = pc[c] /\ req'[c] = req[c] /\ file' = file
  PROVE  LogInv'
  BY DEF LogInv, LoggedIsRequested, FlushesAlone, NobodyServedUnlessUp,
         ReplaySoFar

\* A process that ends leaves the log.
LEMMA LogInvDie ==
  ASSUME LogInv, Die, UNCHANGED file
  PROVE  LogInv'
  BY DEF Die, LogInv, LogIsReplayable, LoggedIsRequested, FlushesAlone,
         NobodyServedUnlessUp, ReplaySoFar

LEMMA LogInvLogRequest ==
  ASSUME TypeOK, LogInv, LogIsReplayable',
         NEW c \in Conns, NEW r \in Requests[c], LogRequest(c, r)
  PROVE  LogInv'
<1>1. /\ Logged(r) /\ phase = "up" /\ phase' = "up" /\ pc[c] = "idle"
      /\ pc' = [pc EXCEPT ![c] = "logged"] /\ req' = [req EXCEPT ![c] = r]
  BY DEF LogRequest, Received, Handles, Logged
<1>2. LoggedIsRequested'
  BY <1>1 DEF LogInv, LoggedIsRequested, TypeOK
<1>3. FlushesAlone'
  BY <1>1 DEF LogInv, FlushesAlone, TypeOK
<1>4. NobodyServedUnlessUp' /\ ReplaySoFar'
  BY <1>1 DEF NobodyServedUnlessUp, ReplaySoFar
<1> QED
  BY <1>2, <1>3, <1>4 DEF LogInv

LEMMA LogInvExecute ==
  ASSUME TypeOK, LogInv, LogIsReplayable', NEW c \in Conns, Execute(c)
  PROVE  LogInv'
<1> DEFINE out == HandleCommand(db, req[c])
<1>1. CASE out.reply.status = "PANIC"
  BY <1>1, LogInvDie DEF Execute
<1>2. CASE out.reply.status # "PANIC"
  <2>1. pc' = [pc EXCEPT ![c] = "idle"] /\ UNCHANGED <<phase, file, req>>
    BY <1>2 DEF Execute, Answer
  <2>2. phase = "up"
    BY DEF Execute, LogInv, NobodyServedUnlessUp
  <2> QED
    BY <2>1, <2>2, LogInvKept DEF TypeOK
<1> QED
  BY <1>1, <1>2

LEMMA LogInvClearDisk ==
  ASSUME TypeOK, FlushesAreAlone, LogIsReplayable',
         NEW c \in Conns, NEW r \in Requests[c], ClearDisk(c, r)
  PROVE  LogInv'
<1>1. /\ Conns = {c} /\ phase = "up" /\ phase' = "up" /\ file' = <<>>
      /\ pc'[c] = "cleared"
  BY DEF ClearDisk, ReadsFlush, Handles, Truncated, FlushesAreAlone, TypeOK
<1> QED
  BY <1>1 DEF LogInv, LoggedIsRequested, FlushesAlone, NobodyServedUnlessUp,
              ReplaySoFar

LEMMA LogInvClearMemory ==
  ASSUME TypeOK, LogInv, LogIsReplayable', NEW c \in Conns, ClearMemory(c)
  PROVE  LogInv'
<1>1. pc' = [pc EXCEPT ![c] = "idle"] /\ UNCHANGED <<phase, file, req>>
  BY DEF ClearMemory, Answer
<1>2. phase = "up"
  BY DEF ClearMemory, LogInv, NobodyServedUnlessUp
<1> QED
  BY <1>1, <1>2, LogInvKept DEF TypeOK

\* No file of this kind ends before its end.
LEMMA NoTornRecord ==
  ASSUME LogIsReplayable
  PROVE  MoreToReplay <=> cursor \in DOMAIN file
  BY StorageAssumption DEF LogIsReplayable, MoreToReplay

LEMMA LogInvStart ==
  ASSUME LogInv, LogIsReplayable', Start
  PROVE  LogInv'
<1>1. /\ phase = "down" /\ phase' = "rebuilding" /\ cursor' = 1
      /\ UNCHANGED <<db, file, pc, req>>
  BY DEF Start
<1>2. LoggedIsRequested' /\ FlushesAlone' /\ NobodyServedUnlessUp'
  BY <1>1 DEF LogInv, LoggedIsRequested, FlushesAlone, NobodyServedUnlessUp
<1>3. ReplaySoFar'
  <2>1. file \in Seq(Record) /\ SubSeq(file, 1, 0) = <<>>
    BY DEF LogInv, LogIsReplayable
  <2>2. 1 \in 1 .. Len(file) + 1 /\ 1 - 1 = 0
    BY <2>1
  <2> QED
    BY <1>1, <2>1, <2>2, RebuildOfNothing DEF LogInv, ReplaySoFar
<1> QED
  BY <1>2, <1>3 DEF LogInv

LEMMA LogInvReplay ==
  ASSUME LogInv, LogIsReplayable', Replay
  PROVE  LogInv'
<1>1. /\ phase = "rebuilding" /\ phase' = "rebuilding" /\ cursor' = cursor + 1
      /\ db' = Replayed(db, file[cursor]) /\ UNCHANGED <<file, pc, req>>
  BY DEF Replay
<1>2. LoggedIsRequested' /\ FlushesAlone' /\ NobodyServedUnlessUp'
  BY <1>1 DEF LogInv, LoggedIsRequested, FlushesAlone, NobodyServedUnlessUp
<1>3. ReplaySoFar'
  <2> DEFINE done == SubSeq(file, 1, cursor - 1)
  <2>1. file \in Seq(Record) /\ cursor \in 1 .. Len(file)
    BY NoTornRecord DEF LogInv, LogIsReplayable, Replay
  <2>2. done \in Seq(Record) /\ file[cursor] \in Record
    BY <2>1
  <2>3. SubSeq(file, 1, cursor) = Append(done, file[cursor])
    BY <2>1
  <2>4. RebuildFromPersistence(Append(done, file[cursor]))
          = Replayed(RebuildFromPersistence(done), file[cursor])
    BY <2>2, RebuildAppend
  <2>5. db = RebuildFromPersistence(done)
    BY <1>1 DEF LogInv, ReplaySoFar
  <2>6. cursor + 1 \in 1 .. Len(file) + 1 /\ (cursor + 1) - 1 = cursor
    BY <2>1
  <2> HIDE DEF done
  <2> QED
    BY <1>1, <2>3, <2>4, <2>5, <2>6 DEF ReplaySoFar
<1> QED
  BY <1>2, <1>3 DEF LogInv

\* When the replay ends, memory is what the log makes.
LEMMA ServedFromLog ==
  ASSUME LogInv, Serve
  PROVE  db = Recovered
<1>1. file \in Seq(Record) /\ cursor \in 1 .. Len(file) + 1
      /\ cursor \notin DOMAIN file
  BY NoTornRecord DEF LogInv, LogIsReplayable, ReplaySoFar, Serve
<1>2. cursor - 1 = Len(file) /\ SubSeq(file, 1, cursor - 1) = file
  BY <1>1
<1> QED
  BY <1>2 DEF LogInv, ReplaySoFar, Recovered, Serve

LEMMA LogInvServe ==
  ASSUME LogInv, LogIsReplayable', Serve
  PROVE  LogInv'
<1>1. phase = "rebuilding" /\ phase' = "up" /\ UNCHANGED <<db, file, pc, req>>
  BY DEF Serve
<1> QED
  BY <1>1 DEF LogInv, LoggedIsRequested, FlushesAlone, NobodyServedUnlessUp,
              ReplaySoFar

LEMMA LogInvNext ==
  ASSUME SoundLog, FlushesAreAlone, TypeOK, LogInv, [Next]_vars
  PROVE  LogInv'
<1>1. LogIsReplayable'
  BY LogIsReplayableNext DEF LogInv
<1>2. ASSUME NEW c \in Conns, NEW r \in Requests[c], LogRequest(c, r)
      PROVE  LogInv'
  BY <1>1, <1>2, LogInvLogRequest
<1>3. ASSUME NEW c \in Conns, NEW r \in Requests[c],
             \/ LogRequestFails(c, r) \/ HandleGet(c, r)
             \/ OpenLog(c, r) \/ OpenLogFails(c, r)
      PROVE  LogInv'
  <2>1. phase = "up" /\ UNCHANGED <<phase, file, pc, req>>
    BY <1>3 DEF LogRequestFails, HandleGet, OpenLog, OpenLogFails, Received,
                Handles, Answer, SoundLog, TypeOK
  <2> QED
    BY <1>1, <2>1, LogInvKept
<1>4. ASSUME NEW c \in Conns, NEW r \in Requests[c], ClearDisk(c, r)
      PROVE  LogInv'
  BY <1>1, <1>4, LogInvClearDisk
<1>5. ASSUME NEW c \in Conns, NEW r \in Requests[c],
             CrashInWrite(c, r) \/ ClearDiskFails(c, r)
      PROVE  LogInv'
  BY <1>5 DEF CrashInWrite, ClearDiskFails, ReadsFlush, Handles, SoundLog,
              FlushesAreAlone
<1>6. ASSUME NEW c \in Conns, Execute(c) \/ ClearMemory(c)
      PROVE  LogInv'
  BY <1>1, <1>6, LogInvExecute, LogInvClearMemory
<1>7. CASE Tick \/ Cleanup
  <2>1. phase = "up" /\ UNCHANGED <<phase, file, pc, req>>
    BY <1>7 DEF Tick, Cleanup
  <2> QED
    BY <1>1, <2>1, LogInvKept
<1>8. ASSUME Die, UNCHANGED file
      PROVE  LogInv'
  BY <1>8, LogInvDie
<1>9. CASE Start \/ Replay \/ Serve
  BY <1>1, <1>9, LogInvStart, LogInvReplay, LogInvServe
<1>10. CASE UNCHANGED vars
  BY <1>1, <1>10 DEF vars, LogInv, LoggedIsRequested, FlushesAlone,
                     NobodyServedUnlessUp, ReplaySoFar
<1> QED
  BY <1>2, <1>3, <1>4, <1>5, <1>6, <1>7, <1>8, <1>9, <1>10
     DEF Next, KeyMissing, Crash, ReplayPanics, SoundLog, StartWithoutLog,
         ReadFails

LEMMA LogInvHolds ==
  ASSUME SoundLog, FlushesAreAlone
  PROVE  Spec => []LogInv
<1>1. Init => LogInv
  BY StorageAssumption
     DEF Init, SoundLog, LogInv, LogIsReplayable, LoggedIsRequested,
         FlushesAlone, NobodyServedUnlessUp, ReplaySoFar
<1>2. TypeOK /\ LogInv /\ [Next]_vars => LogInv'
  BY LogInvNext
<1> QED
  BY <1>1, <1>2, TypeCorrect, PTL DEF Spec

-----------------------------------------------------------------------------
(***************************************************************************)
(* KeysRecovered: the clients have keys of their own, so that at most one  *)
(* command is in flight on a key.                                          *)
(***************************************************************************)

\* A step that starts and ends no command, and at most forgets values.
LEMMA KeysForgotten ==
  ASSUME TypeOK, TypeOK', SoundLog, LogInv, KeysRecovered, phase = "up",
         UNCHANGED <<file, pc, req>>,
         \A k \in Keys : /\ db'.lists[k] = db.lists[k]
                         /\ db'.store[k] \in {db.store[k], Absent}
  PROVE  KeysRecovered'
<1> SUFFICES ASSUME \A c \in Conns : pc[c] # "cleared", NEW k \in Keys
             PROVE  KeyRecovered(k)'
  BY DEF KeysRecovered
<1>1. KeyRecovered(k)
  BY DEF KeysRecovered
<1>2. Recovered' = Recovered /\ Recovered \in Database
  BY RebuildType DEF Recovered, LogInv, LogIsReplayable
<1>3. db \in Database /\ db' \in Database
  BY DEF TypeOK
<1>4. Matches(db, Recovered, k) => Matches(db', Recovered, k)
  BY <1>2, <1>3, ForgettingMatches
<1>5. ASSUME NEW c \in Conns, Pending(c, k),
             Matches(Replayed(db, RecordOf(req[c])), Recovered, k)
      PROVE  Matches(Replayed(db', RecordOf(req[c])), Recovered, k)
  <2>1. RecordOf(req[c]) \in Record /\ ~Unreplayable(RecordOf(req[c]))
    BY <1>5, RequestFacts DEF LogInv, LoggedIsRequested, Pending
  <2> QED
    BY <1>2, <1>3, <1>5, <2>1, ForgettingMatches
<1> QED
  BY <1>1, <1>2, <1>4, <1>5 DEF KeyRecovered, Pending

\* No two connections have a command in flight on one key.
LEMMA OnePending ==
  ASSUME NoSharedKey, LoggedIsRequested, NEW k \in Keys,
         NEW c \in Conns, NEW r \in Requests[c], Logged(r), r.key = k,
         NEW d \in Conns, d # c
  PROVE  ~Pending(d, k)
  BY DEF NoSharedKey, LoggedIsRequested, Pending

LEMMA KeysLogged ==
  ASSUME TypeOK, SoundLog, NoSharedKey, LogInv, KeysRecovered,
         NEW c \in Conns, NEW r \in Requests[c], LogRequest(c, r)
  PROVE  KeysRecovered'
<1> DEFINE rec == RecordOf(r)
<1>1. /\ Logged(r) /\ phase = "up" /\ pc[c] = "idle" /\ db' = db
      /\ file' = Append(file, rec) /\ pc' = [pc EXCEPT ![c] = "logged"]
      /\ req' = [req EXCEPT ![c] = r] /\ LoggedIsRequested
  BY DEF LogRequest, Received, Handles, Logged, LogInv
<1>2. rec \in Record /\ ~Unreplayable(rec)
  BY <1>1, RequestFacts
<1>3. Recovered' = Replayed(Recovered, rec) /\ Recovered \in Database
  BY <1>1, <1>2, RebuildAppend, RebuildType
     DEF Recovered, LogInv, LogIsReplayable
<1> HIDE DEF rec
<1> SUFFICES ASSUME \A b \in Conns : pc'[b] # "cleared", NEW k \in Keys
             PROVE  KeyRecovered(k)'
  BY DEF KeysRecovered
<1>4. \A b \in Conns : pc[b] # "cleared"
  BY <1>1 DEF TypeOK
<1>5. KeyRecovered(k)
  BY <1>1, <1>4 DEF KeysRecovered
<1>6. \A b \in Conns : b # c => pc'[b] = pc[b] /\ req'[b] = req[b]
  BY <1>1 DEF TypeOK
<1>7. pc'[c] = "logged" /\ req'[c] = r /\ db \in Database
  BY <1>1 DEF TypeOK
<1>8. CASE r.key = k
  <2>1. \A b \in Conns : ~Pending(b, k)
    BY <1>1, <1>8, OnePending DEF Pending
  <2>2. Matches(db, Recovered, k)
    BY <1>5, <2>1 DEF KeyRecovered
  <2>3. Matches(Replayed(db, rec), Recovered', k)
    BY <1>2, <1>3, <1>7, <2>2, ReplayedMatches
  <2>4. \A b \in Conns : Pending(b, k)' => b = c
    BY <1>6, <2>1 DEF Pending
  <2> QED
    BY <1>1, <1>7, <1>8, <2>3, <2>4 DEF KeyRecovered, Pending, rec
<1>9. CASE r.key # k
  <2>1. /\ Recovered'.store[k] = Recovered.store[k]
        /\ Recovered'.lists[k] = Recovered.lists[k]
    <3>1. rec.key # k
      BY <1>9 DEF rec, RecordOf
    <3> QED
      BY <1>2, <1>3, <3>1, OtherKeysStay
  <2>2. \A b \in Conns : Pending(b, k)' <=> Pending(b, k)
    BY <1>1, <1>6, <1>7, <1>9 DEF Pending
  <2>3. \A b \in Conns : Pending(b, k) => req'[b] = req[b]
    BY <1>1, <1>6 DEF Pending
  <2>4. \A d : Matches(d, Recovered, k) <=> Matches(d, Recovered', k)
    BY <2>1 DEF Matches
  <2> QED
    BY <1>1, <1>5, <2>2, <2>3, <2>4 DEF KeyRecovered
<1> QED
  BY <1>8, <1>9

LEMMA KeysExecuted ==
  ASSUME TypeOK, TypeOK', SoundLog, NoSharedKey, LogInv, KeysRecovered,
         NEW c \in Conns, Execute(c)
  PROVE  KeysRecovered'
<1> DEFINE r == req[c]
           rec == RecordOf(r)
           out == HandleCommand(db, r)
<1>1. /\ pc[c] = "logged" /\ r \in Requests[c] /\ Logged(r) /\ phase = "up"
      /\ LoggedIsRequested
  BY DEF Execute, LogInv, LoggedIsRequested, NobodyServedUnlessUp
<1>2. r \in Request /\ rec \in Record /\ Repeatable(r) /\ ~Unreplayable(rec)
  BY <1>1, RequestFacts
<1>3. CASE out.reply.status = "PANIC"
  BY <1>3 DEF Execute, Die, KeysRecovered
<1>4. CASE out.reply.status # "PANIC"
  <2>1. db' = out.db /\ pc' = [pc EXCEPT ![c] = "idle"] /\ req' = req
        /\ Recovered' = Recovered
    BY <1>4 DEF Execute, Answer, Recovered
  <2>2. db \in Database /\ db' \in Database
    BY DEF TypeOK
  <2>3. /\ db'.store = Replayed(db, rec).store
        /\ db'.lists = Replayed(db, rec).lists
    BY <1>1, <1>2, <1>4, <2>1, <2>2, HandledAsReplayed
  <2>4. /\ \A b \in Conns : b # c => pc'[b] = pc[b]
        /\ pc'[c] = "idle"
    BY <2>1 DEF TypeOK
  <2> HIDE DEF out, rec, r
  <2> SUFFICES ASSUME \A b \in Conns : pc'[b] # "cleared", NEW k \in Keys
               PROVE  KeyRecovered(k)'
    BY DEF KeysRecovered
  <2>5. KeyRecovered(k)
    BY <1>1, <2>4 DEF KeysRecovered
  <2>6. CASE r.key = k
    <3>1. \A b \in Conns : b # c => ~Pending(b, k)
      BY <1>1, <2>6, OnePending
    <3>2. \A b \in Conns : ~Pending(b, k)'
      BY <2>1, <2>4, <3>1 DEF Pending
    <3>3. Matches(Replayed(db, rec), Recovered, k)
      BY <1>1, <2>5, <2>6 DEF KeyRecovered, Pending, r, rec
    <3>4. Matches(db', Recovered', k)
      BY <2>1, <2>3, <3>3 DEF Matches
    <3> QED
      BY <3>2, <3>4 DEF KeyRecovered
  <2>7. CASE r.key # k
    <3>1. db'.store[k] = db.store[k] /\ db'.lists[k] = db.lists[k]
      <4>1. rec.key # k
        BY <2>7 DEF rec, RecordOf
      <4> QED
        BY <1>2, <2>2, <2>3, <4>1, OtherKeysStay
    <3>2. \A b \in Conns : Pending(b, k)' <=> Pending(b, k)
      BY <1>1, <2>1, <2>4, <2>7 DEF Pending, r
    <3>3. Matches(db, Recovered, k) => Matches(db', Recovered', k)
      BY <2>1, <3>1 DEF Matches
    <3>4. ASSUME NEW b \in Conns, Pending(b, k),
                 Matches(Replayed(db, RecordOf(req[b])), Recovered, k)
          PROVE  Matches(Replayed(db', RecordOf(req[b])), Recovered', k)
      <4>1. RecordOf(req[b]) \in Record /\ ~Unreplayable(RecordOf(req[b]))
        BY <3>4, RequestFacts DEF LogInv, LoggedIsRequested, Pending
      <4>2. Recovered \in Database
        BY RebuildType DEF LogInv, LogIsReplayable, Recovered
      <4> QED
        BY <2>1, <2>2, <3>1, <3>4, <4>1, <4>2, ForgettingMatches
    <3> QED
      BY <2>1, <2>5, <3>2, <3>3, <3>4 DEF KeyRecovered
  <2> QED
    BY <2>6, <2>7
<1> QED
  BY <1>3, <1>4

LEMMA KeysFlushed ==
  ASSUME TypeOK, LogInv, NEW c \in Conns, ClearMemory(c)
  PROVE  KeysRecovered'
<1>1. /\ Conns = {c} /\ file = <<>> /\ file' = file
      /\ db' = NewDatabase /\ pc'[c] = "idle"
  BY DEF ClearMemory, Answer, LogInv, FlushesAlone, TypeOK
<1>2. Recovered' = NewDatabase
  BY <1>1, RebuildOfNothing DEF Recovered
<1> QED
  BY <1>1, <1>2 DEF KeysRecovered, KeyRecovered, Pending, Matches

LEMMA KeysServed ==
  ASSUME LogInv, Serve
  PROVE  KeysRecovered'
<1>1. phase # "up" /\ UNCHANGED <<db, file, pc, req>> /\ db = Recovered
  BY ServedFromLog DEF Serve
<1> QED
  BY <1>1 DEF LogInv, NobodyServedUnlessUp, KeysRecovered, KeyRecovered,
              Recovered, Pending, Matches

LEMMA KeysRecoveredNext ==
  ASSUME SoundLog, FlushesAreAlone, NoSharedKey, TypeOK, TypeOK', LogInv,
         KeysRecovered, [Next]_vars
  PROVE  KeysRecovered'
<1>1. ASSUME NEW c \in Conns, NEW r \in Requests[c], LogRequest(c, r)
      PROVE  KeysRecovered'
  BY <1>1, KeysLogged
<1>2. ASSUME NEW c \in Conns, NEW r \in Requests[c],
             \/ LogRequestFails(c, r) \/ HandleGet(c, r)
             \/ OpenLog(c, r) \/ OpenLogFails(c, r)
      PROVE  KeysRecovered'
  <2>1. phase = "up" /\ UNCHANGED <<db, file, pc, req>>
    BY <1>2 DEF LogRequestFails, HandleGet, OpenLog, OpenLogFails, Received,
                Handles, Answer, SoundLog, TypeOK
  <2> QED
    BY <2>1, KeysForgotten
<1>3. ASSUME NEW c \in Conns, NEW r \in Requests[c], ClearDisk(c, r)
      PROVE  KeysRecovered'
  BY <1>3 DEF ClearDisk, TypeOK, KeysRecovered
<1>4. ASSUME NEW c \in Conns, NEW r \in Requests[c],
             CrashInWrite(c, r) \/ ClearDiskFails(c, r)
      PROVE  KeysRecovered'
  BY <1>4 DEF CrashInWrite, ClearDiskFails, ReadsFlush, Handles, SoundLog,
              FlushesAreAlone
<1>5. ASSUME NEW c \in Conns, Execute(c) \/ ClearMemory(c)
      PROVE  KeysRecovered'
  BY <1>5, KeysExecuted, KeysFlushed
<1>6. CASE Tick
  <2>1. phase = "up" /\ UNCHANGED <<file, pc, req>>
    BY <1>6 DEF Tick
  <2>2. db'.store = db.store /\ db'.lists = db.lists
    BY <1>6 DEF Tick, TypeOK, Database
  <2> QED
    BY <2>1, <2>2, KeysForgotten
<1>7. CASE Cleanup
  <2>1. phase = "up" /\ UNCHANGED <<file, pc, req>>
    BY <1>7 DEF Cleanup
  <2>2. \A k \in Keys : /\ db'.lists[k] = db.lists[k]
                        /\ db'.store[k] \in {db.store[k], Absent}
    BY <1>7 DEF Cleanup, Swept, TypeOK, Database
  <2> QED
    BY <2>1, <2>2, KeysForgotten
<1>8. Die \/ Start \/ Replay => KeysRecovered'
  BY DEF Die, Start, Replay, KeysRecovered
<1>9. CASE Serve
  BY <1>9, KeysServed
<1>10. CASE UNCHANGED vars
  BY <1>10 DEF vars, KeysRecovered, KeyRecovered, Recovered, Pending
<1> QED
  BY <1>1, <1>2, <1>3, <1>4, <1>5, <1>6, <1>7, <1>8, <1>9, <1>10
     DEF Next, KeyMissing, Crash, ReplayPanics, SoundLog, StartWithoutLog,
         ReadFails

(***************************************************************************)
(* QuietKeysAreRecovered, for any number of keys, of clients that share    *)
(* none of them and of requests: a restart makes of a key that no command  *)
(* in flight touches the list it has and, unless a deadline has taken it,  *)
(* the value it has; whatever crashes, failed writes, sweeps and earlier   *)
(* restarts have happened.                                                 *)
(***************************************************************************)
THEOREM QuietKeysSurvive ==
  ASSUME SoundLog, FlushesAreAlone, NoSharedKey
  PROVE  Spec => []QuietKeysAreRecovered
<1>1. Init => KeysRecovered
  BY DEF Init, KeysRecovered
<1>2. TypeOK /\ TypeOK' /\ LogInv /\ KeysRecovered /\ [Next]_vars
        => KeysRecovered'
  BY KeysRecoveredNext
<1>3. KeysRecovered => QuietKeysAreRecovered
  BY DEF KeysRecovered, KeyRecovered, QuietKeysAreRecovered, Quiet, Pending,
         Matches
<1> QED
  BY <1>1, <1>2, <1>3, TypeCorrect, LogInvHolds, PTL DEF Spec

-----------------------------------------------------------------------------
(***************************************************************************)
(* One client: the refinement of DurableKV.  The store of the abstract     *)
(* specification is what the log makes, so the invariant has to say that   *)
(* HandleCommand computes its reply from maps that are the same, or one    *)
(* command behind, deadlines included: there are none.                     *)
(***************************************************************************)
NoDeadlineIsSet == \A k \in Keys : db.left[k] = Absent

MemoryFollowsLog ==
  phase = "up" =>
    /\ pc[Client] = "idle" => db = Recovered
    /\ pc[Client] = "logged" => Replayed(db, RecordOf(req[Client])) = Recovered

OneClientInv == NoDeadlineIsSet /\ MemoryFollowsLog

LEMMA ClientIsAlone ==
  ASSUME AloneWithoutDeadlines
  PROVE  Client \in Conns /\ Conns = {Client}
<1>1. PICK c \in Conns : Conns = {c}
  BY DEF AloneWithoutDeadlines
<1> QED
  BY <1>1 DEF Client

\* Without a deadline HandleCommand and the replay leave one database.
LEMMA HandledExactly ==
  ASSUME NEW d \in Database, NEW r \in Request, Logged(r), Repeatable(r),
         r.exp = Absent \/ (r.exp \in Int /\ r.exp <= 0)
  PROVE  /\ HandleCommand(d, r).db = Replayed(d, RecordOf(r))
         /\ HandleCommand(d, r).reply.status \in {"OK", "ERROR"}
<1> DEFINE rec == RecordOf(r)
<1>1. /\ rec.cmd = r.cmd /\ rec.key = r.key /\ ToUpper(r.cmd) = r.cmd
      /\ r.cmd \in {"SET", "PUSH"} => rec.value = r.value
      /\ r.cmd = "INCR" => rec.offset = r.offset
      /\ Absent \notin Text /\ Empty \notin Text
  <2>1. Absent \notin Text /\ Empty \notin Text
    BY CommandsAssumption
  <2>2. ToUpper(r.cmd) = r.cmd
    BY DEF Repeatable, LoggedCommands, ToUpper, Capitals
  <2> QED
    BY <2>1, <2>2 DEF Repeatable, RecordOf, Optional
<1> HIDE DEF rec
<1> USE DEF Ok, Fail, Error
<1>2. CASE r.cmd = "SET"
  <2> DEFINE ttl == IF r.exp = Absent THEN 0 ELSE r.exp
  <2>1. r.exp # Wide /\ ttl \in Int /\ ~(ttl > 0)
    BY CommandsAssumption
  <2>2. HandleCommand(d, r) = Set(d, r.key, r.value, ttl)
    BY <1>1, <1>2, <2>1 DEF HandleCommand, Repeatable
  <2>3. Replayed(d, rec) = Set(d, r.key, r.value, 0).db
    BY <1>1, <1>2 DEF Replayed
  <2> HIDE DEF ttl
  <2> QED
    BY <2>1, <2>2, <2>3 DEF Set, rec
<1>3. CASE r.cmd = "INCR"
  BY <1>1, <1>3 DEF HandleCommand, Replayed, Incr, rec
<1>4. CASE r.cmd = "PUSH"
  BY <1>1, <1>4 DEF HandleCommand, Replayed, Repeatable, Push, rec
<1>5. CASE r.cmd = "LPOP"
  BY <1>1, <1>5 DEF HandleCommand, Replayed, Returned, Lpop, rec
<1>6. CASE r.cmd = "RPOP"
  BY <1>1, <1>6 DEF HandleCommand, Replayed, Returned, Rpop, rec
<1> QED
  BY <1>2, <1>3, <1>4, <1>5, <1>6 DEF Repeatable, LoggedCommands

LEMMA ReplayedKeepsDeadlines ==
  ASSUME NEW d \in Database, NEW rec
  PROVE  Replayed(d, rec).left = d.left
<1> USE DEF Replayed, Ok, Fail
<1>1. CASE rec.cmd = "SET"
  <2>1. \A k \in Keys : [d.left EXCEPT ![k] = d.left[k]] = d.left
    BY DEF Database
  <2> QED
    BY <1>1, <2>1 DEF Set, Database
<1>2. CASE rec.cmd \in {"INCR", "PUSH"}
  BY <1>2 DEF Incr, Push, Database
<1>3. CASE rec.cmd \in {"LPOP", "RPOP"}
  BY <1>3 DEF Lpop, Rpop, Database
<1> QED
  BY <1>1, <1>2, <1>3

\* What the proof of a step needs of the request in flight.
LEMMA InFlightFacts ==
  ASSUME SoundLog, AloneWithoutDeadlines, TypeOK, LogInv, OneClientInv,
         NEW c \in Conns, pc[c] = "logged"
  PROVE  /\ phase = "up"
         /\ HandleCommand(db, req[c]).db = Recovered
         /\ HandleCommand(db, req[c]).reply.status \in {"OK", "ERROR"}
<1>1. c = Client
  BY ClientIsAlone
<1>2. req[c] \in Requests[c] /\ Logged(req[c]) /\ phase = "up"
  BY DEF LogInv, LoggedIsRequested, NobodyServedUnlessUp
<1>3. req[c] \in Request /\ Repeatable(req[c])
  BY <1>2, RequestFacts
<1>4. req[c].exp = Absent \/ (req[c].exp \in Int /\ req[c].exp <= 0)
  BY <1>2 DEF AloneWithoutDeadlines
<1>5. db \in Database
  BY DEF TypeOK
<1> QED
  BY <1>1, <1>2, <1>3, <1>4, <1>5, HandledExactly
     DEF OneClientInv, MemoryFollowsLog

\* Memory stays what the log makes, or one command behind it.
LEMMA OneClientInvNext ==
  ASSUME SoundLog, FlushesAreAlone, AloneWithoutDeadlines,
         TypeOK, TypeOK', LogInv, OneClientInv, [Next]_vars
  PROVE  OneClientInv'
<1>1. Client \in Conns /\ Conns = {Client} /\ db \in Database
  BY ClientIsAlone DEF TypeOK
<1>2. ~Tick /\ ~Cleanup
  BY DEF Tick, Cleanup, Expired, OneClientInv, NoDeadlineIsSet
<1>3. ASSUME NEW c \in Conns, NEW r \in Requests[c], LogRequest(c, r)
      PROVE  OneClientInv'
  <2>1. /\ Logged(r) /\ c = Client /\ pc[c] = "idle" /\ phase = "up"
        /\ pc'[c] = "logged" /\ req'[c] = r /\ db' = db
        /\ file' = Append(file, RecordOf(r))
    BY <1>1, <1>3 DEF LogRequest, Received, Handles, Logged, TypeOK
  <2>2. RecordOf(r) \in Record /\ file \in Seq(Record)
    BY <2>1, RequestFacts DEF LogInv, LogIsReplayable
  <2>3. Recovered' = Replayed(Recovered, RecordOf(r))
    BY <2>1, <2>2, RebuildAppend DEF Recovered
  <2> QED
    BY <2>1, <2>3 DEF OneClientInv, NoDeadlineIsSet, MemoryFollowsLog
<1>4. ASSUME NEW c \in Conns, Execute(c)
      PROVE  OneClientInv'
  <2>1. /\ c = Client /\ pc[c] = "logged" /\ req[c] \in Requests[c]
        /\ Logged(req[c])
    BY <1>1, <1>4 DEF Execute, LogInv, LoggedIsRequested
  <2>2. HandleCommand(db, req[c]).db = Recovered
        /\ HandleCommand(db, req[c]).reply.status # "PANIC"
    BY <2>1, InFlightFacts
  <2>3. db' = Recovered /\ pc'[c] = "idle" /\ file' = file
    BY <1>4, <2>2 DEF Execute, Answer, TypeOK
  <2>4. Recovered = Replayed(db, RecordOf(req[c]))
    BY <2>1, <2>2, InFlightFacts DEF OneClientInv, MemoryFollowsLog
  <2>5. NoDeadlineIsSet'
    BY <1>1, <2>3, <2>4, ReplayedKeepsDeadlines
       DEF OneClientInv, NoDeadlineIsSet
  <2> QED
    BY <2>1, <2>3, <2>5 DEF OneClientInv, MemoryFollowsLog, Recovered
<1>5. ASSUME NEW c \in Conns, ClearMemory(c)
      PROVE  OneClientInv'
  <2>1. c = Client /\ db' = NewDatabase /\ pc'[c] = "idle" /\ file' = <<>>
    BY <1>1, <1>5 DEF ClearMemory, Answer, LogInv, FlushesAlone, TypeOK
  <2>2. Recovered' = NewDatabase
    BY <2>1, RebuildOfNothing DEF Recovered
  <2> QED
    BY <2>1, <2>2 DEF OneClientInv, NoDeadlineIsSet, MemoryFollowsLog,
                      NewDatabase
<1>6. ASSUME NEW c \in Conns, NEW r \in Requests[c],
             ClearDisk(c, r)
      PROVE  OneClientInv'
  BY <1>1, <1>6 DEF ClearDisk, OneClientInv, NoDeadlineIsSet, MemoryFollowsLog,
                    TypeOK
<1>7. ASSUME NEW c \in Conns, NEW r \in Requests[c],
             \/ LogRequestFails(c, r) \/ HandleGet(c, r)
             \/ OpenLog(c, r) \/ OpenLogFails(c, r)
      PROVE  OneClientInv'
  <2>1. UNCHANGED <<phase, db, file, pc, req>>
    BY <1>7 DEF LogRequestFails, HandleGet, OpenLog, OpenLogFails, Received,
                Handles, Answer, SoundLog, TypeOK
  <2> QED
    BY <2>1 DEF OneClientInv, NoDeadlineIsSet, MemoryFollowsLog, Recovered
<1>8. ASSUME NEW c \in Conns, NEW r \in Requests[c],
             CrashInWrite(c, r) \/ ClearDiskFails(c, r)
      PROVE  OneClientInv'
  BY <1>8 DEF CrashInWrite, ClearDiskFails, ReadsFlush, Handles, SoundLog,
              FlushesAreAlone
<1>9. ASSUME Die
      PROVE  OneClientInv'
  BY <1>9 DEF Die, OneClientInv, NoDeadlineIsSet, MemoryFollowsLog, NewDatabase
<1>10. CASE Start
  BY <1>10 DEF Start, OneClientInv, NoDeadlineIsSet, MemoryFollowsLog
<1>11. CASE Replay
  <2>1. db' = Replayed(db, file[cursor]) /\ phase' = "rebuilding"
    BY <1>11 DEF Replay
  <2> QED
    BY <1>1, <2>1, ReplayedKeepsDeadlines
       DEF OneClientInv, NoDeadlineIsSet, MemoryFollowsLog
<1>12. CASE Serve
  <2>1. db' = db /\ phase' = "up" /\ pc'[Client] = "idle"
    BY <1>1, <1>12 DEF Serve, LogInv, NobodyServedUnlessUp
  <2>2. db = Recovered /\ UNCHANGED file
    BY <1>12, ServedFromLog DEF Serve
  <2> QED
    BY <2>1, <2>2 DEF OneClientInv, NoDeadlineIsSet, MemoryFollowsLog,
                      Recovered
<1>13. CASE UNCHANGED vars
  BY <1>13 DEF vars, OneClientInv, NoDeadlineIsSet, MemoryFollowsLog, Recovered
<1> QED
  BY <1>2, <1>3, <1>4, <1>5, <1>6, <1>7, <1>8, <1>9, <1>10, <1>11, <1>12, <1>13
     DEF Next, KeyMissing, Crash, ReplayPanics, SoundLog, StartWithoutLog,
         ReadFails

LEMMA OneClientInvHolds ==
  ASSUME SoundLog, FlushesAreAlone, AloneWithoutDeadlines
  PROVE  Spec => []OneClientInv
<1>1. Init => OneClientInv
  BY DEF Init, OneClientInv, NoDeadlineIsSet, MemoryFollowsLog, NewDatabase
<1>2. TypeOK /\ TypeOK' /\ LogInv /\ OneClientInv /\ [Next]_vars
        => OneClientInv'
  BY OneClientInvNext
<1> QED
  BY <1>1, <1>2, TypeCorrect, LogInvHolds, PTL DEF Spec

-----------------------------------------------------------------------------
(***************************************************************************)
(* DurableKV has the commands of Commands, under names of its own.         *)
(***************************************************************************)
LEMMA SameSets ==
  /\ Durable!Text = Text
  /\ Durable!Number = Number
  /\ Durable!Database = Database
  /\ Durable!NewDatabase = NewDatabase
  /\ Durable!LoggedCommands = LoggedCommands
<1>1. Durable!Number = Number
  BY DEF Durable!Number, Number
<1>2. Durable!Text = Text
  BY <1>1 DEF Durable!Text, Text
<1>3. Durable!Element = Element
  BY <1>2 DEF Durable!Element, Element
<1>4. Durable!Database = Database
  BY <1>2, <1>3 DEF Durable!Database, Database
<1>5. Durable!NewDatabase = NewDatabase
  BY DEF Durable!NewDatabase, NewDatabase
<1>6. Durable!LoggedCommands = LoggedCommands
  BY DEF Durable!LoggedCommands, LoggedCommands
<1> QED
  BY <1>1, <1>2, <1>4, <1>5, <1>6

LEMMA SameReplies ==
  /\ Durable!NoReply = NoReply
  /\ Durable!Error = Error
  /\ \A d, v : Durable!Ok(d, v) = Ok(d, v)
  /\ \A d : Durable!Fail(d) = Fail(d) /\ Durable!Panic(d) = Panic(d)
  BY DEF Durable!NoReply, NoReply, Durable!Error, Error, Durable!Ok, Ok,
         Durable!Fail, Fail, Durable!Panic, Panic

LEMMA SameToUpper ==
  ASSUME NEW cmd
  PROVE  Durable!ToUpper(cmd) = ToUpper(cmd)
  BY DEF Durable!ToUpper, ToUpper, Durable!Capitals, Capitals

LEMMA SameGet ==
  ASSUME NEW d, NEW key
  PROVE  Durable!Get(d, key) = Get(d, key)
  BY SameReplies DEF Durable!Get, Get

LEMMA SameOperations ==
  ASSUME NEW d, NEW key, NEW value, NEW offset, NEW ttl
  PROVE  /\ Durable!Set(d, key, value, ttl) = Set(d, key, value, ttl)
         /\ Durable!Incr(d, key, offset) = Incr(d, key, offset)
         /\ Durable!Push(d, key, value) = Push(d, key, value)
         /\ Durable!Lpop(d, key) = Lpop(d, key)
         /\ Durable!Rpop(d, key) = Rpop(d, key)
<1> USE SameReplies, SameSets
<1>1. Durable!Set(d, key, value, ttl) = Set(d, key, value, ttl)
  BY DEF Durable!Set, Set
<1>2. Durable!Incr(d, key, offset) = Incr(d, key, offset)
  BY DEF Durable!Incr, Incr, Durable!Wrap, Wrap
<1>3. Durable!Push(d, key, value) = Push(d, key, value)
  BY DEF Durable!Push, Push
<1>4. Durable!Lpop(d, key) = Lpop(d, key)
  BY DEF Durable!Lpop, Lpop, Durable!Poppable, Poppable
<1>5. Durable!Rpop(d, key) = Rpop(d, key)
  BY DEF Durable!Rpop, Rpop, Durable!Poppable, Poppable
<1> QED
  BY <1>1, <1>2, <1>3, <1>4, <1>5

LEMMA SameHandleCommand ==
  ASSUME NEW d, NEW r
  PROVE  Durable!HandleCommand(d, r) = HandleCommand(d, r)
<1> DEFINE ttl == IF r.exp = Absent THEN 0 ELSE r.exp
<1>1. Durable!Set(d, r.key, r.value, ttl) = Set(d, r.key, r.value, ttl)
  BY SameOperations
<1>2. Durable!Incr(d, r.key, r.offset) = Incr(d, r.key, r.offset)
  BY SameOperations
<1>3. Durable!Push(d, r.key, r.value) = Push(d, r.key, r.value)
  BY SameOperations
<1>4. Durable!Returned(Durable!Lpop(d, r.key)) = Returned(Lpop(d, r.key))
  BY SameOperations, SameReplies DEF Durable!Returned, Returned
<1>5. Durable!Returned(Durable!Rpop(d, r.key)) = Returned(Rpop(d, r.key))
  BY SameOperations, SameReplies DEF Durable!Returned, Returned
<1> QED
  BY <1>1, <1>2, <1>3, <1>4, <1>5, SameToUpper, SameReplies, SameSets
     DEF Durable!HandleCommand, HandleCommand

-----------------------------------------------------------------------------
(***************************************************************************)
(* Every step is one of DurableKV or none.  LogRequest commits: the record *)
(* makes the new store, and the reply owed is the one HandleCommand will   *)
(* compute.                                                                *)
(***************************************************************************)
LEMMA OwedFacts ==
  /\ pc[Client] = "idle" => Owed = NoReply
  /\ pc[Client] = "logged" => Owed = HandleCommand(db, req[Client]).reply
  /\ pc[Client] = "cleared" => Owed = [status |-> "OK", value |-> Absent]
  BY DEF Owed, Ok

LEMMA OwedFactsNext ==
  /\ pc'[Client] = "idle" => Owed' = NoReply
  /\ pc'[Client] = "logged" => Owed' = HandleCommand(db', req'[Client]).reply
  /\ pc'[Client] = "cleared" => Owed' = [status |-> "OK", value |-> Absent]
  BY DEF Owed, Ok

LEMMA LogRequestCommits ==
  ASSUME SoundLog, AloneWithoutDeadlines, TypeOK, LogInv, OneClientInv,
         NEW c \in Conns, NEW r \in Requests[c], LogRequest(c, r)
  PROVE  r \in Requests[Client] /\ Durable!Commit(r)
<1>1. /\ Logged(r) /\ c = Client /\ pc[c] = "idle" /\ phase = "up"
      /\ pc'[c] = "logged" /\ req'[c] = r /\ db' = db
      /\ file' = Append(file, RecordOf(r)) /\ reply' = reply
  BY ClientIsAlone DEF LogRequest, Received, Handles, Logged, TypeOK
<1>2. /\ RecordOf(r) \in Record /\ file \in Seq(Record)
      /\ r \in Request /\ Repeatable(r) /\ db \in Database
  BY <1>1, RequestFacts DEF LogInv, LogIsReplayable, TypeOK
<1>3. db = Recovered
  BY <1>1 DEF OneClientInv, MemoryFollowsLog
<1>4. Recovered' = Replayed(db, RecordOf(r))
  BY <1>1, <1>2, <1>3, RebuildAppend DEF Recovered
<1>5. r.exp = Absent \/ (r.exp \in Int /\ r.exp <= 0)
  BY <1>1 DEF AloneWithoutDeadlines
<1>6. Recovered' = HandleCommand(db, r).db
  BY <1>1, <1>2, <1>4, <1>5, HandledExactly
<1>7. Owed = NoReply /\ Owed' = HandleCommand(db, r).reply
  BY <1>1, OwedFacts, OwedFactsNext
<1>8. Durable!Effect(r) = HandleCommand(db, r)
  <2>1. ToUpper(r.cmd) # "FLUSHDB"
    BY <1>1 DEF Logged, LoggedCommands
  <2> QED
    BY <1>3, <2>1, SameHandleCommand, SameToUpper DEF Durable!Effect
<1>9. ToUpper(r.cmd) \in LoggedCommands
  BY <1>1 DEF Logged
<1> QED
  BY <1>1, <1>6, <1>7, <1>8, <1>9, SameReplies, SameSets, SameToUpper
     DEF Durable!Commit

LEMMA ClearDiskCommits ==
  ASSUME AloneWithoutDeadlines, TypeOK,
         NEW c \in Conns, NEW r \in Requests[c], ClearDisk(c, r)
  PROVE  r \in Requests[Client] /\ Durable!Commit(r)
<1>1. /\ c = Client /\ pc[c] = "idle" /\ ToUpper(r.cmd) = "FLUSHDB"
      /\ pc'[c] = "cleared" /\ file' = <<>> /\ reply' = reply
  BY ClientIsAlone DEF ClearDisk, ReadsFlush, Handles, Truncated, TypeOK
<1>2. Recovered' = NewDatabase
  BY <1>1, RebuildOfNothing DEF Recovered
<1>3. Owed = NoReply /\ Owed' = [status |-> "OK", value |-> Absent]
  BY <1>1, OwedFacts, OwedFactsNext
<1>4. Durable!Effect(r) = Ok(NewDatabase, Absent)
  BY <1>1, SameReplies, SameSets, SameToUpper DEF Durable!Effect
<1>5. Ok(NewDatabase, Absent)
        = [db |-> NewDatabase, reply |-> [status |-> "OK", value |-> Absent]]
  BY DEF Ok
<1> HIDE DEF NewDatabase
<1> QED
  BY <1>1, <1>2, <1>3, <1>4, <1>5, SameReplies, SameToUpper DEF Durable!Commit

LEMMA ExecuteResponds ==
  ASSUME SoundLog, AloneWithoutDeadlines, TypeOK, LogInv, OneClientInv,
         NEW c \in Conns, Execute(c)
  PROVE  Durable!Respond
<1> DEFINE out == HandleCommand(db, req[c])
<1>1. c = Client /\ pc[c] = "logged"
  BY ClientIsAlone DEF Execute
<1>2. out.reply.status \in {"OK", "ERROR"}
  BY <1>1, InFlightFacts
<1> HIDE DEF out
<1>3. pc'[c] = "idle" /\ reply'[c] = out.reply /\ file' = file
  BY <1>2 DEF Execute, Answer, TypeOK, out
<1>4. Owed = out.reply /\ Owed' = NoReply
  BY <1>1, <1>3, OwedFacts, OwedFactsNext DEF out
<1>5. Owed # NoReply
  BY <1>2, <1>4 DEF NoReply
<1> QED
  BY <1>1, <1>3, <1>4, <1>5, SameReplies DEF Durable!Respond, Recovered

LEMMA ClearMemoryResponds ==
  ASSUME AloneWithoutDeadlines, TypeOK, NEW c \in Conns, ClearMemory(c)
  PROVE  Durable!Respond
<1>1. /\ c = Client /\ pc[c] = "cleared" /\ pc'[c] = "idle" /\ file' = file
      /\ reply'[c] = [status |-> "OK", value |-> Absent]
  BY ClientIsAlone DEF ClearMemory, Answer, TypeOK
<1>2. Owed = [status |-> "OK", value |-> Absent] /\ Owed' = NoReply
  BY <1>1, OwedFacts, OwedFactsNext
<1>3. Owed # NoReply
  BY <1>2 DEF NoReply
<1> QED
  BY <1>1, <1>2, <1>3, SameReplies DEF Durable!Respond, Recovered

LEMMA HandleGetQueries ==
  ASSUME AloneWithoutDeadlines, TypeOK, OneClientInv,
         NEW c \in Conns, NEW r \in Requests[c], HandleGet(c, r)
  PROVE  r \in Requests[Client] /\ Durable!Query(r)
<1>1. /\ c = Client /\ phase = "up" /\ pc[c] = "idle" /\ pc'[c] = "idle"
      /\ ToUpper(r.cmd) = "GET" /\ file' = file
      /\ reply'[c] = Get(db, r.key).reply
  BY ClientIsAlone DEF HandleGet, Handles, TypeOK
<1>2. db = Recovered
  BY <1>1 DEF OneClientInv, MemoryFollowsLog
<1>3. Owed = NoReply /\ Owed' = NoReply
  BY <1>1, OwedFacts, OwedFactsNext
<1> QED
  BY <1>1, <1>2, <1>3, SameGet, SameReplies, SameToUpper
     DEF Durable!Query, Recovered

LEMMA LogRequestFailsRefuses ==
  ASSUME SoundLog, AloneWithoutDeadlines, TypeOK,
         NEW c \in Conns, NEW r \in Requests[c], LogRequestFails(c, r)
  PROVE  Durable!Refuse
<1>1. /\ c = Client /\ pc[c] = "idle" /\ pc'[c] = "idle" /\ file' = file
      /\ reply'[c] = Error
  BY ClientIsAlone
     DEF LogRequestFails, Received, Handles, Answer, SoundLog, TypeOK
<1>2. Owed = NoReply /\ Owed' = NoReply
  BY <1>1, OwedFacts, OwedFactsNext
<1> QED
  BY <1>1, <1>2, SameReplies DEF Durable!Refuse, Recovered

LEMMA DieDisconnects ==
  ASSUME AloneWithoutDeadlines, Die, UNCHANGED file
  PROVE  Durable!Disconnect
<1>1. pc'[Client] = "idle" /\ reply'[Client] = NoReply
  BY ClientIsAlone DEF Die
<1>2. Owed' = NoReply
  BY <1>1, OwedFactsNext
<1> QED
  BY <1>1, <1>2, SameReplies DEF Durable!Disconnect, Recovered

\* A restart, and the records it replays, do nothing to the store.
LEMMA RestartStutters ==
  ASSUME AloneWithoutDeadlines, LogInv, Start \/ Replay \/ Serve
  PROVE  UNCHANGED Durable!vars
<1>1. UNCHANGED <<file, pc, req, reply>> /\ phase # "up"
  BY DEF Start, Replay, Serve
<1>2. pc[Client] = "idle" /\ pc'[Client] = "idle"
  BY <1>1, ClientIsAlone DEF LogInv, NobodyServedUnlessUp
<1>3. Owed = NoReply /\ Owed' = NoReply
  BY <1>2, OwedFacts, OwedFactsNext
<1> QED
  BY <1>1, <1>3 DEF Durable!vars, Recovered

LEMMA StepRefines ==
  ASSUME SoundLog, FlushesAreAlone, AloneWithoutDeadlines,
         TypeOK, LogInv, OneClientInv, [Next]_vars
  PROVE  [Durable!Next]_(Durable!vars)
<1>1. ASSUME NEW c \in Conns, NEW r \in Requests[c],
             LogRequest(c, r) \/ ClearDisk(c, r)
      PROVE  Durable!Next
  BY <1>1, LogRequestCommits, ClearDiskCommits DEF Durable!Next
<1>2. ASSUME NEW c \in Conns, NEW r \in Requests[c], HandleGet(c, r)
      PROVE  Durable!Next
  BY <1>2, HandleGetQueries DEF Durable!Next
<1>3. ASSUME NEW c \in Conns, NEW r \in Requests[c], LogRequestFails(c, r)
      PROVE  Durable!Next
  BY <1>3, LogRequestFailsRefuses DEF Durable!Next
<1>4. ASSUME NEW c \in Conns, NEW r \in Requests[c],
             CrashInWrite(c, r) \/ ClearDiskFails(c, r)
      PROVE  Durable!Next
  BY <1>4 DEF CrashInWrite, ClearDiskFails, ReadsFlush, Handles, SoundLog,
              FlushesAreAlone
<1>5. ASSUME NEW c \in Conns, Execute(c) \/ ClearMemory(c)
      PROVE  Durable!Next
  BY <1>5, ExecuteResponds, ClearMemoryResponds DEF Durable!Next
<1>6. ~Tick /\ ~Cleanup
  BY DEF Tick, Cleanup, Expired, OneClientInv, NoDeadlineIsSet
<1>7. ASSUME Die, UNCHANGED file
      PROVE  Durable!Next
  BY <1>7, DieDisconnects DEF Durable!Next
<1>8. Start \/ Replay \/ Serve => UNCHANGED Durable!vars
  BY RestartStutters
<1>9. UNCHANGED vars => UNCHANGED Durable!vars
  BY DEF vars, Durable!vars, Recovered, Owed
<1>10. ASSUME NEW c \in Conns, NEW r \in Requests[c], OpenLog(c, r)
       PROVE  UNCHANGED Durable!vars
  BY <1>10 DEF OpenLog, Durable!vars, Recovered, Owed
<1>11. ~StartWithoutLog /\ ~ReadFails
       /\ \A c \in Conns : \A r \in Requests[c] : ~OpenLogFails(c, r)
  BY DEF SoundLog, StartWithoutLog, ReadFails, OpenLogFails
<1> QED
  BY <1>1, <1>2, <1>3, <1>4, <1>5, <1>6, <1>7, <1>8, <1>9, <1>10, <1>11
     DEF Next, KeyMissing, Crash, ReplayPanics

LEMMA InitRefines ==
  ASSUME SoundLog, AloneWithoutDeadlines, Init
  PROVE  Durable!Init
<1>1. Recovered \in Database
  BY RebuildType, StorageAssumption DEF Init, Recovered
<1>2. Owed = NoReply /\ reply[Client] = NoReply
  BY ClientIsAlone, OwedFacts DEF Init
<1> QED
  BY <1>1, <1>2, SameReplies, SameSets DEF Durable!Init

(***************************************************************************)
(* ImplementsDurableKV, for every log found at the start, any keys and any *)
(* requests: what the log, the maps, the crashes and the replays do to one *)
(* client is what a store that survives every crash does to it.            *)
(***************************************************************************)
THEOREM OneClientSeesADurableStore ==
  ASSUME SoundLog, FlushesAreAlone, AloneWithoutDeadlines
  PROVE  Spec => ImplementsDurableKV
<1>1. Init => Durable!Init
  BY InitRefines
<1>2. TypeOK /\ LogInv /\ OneClientInv /\ [Next]_vars
        => [Durable!Next]_(Durable!vars)
  BY StepRefines
<1> QED
  BY <1>1, <1>2, TypeCorrect, LogInvHolds, OneClientInvHolds, PTL
     DEF Spec, ImplementsDurableKV, Durable!Spec
=============================================================================
