--------------------------- MODULE CommandsProofs ---------------------------
(***************************************************************************)
(* What the commands of Commands do to the type of a database, for every   *)
(* set of keys and words and every width of an int.                        *)
(***************************************************************************)
EXTENDS Commands, TLAPS

LEMMA RemainderBound ==
  ASSUME NEW a \in Int, NEW b \in Int, b > 0
  PROVE  a % b \in 0 .. b - 1
  OBVIOUS

LEMMA WrapType ==
  ASSUME NEW n \in Int
  PROVE  Wrap(n) \in Number
<1>1. Half \in Int /\ 2 * Half \in Int /\ 2 * Half > 0
  BY CommandsAssumption
<1>2. (n + Half) % (2 * Half) \in 0 .. 2 * Half - 1
  BY <1>1, RemainderBound
<1> QED
  BY <1>1, <1>2 DEF Wrap, Number

\* A quotient and a remainder are unique, and exist.
LEMMA RemainderIsUnique ==
  ASSUME NEW m \in Nat \ {0}, NEW q \in Int, NEW r \in 0 .. m - 1
  PROVE  (m * q + r) % m = r
  OBVIOUS

LEMMA RemainderExists ==
  ASSUME NEW m \in Nat \ {0}, NEW a \in Int
  PROVE  \E q \in Int, r \in 0 .. m - 1 : a = m * q + r /\ a % m = r
  OBVIOUS

\* Numbers that differ by a multiple of m have one remainder.
LEMMA SameRemainder ==
  ASSUME NEW m \in Nat \ {0}, NEW q \in Int, NEW a \in Int
  PROVE  (a + m * q) % m = a % m
<1>1. PICK p \in Int, r \in 0 .. m - 1 : a = m * p + r /\ a % m = r
  BY RemainderExists
<1>2. a + m * q = m * (p + q) + r
  BY <1>1
<1> QED
  BY <1>1, <1>2, RemainderIsUnique

\* An int is stored as it is.
LEMMA WrapOfNumber ==
  ASSUME NEW n \in Number
  PROVE  Wrap(n) = n
<1>1. 2 * Half \in Nat \ {0} /\ n + Half \in 0 .. 2 * Half - 1 /\ n \in Int
  BY CommandsAssumption DEF Number
<1>2. (2 * Half * 0 + (n + Half)) % (2 * Half) = n + Half
  BY <1>1, RemainderIsUnique
<1> QED
  BY <1>1, <1>2, CommandsAssumption DEF Wrap

\* Additions may be wrapped in any order.
LEMMA WrapOfSum ==
  ASSUME NEW a \in Int, NEW b \in Int
  PROVE  Wrap(Wrap(a) + b) = Wrap(a + b)
<1> DEFINE m == 2 * Half
<1>1. m \in Nat \ {0} /\ Half \in Nat /\ a + Half \in Int
  BY CommandsAssumption
<1>2. PICK q \in Int, r \in 0 .. m - 1 : a + Half = m * q + r /\ (a + Half) % m = r
  BY <1>1, RemainderExists
<1>3. Wrap(a) = r - Half
  BY <1>2 DEF Wrap
<1> HIDE DEF m
<1>4. Wrap(a) + b + Half = r + b /\ r + b \in Int
  BY <1>1, <1>2, <1>3
<1>5. a + b + Half = (r + b) + m * q
  <2>1. m * q \in Int
    BY <1>1
  <2>2. r \in Int
    BY <1>1, <1>2
  <2> QED
    BY <1>1, <1>2, <2>1, <2>2
<1>6. ((r + b) + m * q) % m = (r + b) % m
  BY <1>1, <1>4, SameRemainder
<1> QED
  BY <1>4, <1>5, <1>6 DEF Wrap, m

\* What the caller of an operation gets: a database and a reply.
Outcome == [db : Database, reply : Reply]

LEMMA NewDatabaseType == NewDatabase \in Database
  BY DEF NewDatabase, Database

LEMMA FailType ==
  ASSUME NEW d \in Database
  PROVE  Fail(d) \in Outcome /\ Panic(d) \in Outcome
  BY DEF Fail, Panic, Outcome, Error, Reply, Element

LEMMA OkType ==
  ASSUME NEW d \in Database, NEW v \in Element
  PROVE  Ok(d, v) \in Outcome
  BY DEF Ok, Outcome, Reply

LEMMA SetType ==
  ASSUME NEW d \in Database, NEW key, NEW value \in Element,
         NEW ttl \in Int
  PROVE  Set(d, key, value, ttl) \in Outcome
<1>1. CASE key \in Keys /\ value # Empty
  <2> DEFINE e == [d EXCEPT !.store[key] = value,
                            !.left[key]  = IF ttl > 0 THEN ttl ELSE @]
  <2>1. e \in Database
    BY <1>1 DEF Database, Element
  <2> QED
    BY <1>1, <2>1, OkType DEF Set, Element
<1>2. CASE ~(key \in Keys /\ value # Empty)
  BY <1>2, FailType DEF Set
<1> QED
  BY <1>1, <1>2

LEMMA IncrType ==
  ASSUME NEW d \in Database, NEW key, NEW offset \in Number
  PROVE  Incr(d, key, offset) \in Outcome
<1>1. CASE key \in Keys /\ d.store[key] \in Number
  <2> DEFINE sum == Wrap(d.store[key] + offset)
             e == [d EXCEPT !.store[key] = sum]
  <2>1. sum \in Number
    <3>1. d.store[key] + offset \in Int
      BY <1>1, CommandsAssumption DEF Number
    <3> QED
      BY <3>1, WrapType
  <2>2. e \in Database
    BY <1>1, <2>1 DEF Database, Text
  <2>3. Incr(d, key, offset) = Ok(e, sum)
    BY <1>1 DEF Incr
  <2> QED
    BY <2>1, <2>2, <2>3, OkType DEF Element, Text
<1>2. CASE ~(key \in Keys /\ d.store[key] \in Number)
  BY <1>2, FailType DEF Incr
<1> QED
  BY <1>1, <1>2

LEMMA PushType ==
  ASSUME NEW d \in Database, NEW key, NEW value \in Element
  PROVE  Push(d, key, value) \in Outcome
<1>1. CASE key \in Keys
  <2> DEFINE new == IF d.lists[key] = Absent THEN <<value>>
                    ELSE Append(d.lists[key], value)
             e == [d EXCEPT !.lists[key] = new]
  <2>1. new \in Seq(Element)
    BY <1>1 DEF Database
  <2>2. e \in Database
    BY <1>1, <2>1 DEF Database
  <2>3. Push(d, key, value) = Ok(e, Absent)
    BY <1>1 DEF Push
  <2> QED
    BY <2>2, <2>3, OkType DEF Element
<1>2. CASE key \notin Keys
  BY <1>2, FailType DEF Push
<1> QED
  BY <1>1, <1>2

LEMMA PopType ==
  ASSUME NEW d \in Database, NEW key
  PROVE  Lpop(d, key) \in Outcome /\ Rpop(d, key) \in Outcome
<1>1. CASE Poppable(d, key)
  <2> DEFINE list == d.lists[key]
             l == [d EXCEPT !.lists[key] = Tail(list)]
             r == [d EXCEPT !.lists[key] = SubSeq(list, 1, Len(list) - 1)]
  <2>1. key \in Keys /\ list \in Seq(Element) /\ list # <<>>
    BY <1>1 DEF Poppable, Database
  <2>2. Len(list) \in Nat /\ Len(list) > 0
    BY <2>1
  <2>3. Head(list) \in Element /\ list[Len(list)] \in Element
    BY <2>1, <2>2
  <2>4. Tail(list) \in Seq(Element)
    BY <2>1
  <2>5. SubSeq(list, 1, Len(list) - 1) \in Seq(Element)
    BY <2>1, <2>2
  <2>6. l \in Database /\ r \in Database
    BY <2>1, <2>4, <2>5 DEF Database
  <2>7. Lpop(d, key) = Ok(l, Head(list))
    BY <1>1 DEF Lpop
  <2>8. Rpop(d, key) = Ok(r, list[Len(list)])
    BY <1>1 DEF Rpop
  <2> QED
    BY <2>3, <2>6, <2>7, <2>8, OkType
<1>2. CASE ~Poppable(d, key)
  BY <1>2, FailType DEF Lpop, Rpop
<1> QED
  BY <1>1, <1>2

LEMMA ReturnedType ==
  ASSUME NEW out \in Outcome
  PROVE  Returned(out) \in Outcome
  BY DEF Returned, Outcome, Error, Reply, Element

LEMMA HandleCommandType ==
  ASSUME NEW d \in Database, NEW r \in Request
  PROVE  HandleCommand(d, r) \in Outcome
<1> DEFINE cmd == ToUpper(r.cmd)
           ttl == IF r.exp = Absent THEN 0 ELSE r.exp
<1>1. CASE cmd = "SET"
  <2>1. CASE r.exp = Wide \/ r.value = Absent
    BY <1>1, <2>1, FailType DEF HandleCommand
  <2>2. CASE r.exp # Wide /\ r.value # Absent
    <3>1. ttl \in Int /\ r.value \in Element
      BY <2>2 DEF Request, Element
    <3>2. HandleCommand(d, r) = Set(d, r.key, r.value, ttl)
      BY <1>1, <2>2 DEF HandleCommand
    <3> QED
      BY <3>1, <3>2, SetType
  <2> QED
    BY <2>1, <2>2
<1>2. CASE cmd = "INCR"
  BY <1>2, IncrType, FailType DEF HandleCommand
<1>3. CASE cmd = "PUSH"
  <2>1. r.value \in Element
    BY DEF Request, Element
  <2> QED
    BY <1>3, <2>1, PushType, FailType DEF HandleCommand
<1>4. CASE cmd = "LPOP" \/ cmd = "RPOP"
  BY <1>4, PopType, ReturnedType DEF HandleCommand
<1>5. CASE cmd \notin LoggedCommands
  BY <1>5, FailType DEF HandleCommand, LoggedCommands
<1> QED
  BY <1>1, <1>2, <1>3, <1>4, <1>5 DEF LoggedCommands

LEMMA ReplayedType ==
  ASSUME NEW d \in Database, NEW rec \in Record
  PROVE  Replayed(d, rec) \in Database
<1>1. CASE rec.cmd = "SET"
  <2>1. rec.value \in Element
    BY DEF Record, Element
  <2>2. Set(d, rec.key, rec.value, 0) \in Outcome
    BY <2>1, SetType
  <2> QED
    BY <1>1, <2>2 DEF Replayed, Outcome
<1>2. CASE rec.cmd = "INCR"
  BY <1>2, IncrType DEF Replayed, Outcome
<1>3. CASE rec.cmd = "PUSH"
  <2>1. rec.value \in Element
    BY DEF Record, Element
  <2> QED
    BY <1>3, <2>1, PushType DEF Replayed, Outcome
<1>4. CASE rec.cmd = "RPOP" \/ rec.cmd = "LPOP"
  BY <1>4, PopType DEF Replayed, Outcome
<1>5. CASE rec.cmd \notin LoggedCommands
  BY <1>5 DEF Replayed, LoggedCommands
<1> QED
  BY <1>1, <1>2, <1>3, <1>4, <1>5 DEF LoggedCommands

-----------------------------------------------------------------------------
(***************************************************************************)
(* A command reads and writes the entries of its own key only, so that     *)
(* what becomes of a key can be followed without the others.               *)
(***************************************************************************)
At(d, k) ==
  [store |-> d.store[k], left |-> d.left[k], lists |-> d.lists[k]]

\* A database with nothing of interest but one key.
Alone(s) ==
  [store |-> [k \in Keys |-> s.store],
   left  |-> [k \in Keys |-> s.left],
   lists |-> [k \in Keys |-> s.lists]]

Effect(k, s, r) == At(HandleCommand(Alone(s), r).db, k)

LEMMA OtherKeysKept ==
  ASSUME NEW d \in Database, NEW r \in Request, NEW k \in Keys, r.key # k
  PROVE  At(HandleCommand(d, r).db, k) = At(d, k)
<1> USE DEF HandleCommand, Ok, Fail, Panic, Database, At
<1> DEFINE cmd == ToUpper(r.cmd)
<1>1. CASE cmd = "SET"
  BY <1>1 DEF Set
<1>2. CASE cmd = "INCR"
  BY <1>2 DEF Incr
<1>3. CASE cmd = "PUSH"
  BY <1>3 DEF Push
<1>4. CASE cmd = "LPOP"
  BY <1>4 DEF Lpop, Returned
<1>5. CASE cmd = "RPOP"
  BY <1>5 DEF Rpop, Returned
<1>6. CASE cmd \notin LoggedCommands
  BY <1>6 DEF LoggedCommands
<1> QED
  BY <1>1, <1>2, <1>3, <1>4, <1>5, <1>6 DEF LoggedCommands

LEMMA SameAtItsKey ==
  ASSUME NEW d \in Database, NEW e \in Database, NEW r \in Request,
         r.key \in Keys, At(d, r.key) = At(e, r.key)
  PROVE  At(HandleCommand(d, r).db, r.key) = At(HandleCommand(e, r).db, r.key)
<1> USE DEF HandleCommand, Ok, Fail, Panic, Database, At
<1> DEFINE cmd == ToUpper(r.cmd)
<1>0. /\ d.store[r.key] = e.store[r.key]
      /\ d.left[r.key] = e.left[r.key]
      /\ d.lists[r.key] = e.lists[r.key]
  OBVIOUS
<1>1. CASE cmd = "SET"
  BY <1>0, <1>1 DEF Set
<1>2. CASE cmd = "INCR"
  BY <1>0, <1>2 DEF Incr
<1>3. CASE cmd = "PUSH"
  BY <1>0, <1>3 DEF Push
<1>4. CASE cmd = "LPOP"
  BY <1>0, <1>4 DEF Lpop, Poppable, Returned
<1>5. CASE cmd = "RPOP"
  BY <1>0, <1>5 DEF Rpop, Poppable, Returned
<1>6. CASE cmd \notin LoggedCommands
  BY <1>0, <1>6 DEF LoggedCommands
<1> QED
  BY <1>1, <1>2, <1>3, <1>4, <1>5, <1>6 DEF LoggedCommands

LEMMA EffectOfCommand ==
  ASSUME NEW d \in Database, NEW r \in Request, r.key \in Keys
  PROVE  At(HandleCommand(d, r).db, r.key) = Effect(r.key, At(d, r.key), r)
<1> DEFINE e == Alone(At(d, r.key))
<1>1. e \in Database /\ At(e, r.key) = At(d, r.key)
  BY DEF Alone, At, Database
<1> HIDE DEF e
<1>2. At(HandleCommand(d, r).db, r.key) = At(HandleCommand(e, r).db, r.key)
  BY <1>1, SameAtItsKey
<1> QED
  BY <1>2 DEF e, Effect

\* Only a SET with "exp" touches a deadline.
LEMMA DeadlinesKept ==
  ASSUME NEW d \in Database, NEW r \in Request, r.exp = Absent
  PROVE  HandleCommand(d, r).db.left = d.left
<1> USE DEF HandleCommand, Ok, Fail, Panic, Database
<1> DEFINE cmd == ToUpper(r.cmd)
<1>1. CASE cmd = "SET"
  BY <1>1 DEF Set
<1>2. CASE cmd = "INCR"
  BY <1>2 DEF Incr
<1>3. CASE cmd = "PUSH"
  BY <1>3 DEF Push
<1>4. CASE cmd = "LPOP" \/ cmd = "RPOP"
  BY <1>4 DEF Lpop, Rpop, Returned
<1>5. CASE cmd \notin LoggedCommands
  BY <1>5 DEF LoggedCommands
<1> QED
  BY <1>1, <1>2, <1>3, <1>4, <1>5 DEF LoggedCommands

(***************************************************************************)
(* A refused command changes nothing, with one exception: the pop of an    *)
(* empty string is answered with an error and takes it.                    *)
(***************************************************************************)
NoEmpty(d) ==
  \A k \in Keys : d.lists[k] # Absent =>
    \A i \in DOMAIN d.lists[k] : d.lists[k][i] # Empty

LEMMA NoEmptyAdded ==
  ASSUME NEW s \in Seq(Element), NEW v \in Element, v # Empty,
         \A i \in DOMAIN s : s[i] # Empty
  PROVE  \A i \in DOMAIN Append(s, v) : Append(s, v)[i] # Empty
  OBVIOUS

LEMMA NoEmptyTaken ==
  ASSUME NEW s \in Seq(Element), s # <<>>, \A i \in DOMAIN s : s[i] # Empty
  PROVE  /\ \A i \in DOMAIN Tail(s) : Tail(s)[i] # Empty
         /\ \A i \in DOMAIN SubSeq(s, 1, Len(s) - 1) :
              SubSeq(s, 1, Len(s) - 1)[i] # Empty
         /\ Head(s) # Empty
         /\ s[Len(s)] # Empty
  OBVIOUS

LEMMA NoEmptyKept ==
  ASSUME NEW d \in Database, NEW r \in Request, NoEmpty(d),
         ToUpper(r.cmd) = "PUSH" => r.value # Empty
  PROVE  NoEmpty(HandleCommand(d, r).db)
<1> USE DEF HandleCommand, Ok, Fail, Panic
<1> DEFINE cmd == ToUpper(r.cmd)
<1>1. CASE cmd = "SET"
  BY <1>1 DEF Set, Database, NoEmpty
<1>2. CASE cmd = "INCR"
  BY <1>2 DEF Incr, Database, NoEmpty
<1>3. CASE cmd = "PUSH"
  <2>1. CASE r.key \in Keys /\ r.value # Absent
    <3> DEFINE new == IF d.lists[r.key] = Absent THEN <<r.value>>
                      ELSE Append(d.lists[r.key], r.value)
               e == [d EXCEPT !.lists[r.key] = new]
    <3>1. r.value \in Element
      BY DEF Request, Element
    <3>2. \A i \in DOMAIN new : new[i] # Empty
      BY <1>3, <2>1, <3>1, NoEmptyAdded DEF NoEmpty, Database
    <3>3. HandleCommand(d, r).db = e
      BY <1>3, <2>1 DEF Push
    <3>4. e.lists = [d.lists EXCEPT ![r.key] = new] /\ DOMAIN d.lists = Keys
      BY DEF Database
    <3> HIDE DEF new, e
    <3> QED
      BY <3>2, <3>3, <3>4 DEF NoEmpty
  <2>2. CASE ~(r.key \in Keys /\ r.value # Absent)
    BY <1>3, <2>2 DEF Push
  <2> QED
    BY <2>1, <2>2
<1>4. CASE cmd \in {"LPOP", "RPOP"}
  <2>1. CASE Poppable(d, r.key)
    <3> DEFINE s == d.lists[r.key]
               new == IF cmd = "LPOP" THEN Tail(s)
                                      ELSE SubSeq(s, 1, Len(s) - 1)
               e == [d EXCEPT !.lists[r.key] = new]
    <3>1. s \in Seq(Element) /\ s # <<>> /\ r.key \in Keys
          /\ \A i \in DOMAIN s : s[i] # Empty
      BY <2>1 DEF Poppable, Database, NoEmpty
    <3>2. \A i \in DOMAIN new : new[i] # Empty
      BY <3>1, NoEmptyTaken
    <3>3. HandleCommand(d, r).db = e
      BY <1>4, <2>1 DEF Lpop, Rpop, Returned
    <3>4. e.lists = [d.lists EXCEPT ![r.key] = new] /\ DOMAIN d.lists = Keys
      BY DEF Database
    <3> HIDE DEF new, e
    <3> QED
      BY <3>1, <3>2, <3>3, <3>4 DEF NoEmpty
  <2>2. CASE ~Poppable(d, r.key)
    BY <1>4, <2>2 DEF Lpop, Rpop, Returned
  <2> QED
    BY <2>1, <2>2
<1>5. CASE cmd \notin LoggedCommands
  BY <1>5 DEF LoggedCommands
<1> QED
  BY <1>1, <1>2, <1>3, <1>4, <1>5 DEF LoggedCommands

LEMMA RefusedChangesNothing ==
  ASSUME NEW d \in Database, NEW r \in Request, NoEmpty(d),
         HandleCommand(d, r).reply.status # "OK"
  PROVE  HandleCommand(d, r).db = d
<1> USE DEF HandleCommand, Ok, Fail, Panic
<1> DEFINE cmd == ToUpper(r.cmd)
<1>1. CASE cmd = "SET"
  BY <1>1 DEF Set
<1>2. CASE cmd = "INCR"
  BY <1>2 DEF Incr
<1>3. CASE cmd = "PUSH"
  BY <1>3 DEF Push
<1>4. CASE cmd \in {"LPOP", "RPOP"}
  <2>1. CASE Poppable(d, r.key)
    <3> DEFINE s == d.lists[r.key]
    <3>1. s \in Seq(Element) /\ s # <<>>
          /\ \A i \in DOMAIN s : s[i] # Empty
      BY <2>1 DEF Poppable, Database, NoEmpty
    <3>2. Head(s) # Empty /\ s[Len(s)] # Empty
      BY <3>1, NoEmptyTaken
    <3>3. HandleCommand(d, r).reply.status = "OK"
      BY <1>4, <2>1, <3>2 DEF Lpop, Rpop, Returned
    <3> QED
      BY <3>3
  <2>2. CASE ~Poppable(d, r.key)
    BY <1>4, <2>2 DEF Lpop, Rpop, Returned
  <2> QED
    BY <2>1, <2>2
<1>5. CASE cmd \notin LoggedCommands
  BY <1>5 DEF LoggedCommands
<1> QED
  BY <1>1, <1>2, <1>3, <1>4, <1>5 DEF LoggedCommands
=============================================================================
