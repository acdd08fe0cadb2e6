--------------------------- MODULE AgreementProofs ---------------------------
(***************************************************************************)
(* ReplicasAgree, for every set of nodes, of connections and of requests,  *)
(* for any number of writes, failures and timeouts.  The writes run on     *)
(* each node in an order of its own, but those of one key in the same.     *)
(***************************************************************************)
EXTENDS ReplicationProofs

-----------------------------------------------------------------------------
(***************************************************************************)
(* A request that is replicated does the same in each of its three forms,  *)
(* as a client sent it, forwarded or copied, and out of a log, unless it   *)
(* has an "exp".                                                           *)
(***************************************************************************)
Sendable(r) ==
  /\ r \in Request
  /\ ToUpper(r.cmd) \in LoggedCommands
  /\ r.key \in Keys
  /\ r.value # Empty
  /\ ToUpper(r.cmd) = "PUSH" => r.value # Absent

Forms(r) == {r, Converted(r), Synced(RecordOf(r))}

LEMMA FormsType ==
  ASSUME NEW r, Sendable(r), NEW f \in Forms(r)
  PROVE  /\ f \in Request /\ f.cmd = r.cmd /\ f.key = r.key
         /\ ToUpper(f.cmd) = "PUSH" => f.value = r.value
<1>1. f \in Request
  BY ConvertedType, SyncedType DEF Sendable, Forms
<1>2. r.key \notin {Absent, Empty}
  BY CommandsAssumption DEF Sendable
<1>3. CASE f = r
  BY <1>1, <1>3
<1>4. CASE f = Converted(r)
  <2>1. f.cmd = r.cmd /\ f.key = r.key
    BY <1>2, <1>4 DEF Converted, ConvertCommandToRequest,
                      ConvertRequestToCommand, Optional, Field
  <2>2. ToUpper(f.cmd) = "PUSH" => f.value = r.value
    BY <1>4, <2>1 DEF Converted, ConvertCommandToRequest, Sendable,
                      ConvertRequestToCommand, Optional, Field
  <2> QED
    BY <1>1, <2>1, <2>2
<1>5. CASE f = Synced(RecordOf(r))
  BY <1>1, <1>5 DEF Synced, RecordOf, Optional, Field, Sendable
<1> QED
  BY <1>3, <1>4, <1>5 DEF Forms

LEMMA FormsDoTheSame ==
  ASSUME NEW d \in Database, NEW r, Sendable(r), r.exp = Absent,
         NEW f \in Forms(r)
  PROVE  HandleCommand(d, f) = HandleCommand(d, r) /\ f.exp = Absent
<1>1. f.cmd = r.cmd /\ f.key = r.key
  BY FormsType
<1>2. f.exp = Absent
  <2>1. Absent \notin Long
    BY CommandsAssumption, ConversionsAssumption
  <2> QED
    BY <2>1 DEF Forms, Converted, ConvertCommandToRequest,
                ConvertRequestToCommand, Synced
<1>3. /\ f.value = r.value \/ (r.value = Absent /\ f.value = Empty)
      /\ f.offset = r.offset \/ {f.offset, r.offset} \subseteq {Absent, Empty}
  BY DEF Forms, Converted, ConvertCommandToRequest, ConvertRequestToCommand,
         Synced, RecordOf, Optional, Field, Sendable
<1>4. Absent \notin Number /\ Empty \notin Number /\ Absent # Wide
      /\ Absent # Empty
  BY CommandsAssumption DEF Text
<1>5. HandleCommand(d, f) = HandleCommand(d, r)
  <2> DEFINE cmd == ToUpper(r.cmd)
  <2>1. CASE cmd = "SET"
    <3>1. CASE f.value = r.value
      BY <1>1, <1>2, <2>1, <3>1 DEF HandleCommand
    <3>2. CASE r.value = Absent /\ f.value = Empty
      BY <1>1, <1>2, <1>4, <2>1, <3>2 DEF HandleCommand, Set
    <3> QED
      BY <1>3, <3>1, <3>2
  <2>2. CASE cmd = "INCR"
    BY <1>1, <1>3, <1>4, <2>2 DEF HandleCommand
  <2>3. CASE cmd = "PUSH"
    BY <1>1, <1>3, <2>3 DEF HandleCommand, Sendable
  <2>4. CASE cmd = "LPOP" \/ cmd = "RPOP"
    BY <1>1, <2>4 DEF HandleCommand
  <2> QED
    BY <2>1, <2>2, <2>3, <2>4 DEF Sendable, LoggedCommands
<1> QED
  BY <1>2, <1>5

(***************************************************************************)
(* What a write does to key k on a node that has s of it, and that running *)
(* the writes of L one by one takes s to t.  q has the request of a write. *)
(***************************************************************************)
Step(q, k, s, w) == IF q[w].key = k THEN Effect(k, s, q[w]) ELSE s

Replays(q, k, s, L, t) ==
  \E G : /\ G[0] = s
         /\ G[Len(L)] = t
         /\ \A i \in 1 .. Len(L) : G[i] = Step(q, k, G[i - 1], L[i])

\* Any form of a write has its effect on k, if it has no "exp" for k.
LEMMA StepOfForm ==
  ASSUME NEW d \in Database, NoEmpty(d), NEW k \in Keys, NEW q, NEW w,
         Sendable(q[w]), q[w].key = k => q[w].exp = Absent,
         NEW f \in Forms(q[w])
  PROVE  /\ At(HandleCommand(d, f).db, k) = Step(q, k, At(d, k), w)
         /\ HandleCommand(d, f).db.left[k] = d.left[k]
         /\ HandleCommand(d, f).reply.status # "OK" =>
              At(HandleCommand(d, f).db, k) = At(d, k)
<1> DEFINE r == q[w]
<1>1. f \in Request /\ f.key = r.key /\ r \in Request /\ r.key \in Keys
  BY FormsType DEF Sendable
<1>2. CASE r.key # k
  <2>1. At(HandleCommand(d, f).db, k) = At(d, k)
    BY <1>1, <1>2, OtherKeysKept
  <2> QED
    BY <1>2, <2>1 DEF Step, At
<1>3. CASE r.key = k
  <2>1. HandleCommand(d, f) = HandleCommand(d, r) /\ r.exp = Absent
    BY <1>3, FormsDoTheSame
  <2>2. At(HandleCommand(d, r).db, k) = Effect(k, At(d, k), r)
    BY <1>1, <1>3, EffectOfCommand
  <2>3. HandleCommand(d, r).db.left = d.left
    BY <1>1, <2>1, DeadlinesKept
  <2>4. HandleCommand(d, r).reply.status # "OK" => HandleCommand(d, r).db = d
    BY <1>1, RefusedChangesNothing
  <2> QED
    BY <1>3, <2>1, <2>2, <2>3, <2>4 DEF Step
<1> QED
  BY <1>2, <1>3

LEMMA ReplaysNothing ==
  ASSUME NEW q, NEW k, NEW s, NEW t
  PROVE  Replays(q, k, s, <<>>, t) <=> s = t
<1>1. ASSUME Replays(q, k, s, <<>>, t)
      PROVE  s = t
  BY <1>1 DEF Replays
<1>2. Replays(q, k, s, <<>>, s)
  <2> DEFINE G == [i \in {0} |-> s]
  <2>1. G[0] = s /\ Len(<<>>) = 0
    OBVIOUS
  <2> HIDE DEF G
  <2> QED
    BY <2>1 DEF Replays
<1> QED
  BY <1>1, <1>2

LEMMA ReplaysOneMore ==
  ASSUME NEW q, NEW k, NEW s, NEW t, NEW S, NEW L \in Seq(S), NEW w \in S,
         Replays(q, k, s, L, t)
  PROVE  Replays(q, k, s, Append(L, w), Step(q, k, t, w))
<1>1. PICK G : /\ G[0] = s
               /\ G[Len(L)] = t
               /\ \A i \in 1 .. Len(L) : G[i] = Step(q, k, G[i - 1], L[i])
  BY DEF Replays
<1> DEFINE n == Len(L)
           u == Step(q, k, t, w)
           H == [i \in 0 .. n + 1 |-> IF i = n + 1 THEN u ELSE G[i]]
           M == Append(L, w)
<1>2. /\ n \in Nat /\ Len(M) = n + 1 /\ M[n + 1] = w
      /\ \A i \in 1 .. n : M[i] = L[i]
  OBVIOUS
<1>3. H[0] = s /\ H[n + 1] = u /\ H[n] = t
  BY <1>1, <1>2
<1>4. \A i \in 1 .. n + 1 : H[i] = Step(q, k, H[i - 1], M[i])
  <2> SUFFICES ASSUME NEW i \in 1 .. n + 1
               PROVE  H[i] = Step(q, k, H[i - 1], M[i])
    OBVIOUS
  <2>1. CASE i = n + 1
    <3>1. i - 1 = n
      BY <1>2, <2>1
    <3> QED
      BY <1>2, <1>3, <2>1, <3>1
  <2>2. CASE i \in 1 .. n
    <3>1. H[i] = G[i] /\ H[i - 1] = G[i - 1] /\ M[i] = L[i]
      BY <1>2, <2>2
    <3> QED
      BY <1>1, <2>2, <3>1
  <2> QED
    BY <1>2, <2>1, <2>2
<1> HIDE DEF H, M
<1> QED
  BY <1>2, <1>3, <1>4 DEF Replays

LEMMA ReplaysTheRest ==
  ASSUME NEW q, NEW k, NEW s, NEW t, NEW S, NEW L \in Seq(S), L # <<>>,
         Replays(q, k, s, L, t)
  PROVE  Replays(q, k, Step(q, k, s, Head(L)), Tail(L), t)
<1>1. PICK G : /\ G[0] = s
               /\ G[Len(L)] = t
               /\ \A i \in 1 .. Len(L) : G[i] = Step(q, k, G[i - 1], L[i])
  BY DEF Replays
<1> DEFINE n == Len(L)
           H == [i \in 0 .. n - 1 |-> G[i + 1]]
           M == Tail(L)
<1>2. /\ n \in Nat /\ n > 0 /\ Len(M) = n - 1 /\ L[1] = Head(L)
      /\ \A i \in 1 .. n - 1 : M[i] = L[i + 1]
  OBVIOUS
<1>3. H[0] = Step(q, k, s, Head(L)) /\ H[n - 1] = t
  <2>1. G[1] = Step(q, k, G[0], L[1])
    <3>1. 1 \in 1 .. n /\ 1 - 1 = 0
      BY <1>2
    <3> QED
      BY <1>1, <3>1
  <2>2. H[0] = G[1] /\ H[n - 1] = G[n]
    <3>1. 0 \in 0 .. n - 1 /\ n - 1 \in 0 .. n - 1 /\ n - 1 + 1 = n
      BY <1>2
    <3> QED
      BY <3>1
  <2> QED
    BY <1>1, <1>2, <2>1, <2>2
<1>4. \A i \in 1 .. n - 1 : H[i] = Step(q, k, H[i - 1], M[i])
  <2> SUFFICES ASSUME NEW i \in 1 .. n - 1
               PROVE  H[i] = Step(q, k, H[i - 1], M[i])
    OBVIOUS
  <2>1. i + 1 \in 1 .. n /\ i + 1 - 1 = i /\ i - 1 + 1 = i
        /\ i \in 0 .. n - 1 /\ i - 1 \in 0 .. n - 1
    BY <1>2
  <2>2. H[i] = G[i + 1] /\ H[i - 1] = G[i]
    BY <2>1
  <2>3. G[i + 1] = Step(q, k, G[i], L[i + 1])
    BY <1>1, <2>1
  <2> QED
    BY <1>2, <2>2, <2>3
<1> HIDE DEF H, M
<1> QED
  BY <1>2, <1>3, <1>4 DEF Replays

LEMMA ReplaysAlike ==
  ASSUME NEW p, NEW q, NEW k, NEW s, NEW t, NEW S, NEW L \in Seq(S),
         \A w \in S : p[w] = q[w], Replays(p, k, s, L, t)
  PROVE  Replays(q, k, s, L, t)
<1>1. PICK G : /\ G[0] = s
               /\ G[Len(L)] = t
               /\ \A i \in 1 .. Len(L) : G[i] = Step(p, k, G[i - 1], L[i])
  BY DEF Replays
<1>2. \A i \in 1 .. Len(L) : L[i] \in S
  BY ElementOfSeq
<1>3. \A i \in 1 .. Len(L) : G[i] = Step(q, k, G[i - 1], L[i])
  BY <1>1, <1>2 DEF Step
<1> QED
  BY <1>1, <1>3 DEF Replays

-----------------------------------------------------------------------------
(***************************************************************************)
(* How far a write is, and what a step may do to that: a client that waits *)
(* has no answer before the write is through, unless it was told UNKNOWN,  *)
(* and has one then, but for the node that took it and failed; no write is *)
(* taken up again.                                                         *)
(***************************************************************************)
reqs == [w \in DOMAIN writes |-> writes[w].req]

ToldRight(x) ==
  /\ x.stage = "called" \/ (x.to # Origin[x.conn] /\ x.stage = "copying") =>
       x.told \in {"none", "UNKNOWN"}
  /\ x.told = "none" => x.stage \in {"called", "copying", "lost"}

Onward(x, y) ==
  /\ y.conn = x.conn /\ y.req = x.req /\ y.to = x.to
  /\ x.told = "UNKNOWN" => y.told = "UNKNOWN"
  /\ y.stage \in {"called", "copying"} => x.stage \in {"called", "copying"}
  /\ ToldRight(x) => ToldRight(y)

WritesAdvance ==
  /\ DOMAIN writes \subseteq DOMAIN writes'
  /\ \A w \in DOMAIN writes : Onward(writes[w], writes'[w])
  /\ \A w \in DOMAIN writes' \ DOMAIN writes :
       /\ \A v \in DOMAIN writes : v < w
       /\ \A v \in DOMAIN writes' \ DOMAIN writes : v = w
       /\ Sendable(writes'[w].req)
       /\ ToldRight(writes'[w])
       /\ ~Busy(writes'[w].conn)

LEMMA SendAdvances ==
  ASSUME IInv, NEW c \in Conns, NEW r \in Requests[c], Received(c, r),
         NEW x \in Write, writes' = Append(writes, x),
         x.conn = c, x.req = r, ToldRight(x)
  PROVE  WritesAdvance
<1>1. /\ Len(writes) \in Nat
      /\ Len(writes') = Len(writes) + 1
      /\ DOMAIN writes' = DOMAIN writes \cup {Len(writes')}
      /\ DOMAIN writes = 1 .. Len(writes)
      /\ writes'[Len(writes')] = x
      /\ \A v \in DOMAIN writes : writes'[v] = writes[v]
  BY Facts, Sent
<1>2. Sendable(r)
  BY ReplicationAssumption DEF Received, Sendable
<1>3. ~Busy(c)
  BY DEF Received
<1> QED
  BY <1>1, <1>2, <1>3 DEF WritesAdvance, Onward

LEMMA ChangeAdvances ==
  ASSUME writes \in Seq(Write), NEW w \in DOMAIN writes, NEW x \in Write,
         writes' = [writes EXCEPT ![w] = x], Onward(writes[w], x)
  PROVE  WritesAdvance
<1>1. /\ DOMAIN writes' = DOMAIN writes
      /\ \A v \in DOMAIN writes : writes'[v] = IF v = w THEN x ELSE writes[v]
  BY ExceptWrite
<1> QED
  BY <1>1 DEF WritesAdvance, Onward

(***************************************************************************)
(* What holds besides IInv, whatever the key: late copies go to nodes that *)
(* are out of step, no copy to a node in step that does not serve, and the *)
(* lists hold no empty string.                                             *)
(***************************************************************************)
Spared ==
  \A n \in alive \ (serving \cup apart) : \A w \in DOMAIN writes :
    n \notin writes[w].todo

LateApart == \A x \in late : x[2] \in apart

NoEmpties == \A n \in Node : NoEmpty(db[n])

WellSent ==
  \A w \in DOMAIN writes : Sendable(writes[w].req) /\ ToldRight(writes[w])

Order == Spared /\ LateApart /\ NoEmpties /\ WellSent

LEMMA WellSentKept ==
  ASSUME WellSent, WritesAdvance
  PROVE  WellSent'
BY DEF WellSent, WritesAdvance, Onward

LEMMA LateApartKept ==
  ASSUME LateApart, apart \cap alive' \subseteq apart',
         late' \subseteq late, late' \subseteq (DOMAIN writes) \X alive'
  PROVE  LateApart'
<1> SUFFICES ASSUME NEW x \in late'
             PROVE  x[2] \in apart'
  BY DEF LateApart
<1>1. x[2] \in apart
  BY DEF LateApart
<1>2. PICK w \in DOMAIN writes, f \in alive' : x = <<w, f>>
  OBVIOUS
<1> QED
  BY <1>1, <1>2

LEMMA NoEmptiesKept ==
  ASSUME IInv, NoEmpties, NEW n \in Node, NEW q, Sendable(q),
         NEW f \in Forms(q),
         db' = [db EXCEPT ![n] = HandleCommand(@, f).db]
  PROVE  NoEmpties'
<1>1. db \in [Node -> Database]
  BY Facts DEF NodesType
<1>2. f \in Request /\ (ToUpper(f.cmd) = "PUSH" => f.value # Empty)
  BY FormsType DEF Sendable
<1>3. NoEmpty(HandleCommand(db[n], f).db)
  BY <1>1, <1>2, NoEmptyKept DEF NoEmpties
<1>4. \A m \in Node :
        db'[m] = IF m = n THEN HandleCommand(db[n], f).db ELSE db[m]
  BY <1>1
<1>5. \A m \in Node : NoEmpty(db'[m])
  BY <1>3, <1>4 DEF NoEmpties
<1> QED
  BY <1>5 DEF NoEmpties

LEMMA OrderTogether ==
  ASSUME Spared', LateApart', NoEmpties', WellSent, WritesAdvance
  PROVE  Order' /\ WritesAdvance
BY WellSentKept DEF Order

(***************************************************************************)
(* Order and the advance of the writes, action by action.                  *)
(***************************************************************************)
LEMMA SilentOrder ==
  ASSUME IInv, Order, UNCHANGED <<writes, db, late>>,
         serving \subseteq serving', apart \subseteq apart',
         \A n \in alive' \ alive : \A w \in DOMAIN writes :
           n \in writes[w].todo => n \in apart'
  PROVE  Order' /\ WritesAdvance
<1>1. WritesAdvance
  BY DEF WritesAdvance, Onward
<1>2. Spared'
  BY DEF Order, Spared
<1>3. LateApart'
  BY DEF Order, LateApart
<1>4. NoEmpties'
  BY DEF Order, NoEmpties
<1> QED
  BY <1>1, <1>2, <1>3, <1>4, OrderTogether DEF Order

LEMMA StandingOrder ==
  ASSUME IInv, Order, NEW n \in Node, NEW m \in Node,
         \/ NodeVotes(n, m) \/ NodeForgets(n)
         \/ LeaderChanges(n, m)
         \/ \E to \in SUBSET Node : BecomesLeader(n, to)
         \/ Start(n, m)
         \/ Serve(n)
         \/ SyncRequest(n)
  PROVE  Order' /\ WritesAdvance
<1>1. CASE NodeVotes(n, m) \/ NodeForgets(n) \/ LeaderChanges(n, m)
  BY <1>1, SilentOrder
     DEF NodeVotes, NodeForgets, LeaderChanges, Votes, Forgets, Follows, nodes
<1>2. ASSUME NEW to \in SUBSET Node, BecomesLeader(n, to)
      PROVE  Order' /\ WritesAdvance
  BY <1>2, SilentOrder DEF BecomesLeader, Leads, nodes
<1>3. CASE Start(n, m)
  BY <1>3, SilentOrder DEF Start, Joins, nodes
<1>4. CASE Serve(n)
  BY <1>4, SilentOrder DEF Serve, membership
<1>5. CASE SyncRequest(n)
  BY <1>5, SilentOrder DEF SyncRequest, membership
<1> QED
  BY <1>1, <1>2, <1>3, <1>4, <1>5

LEMMA ExpireOrder ==
  ASSUME IInv, Order, NEW n \in Node, NEW k \in Keys, Expire(n, k)
  PROVE  Order' /\ WritesAdvance
<1>1. UNCHANGED <<alive, serving, writes, late, apart>>
  BY DEF Expire, membership
<1>2. WritesAdvance
  BY <1>1 DEF WritesAdvance, Onward
<1>3. Spared' /\ LateApart'
  BY <1>1 DEF Order, Spared, LateApart
<1>4. NoEmpties'
  <2>1. db \in [Node -> Database]
    BY Facts DEF NodesType
  <2>2. db'[n].lists = db[n].lists /\ \A m \in Node \ {n} : db'[m] = db[m]
    BY <2>1 DEF Expire, Database
  <2>3. \A m \in Node : db'[m].lists = db[m].lists
    BY <2>2
  <2> QED
    BY <2>3 DEF Order, NoEmpties, NoEmpty
<1> QED
  BY <1>2, <1>3, <1>4, OrderTogether DEF Order

LEMMA SyncNextOrder ==
  ASSUME IInv, Order, NEW n \in Node, SyncNext(n)
  PROVE  Order' /\ WritesAdvance
<1>1. UNCHANGED <<alive, serving, writes, late, apart>>
  BY DEF SyncNext, membership
<1>2. WritesAdvance
  BY <1>1 DEF WritesAdvance, Onward
<1>3. Spared' /\ LateApart'
  BY <1>1 DEF Order, Spared, LateApart
<1>4. NoEmpties'
  <2>1. pend[n] \in Seq(DOMAIN writes) /\ pend[n] # <<>>
    BY Facts DEF SyncNext, NodesType
  <2>2. Head(pend[n]) \in DOMAIN writes
    BY <2>1
  <2>3. PICK q : q = writes[Head(pend[n])].req
    OBVIOUS
  <2>4. Sendable(q) /\ Synced(RecordOf(q)) \in Forms(q)
    BY <2>2, <2>3 DEF Order, WellSent, Forms
  <2>5. db' = [db EXCEPT ![n] = HandleCommand(@, Synced(RecordOf(q))).db]
    BY <2>3 DEF SyncNext
  <2> QED
    BY <2>4, <2>5, NoEmptiesKept DEF Order
<1> QED
  BY <1>2, <1>3, <1>4, OrderTogether DEF Order

\* NoEmpties, when w runs on n in the form of a copy.
LEMMA NoEmptiesCopied ==
  ASSUME IInv, Order, NEW w \in DOMAIN writes, NEW n \in Node,
         HandleHere(n, w, Converted(writes[w].req))
  PROVE  NoEmpties'
<1>1. PICK q : q = writes[w].req
  OBVIOUS
<1>2. Sendable(q) /\ Converted(q) \in Forms(q)
  BY <1>1 DEF Order, WellSent, Forms
<1>3. db' = [db EXCEPT ![n] = HandleCommand(@, Converted(q)).db]
  BY <1>1 DEF HandleHere
<1> QED
  BY <1>2, <1>3, NoEmptiesKept DEF Order

LEMMA LateCopyOrder ==
  ASSUME IInv, Order, NEW w \in DOMAIN writes, NEW f \in Node, LateCopy(w, f)
  PROVE  Order' /\ WritesAdvance
<1>1. /\ UNCHANGED <<alive, serving, writes, apart>>
      /\ late' = late \ {<<w, f>>}
      /\ HandleHere(f, w, Converted(writes[w].req))
  BY DEF LateCopy, membership, HandleHere
<1>2. WritesAdvance
  BY <1>1 DEF WritesAdvance, Onward
<1>3. Spared' /\ LateApart'
  BY <1>1 DEF Order, Spared, LateApart
<1>4. NoEmpties'
  BY <1>1, NoEmptiesCopied
<1> QED
  BY <1>2, <1>3, <1>4, OrderTogether DEF Order

\* A write whose todo does not grow.
LEMMA FewerOrder ==
  ASSUME IInv, Order, NEW w \in DOMAIN writes, NEW x \in Write,
         writes' = [writes EXCEPT ![w] = x], Onward(writes[w], x),
         x.todo \subseteq writes[w].todo,
         UNCHANGED <<alive, serving>>, apart \subseteq apart',
         \A y \in late' : y \in late \/ y[2] \in apart',
         NoEmpties'
  PROVE  Order' /\ WritesAdvance
<1>1. writes \in Seq(Write)
  BY Facts
<1>2. WritesAdvance
  BY <1>1, ChangeAdvances
<1>3. /\ DOMAIN writes' = DOMAIN writes
      /\ \A v \in DOMAIN writes : writes'[v] = IF v = w THEN x ELSE writes[v]
  BY <1>1, ExceptWrite
<1>4. Spared'
  BY <1>3 DEF Order, Spared
<1>5. LateApart'
  BY DEF Order, LateApart
<1> QED
  BY <1>2, <1>4, <1>5, OrderTogether DEF Order

LEMMA ForwardFailsOrder ==
  ASSUME IInv, Order, NEW w \in DOMAIN writes,
         ForwardFails(w) \/ ForwardTimesOut(w) \/ Replicated(w)
  PROVE  Order' /\ WritesAdvance
<1> DEFINE r == writes[w]
           told(a) == IF r.told = "none" THEN a ELSE r.told
           lost == [r EXCEPT !.stage = "lost", !.told = told("ERROR")]
           slow == [r EXCEPT !.told = "UNKNOWN"]
           over == [r EXCEPT !.stage = "over", !.told = told("OK")]
<1>1. r \in Write
  BY Facts
<1>2. \A x \in {lost, slow, over} : x \in Write /\ x.todo = r.todo
  BY <1>1 DEF Write
<1>3. PICK x \in {lost, slow, over} :
        writes' = [writes EXCEPT ![w] = x] /\ Onward(r, x)
  <2>1. CASE ForwardFails(w)
    <3>1. Onward(r, lost)
      BY <1>1 DEF Write, Onward, ToldRight
    <3> QED
      BY <2>1, <3>1 DEF ForwardFails
  <2>2. CASE ForwardTimesOut(w)
    <3>1. Onward(r, slow)
      BY <1>1 DEF Write, Onward, ToldRight
    <3> QED
      BY <2>2, <3>1 DEF ForwardTimesOut
  <2>3. CASE Replicated(w)
    <3>1. Onward(r, over)
      BY <1>1 DEF Write, Onward, ToldRight
    <3> QED
      BY <2>3, <3>1 DEF Replicated
  <2> QED
    BY <2>1, <2>2, <2>3
<1>4. UNCHANGED <<alive, serving, apart, late, db>>
  BY DEF ForwardFails, ForwardTimesOut, Replicated, membership, nodes
<1>5. NoEmpties'
  BY <1>4 DEF Order, NoEmpties
<1> HIDE DEF lost, slow, over
<1> QED
  BY <1>2, <1>3, <1>4, <1>5, FewerOrder

LEMMA CopyOrder ==
  ASSUME IInv, Order, NEW w \in DOMAIN writes, NEW f \in Node,
         ReplicateRequest(w, f) \/ CopyFails(w, f) \/ CopyTimesOut(w, f)
  PROVE  Order' /\ WritesAdvance
<1> DEFINE r == writes[w]
           x == [r EXCEPT !.todo = @ \ {f}]
<1>1. r \in Write
  BY Facts
<1>2. /\ x \in Write /\ x.todo \subseteq r.todo
      /\ Onward(r, x)
  BY <1>1 DEF Write, Onward, ToldRight
<1>3. writes' = [writes EXCEPT ![w] = x]
  BY DEF ReplicateRequest, CopyFails, CopyTimesOut
<1>4. /\ UNCHANGED <<alive, serving>> /\ apart \subseteq apart'
      /\ \A y \in late' : y \in late \/ y[2] \in apart'
  BY DEF ReplicateRequest, CopyFails, CopyTimesOut, membership, nodes,
         HandleHere
<1>5. NoEmpties'
  <2>1. CASE ReplicateRequest(w, f)
    BY <2>1, NoEmptiesCopied DEF ReplicateRequest
  <2>2. CASE CopyFails(w, f) \/ CopyTimesOut(w, f)
    BY <2>2 DEF CopyFails, CopyTimesOut, nodes, Order, NoEmpties
  <2> QED
    BY <2>1, <2>2
<1> HIDE DEF x
<1> QED
  BY <1>2, <1>3, <1>4, <1>5, FewerOrder

LEMMA ForwardOrder ==
  ASSUME IInv, Order, NEW c \in Conns, NEW r \in Requests[c], Forward(c, r)
  PROVE  Order' /\ WritesAdvance
<1> DEFINE x == [conn |-> c, req |-> r, to |-> addr[Origin[c]],
                 stage |-> "called", todo |-> {}, told |-> "none"]
<1>1. x \in Write
  <2>1. Origin[c] \in alive \ leads /\ Origin[c] \in Node /\ r \in Request
    BY Facts, ReplicationAssumption DEF Forward, Received
  <2>2. addr[Origin[c]] \in Node
    BY <2>1, Facts DEF MembershipTypeOK
  <2> QED
    BY <2>1, <2>2 DEF Write
<1>2. /\ writes' = Append(writes, x)
      /\ x.conn = c /\ x.req = r /\ x.todo = {} /\ ToldRight(x)
  BY DEF Forward, Send, ToldRight
<1>3. UNCHANGED <<alive, serving, db, late, apart>> /\ Received(c, r)
  BY DEF Forward, membership, nodes
<1> HIDE DEF x
<1>4. WritesAdvance
  BY <1>1, <1>2, <1>3, SendAdvances
<1>5. /\ DOMAIN writes' = DOMAIN writes \cup {Len(writes')}
      /\ writes'[Len(writes')] = x
      /\ \A v \in DOMAIN writes : writes'[v] = writes[v]
  BY <1>1, <1>2, Facts, Sent
<1>6. Spared'
  BY <1>2, <1>3, <1>5 DEF Order, Spared
<1>7. LateApart' /\ NoEmpties'
  BY <1>3 DEF Order, LateApart, NoEmpties
<1> QED
  BY <1>4, <1>6, <1>7, OrderTogether DEF Order

\* A client's write, run on the node it came to.
LEMMA RunHereOrder ==
  ASSUME IInv, Order, NEW c \in Conns, NEW r \in Requests[c],
         WriteOnLeader(c, r) \/ WriteHere(c, r)
  PROVE  Order' /\ WritesAdvance
<1> DEFINE n == Origin[c]
           w == Len(writes) + 1
           yes == [conn |-> c, req |-> r, to |-> n,
                   stage |-> "copying", todo |-> list[n], told |-> "OK"]
           no == [conn |-> c, req |-> r, to |-> n,
                  stage |-> "refused", todo |-> {}, told |-> "ERROR"]
           here(a) == [conn |-> c, req |-> r, to |-> n,
                       stage |-> "local", todo |-> {}, told |-> a]
<1>1. n \in serving /\ n \in Node /\ r \in Request /\ Received(c, r)
  BY Facts, ReplicationAssumption DEF WriteOnLeader, WriteHere, Received
<1>2. \A x \in {yes, no, here("OK"), here("ERROR")} :
        x \in Write /\ x.conn = c /\ x.req = r /\ ToldRight(x)
  <2>1. list[n] \subseteq Node
    BY <1>1, Facts DEF MembershipTypeOK
  <2> QED
    BY <1>1, <2>1 DEF Write, ToldRight
<1>3. PICK x \in {yes, no, here("OK"), here("ERROR")} :
        /\ writes' = Append(writes, x)
        /\ \/ x.todo = {}
           \/ /\ x.todo = list[n]
              /\ apart' = apart \cup OutOfStep(n, list[n])
  <2>1. CASE WriteOnLeader(c, r)
    <3>1. CASE Accepted(n, r)
      BY <2>1, <3>1 DEF WriteOnLeader, Send
    <3>2. CASE ~Accepted(n, r)
      BY <2>1, <3>2 DEF WriteOnLeader, Send
    <3> QED
      BY <3>1, <3>2
  <2>2. CASE WriteHere(c, r)
    BY <2>2 DEF WriteHere, Send
  <2> QED
    BY <2>1, <2>2
<1>4. /\ UNCHANGED <<alive, serving, late>>
      /\ apart \subseteq apart'
      /\ HandleHere(n, w, r)
  BY DEF WriteOnLeader, WriteHere, membership, HandleHere
<1> HIDE DEF yes, no, here
<1>5. WritesAdvance
  BY <1>1, <1>2, <1>3, SendAdvances
<1>6. /\ DOMAIN writes' = DOMAIN writes \cup {Len(writes')}
      /\ writes'[Len(writes')] = x
      /\ \A v \in DOMAIN writes : writes'[v] = writes[v]
  BY <1>2, <1>3, Facts, Sent
<1>7. Spared'
  <2> SUFFICES ASSUME NEW m \in alive \ (serving \cup apart'),
                      m \in x.todo
               PROVE  FALSE
    BY <1>4, <1>6 DEF Order, Spared
  <2>1. m # n
    BY <1>1
  <2> QED
    BY <1>3, <2>1 DEF OutOfStep
<1>8. LateApart'
  BY <1>4 DEF Order, LateApart
<1>9. NoEmpties'
  <2>1. Sendable(r) /\ r \in Forms(r)
    BY <1>1, ReplicationAssumption DEF Received, Sendable, Forms
  <2>2. db' = [db EXCEPT ![n] = HandleCommand(@, r).db]
    BY <1>4 DEF HandleHere
  <2> QED
    BY <1>1, <2>1, <2>2, NoEmptiesKept DEF Order
<1> QED
  BY <1>5, <1>7, <1>8, <1>9, OrderTogether DEF Order

LEMMA ForwardRequestOrder ==
  ASSUME IInv, Order, NEW w \in DOMAIN writes, ForwardRequest(w)
  PROVE  Order' /\ WritesAdvance
<1> DEFINE n == writes[w].to
           yes(S) == [writes[w] EXCEPT !.stage = "copying", !.todo = S]
           no == [writes[w] EXCEPT !.stage = "refused",
                                   !.told = IF @ = "none" THEN "ERROR" ELSE @]
<1>1. /\ writes[w] \in Write /\ writes[w].stage = "called"
      /\ n \in alive /\ n \in Node
      /\ HandleHere(n, w, Converted(writes[w].req))
      /\ UNCHANGED <<alive, serving, late>>
  BY Facts DEF ForwardRequest, membership, HandleHere, Write
<1>2. writes[w].told \in {"none", "UNKNOWN"}
  BY <1>1 DEF Order, WellSent, ToldRight
<1>3. PICK x \in Write :
        /\ writes' = [writes EXCEPT ![w] = x]
        /\ Onward(writes[w], x)
        /\ \/ x.todo = {} /\ apart' = apart
           \/ apart' = IF n \in leads THEN apart \cup OutOfStep(n, x.todo)
                                      ELSE alive
  <2>1. CASE Accepted(n, Converted(writes[w].req))
    <3>1. PICK S \in SUBSET Node :
            /\ writes' = [writes EXCEPT ![w].stage = "copying", ![w].todo = S]
            /\ apart' = IF n \in leads THEN apart \cup OutOfStep(n, S)
                                       ELSE alive
      BY <2>1 DEF ForwardRequest
    <3>2. yes(S) \in Write /\ Onward(writes[w], yes(S)) /\ yes(S).todo = S
      BY <1>1, <1>2 DEF Write, Onward, ToldRight
    <3>3. writes' = [writes EXCEPT ![w] = yes(S)]
      BY <3>1
    <3> HIDE DEF yes
    <3> QED
      BY <3>1, <3>2, <3>3
  <2>2. CASE ~Accepted(n, Converted(writes[w].req))
    <3>1. no \in Write /\ Onward(writes[w], no) /\ no.todo = writes[w].todo
      BY <1>1, <1>2 DEF Write, Onward, ToldRight
    <3>2. writes' = [writes EXCEPT ![w] = no] /\ apart' = apart
      BY <2>2 DEF ForwardRequest
    <3>3. writes[w].todo = {}
      BY <1>1, Facts DEF InShape
    <3> HIDE DEF no
    <3> QED
      BY <3>1, <3>2, <3>3
  <2> QED
    BY <2>1, <2>2
<1>4. /\ WritesAdvance
      /\ DOMAIN writes' = DOMAIN writes
      /\ \A v \in DOMAIN writes : writes'[v] = IF v = w THEN x ELSE writes[v]
  BY <1>3, Facts, ChangeAdvances, ExceptWrite
<1>5. apart \subseteq apart'
  BY <1>3, Facts
<1>6. Spared'
  <2> SUFFICES ASSUME NEW m \in alive \ (serving \cup apart'),
                      m \in x.todo
               PROVE  FALSE
    BY <1>1, <1>4, <1>5 DEF Order, Spared
  <2>1. n \in leads => m # n
    BY Facts
  <2> QED
    BY <1>3, <2>1 DEF OutOfStep
<1>7. LateApart'
  BY <1>1, <1>5 DEF Order, LateApart
<1>8. NoEmpties'
  <2>1. PICK m \in Node : m = n
    BY <1>1
  <2>2. HandleHere(m, w, Converted(writes[w].req))
    BY <1>1, <2>1 DEF HandleHere
  <2> QED
    BY <2>2, NoEmptiesCopied
<1> QED
  BY <1>4, <1>6, <1>7, <1>8, OrderTogether DEF Order

\* The writes change their todo all at once.
LEMMA ListOrder ==
  ASSUME IInv, Order, NEW l \in Node, NEW d \in Node,
         NodeEnters(l, d) \/ NodeLeaves(l, d)
  PROVE  Order' /\ WritesAdvance
<1>1. PICK W \in SUBSET InFlight(l), S \in {{d}, {}}, T \in {{d}, {}} :
        /\ writes' = [w \in DOMAIN writes |->
                        IF w \in W
                        THEN [writes[w] EXCEPT !.todo = (@ \cup S) \ T]
                        ELSE writes[w]]
        /\ W # {} /\ S # {} => d \in apart'
        /\ apart \subseteq apart'
  <2>1. CASE NodeEnters(l, d)
    <3>1. PICK W \in SUBSET InFlight(l) :
            /\ writes' = [w \in DOMAIN writes |->
                            IF w \in W
                            THEN [writes[w] EXCEPT !.todo = @ \cup {d}]
                            ELSE writes[w]]
            /\ apart' = IF W # {} THEN apart \cup ({d} \cap alive) ELSE apart
      BY <2>1 DEF NodeEnters
    <3>2. writes' = [w \in DOMAIN writes |->
                       IF w \in W
                       THEN [writes[w] EXCEPT !.todo = (@ \cup {d}) \ {}]
                       ELSE writes[w]]
      BY <3>1
    <3>3. d \in alive
      BY <2>1 DEF NodeEnters
    <3> QED
      BY <3>1, <3>2, <3>3
  <2>2. CASE NodeLeaves(l, d)
    <3>1. writes' = [w \in DOMAIN writes |->
                       IF w \in InFlight(l)
                       THEN [writes[w] EXCEPT !.todo = (@ \cup {}) \ {d}]
                       ELSE writes[w]]
      BY <2>2 DEF NodeLeaves
    <3>2. apart \subseteq apart'
      BY <2>2 DEF NodeLeaves
    <3> QED
      BY <3>1, <3>2
  <2> QED
    BY <2>1, <2>2
<1>2. UNCHANGED <<alive, serving, db, late>>
  BY DEF NodeEnters, NodeLeaves, Enters, Leaves, nodes
<1>3. /\ DOMAIN writes' = DOMAIN writes
      /\ \A w \in DOMAIN writes :
           /\ Onward(writes[w], writes'[w])
           /\ writes'[w].todo \subseteq
                writes[w].todo \cup (IF W # {} THEN S ELSE {})
  BY <1>1, Facts DEF Write, Onward, ToldRight
<1>4. WritesAdvance
  BY <1>3 DEF WritesAdvance
<1>5. Spared'
  BY <1>1, <1>2, <1>3 DEF Order, Spared
<1>6. LateApart' /\ NoEmpties'
  BY <1>1, <1>2 DEF Order, LateApart, NoEmpties
<1> QED
  BY <1>4, <1>5, <1>6, OrderTogether DEF Order

LEMMA NewDatabaseNoEmpty == NoEmpty(NewDatabase)
BY DEF NoEmpty, NewDatabase

LEMMA CrashOrder ==
  ASSUME IInv, Order, NEW n \in Node, Crash(n)
  PROVE  Order' /\ WritesAdvance
<1>1. Ends(n)
  BY DEF Crash
<1>2. /\ alive' = alive \ {n}
      /\ serving' = serving \ {n}
      /\ apart \cap alive' \subseteq apart'
      /\ late' = {x \in late : x[2] # n}
      /\ db' = [db EXCEPT ![n] = NewDatabase]
  BY <1>1 DEF Ends, Fails
<1>3. /\ DOMAIN writes' = DOMAIN writes
      /\ \A w \in DOMAIN writes :
           /\ Onward(writes[w], writes'[w])
           /\ writes'[w].todo \subseteq writes[w].todo
  <2>1. writes' =
          [w \in DOMAIN writes |->
             LET x == writes[w] IN
             [x EXCEPT
                !.stage = IF x.to = n /\ @ \in {"called", "copying"}
                          THEN "lost" ELSE @,
                !.todo  = IF x.to = n THEN {} ELSE @,
                !.told  = IF Origin[x.conn] = n /\ @ = "none"
                          THEN "UNKNOWN" ELSE @]]
    BY <1>1 DEF Ends
  <2> QED
    BY <2>1, Facts DEF Write, Onward, ToldRight
<1>4. WritesAdvance
  BY <1>3 DEF WritesAdvance
<1>5. Spared'
  BY <1>2, <1>3 DEF Order, Spared
<1>6. late \subseteq (DOMAIN writes) \X alive
  BY Facts
<1>7. LateApart'
  BY <1>2, <1>6, LateApartKept DEF Order
<1>8. NoEmpties'
  <2>1. \A m \in Node : db'[m] = IF m = n THEN NewDatabase ELSE db[m]
    BY <1>2, Facts DEF NodesType
  <2> QED
    BY <2>1, NewDatabaseNoEmpty DEF Order, NoEmpties
<1> QED
  BY <1>4, <1>5, <1>7, <1>8, OrderTogether DEF Order

-----------------------------------------------------------------------------
(***************************************************************************)
(* The invariant of a key k that is Plain.  All nodes in step are bound    *)
(* for one state F of k: what a node has of k, taken through the part of   *)
(* the log it is still to run and the copy it is still to get, ends in F.  *)
(* A node that syncs starts from nothing (Fallow) and runs what its leader *)
(* ran, so that leader must have what its own runs make of nothing         *)
(* (Retraced).  At most one copy is on its way, as one connection writes k *)
(* and waits for each write (InTurn).                                      *)
(***************************************************************************)
Nothing(k) == At(NewDatabase, k)

Retraced(k) ==
  \A n \in Node : Replays(reqs, k, Nothing(k), ran[n], At(db[n], k))

Fallow(k) == \A n \in Node \ (synced \cup apart) : At(db[n], k) = Nothing(k)

NoDeadline(k) == \A n \in Node : db[n].left[k] = Absent

InTurn(k) ==
  \A v, w \in On(k) : v < w => writes[v].stage \notin {"called", "copying"}

Awaits(n, w) == n \in writes[w].todo \ {writes[w].to}

BoundFor(k, F, n) ==
  \E t : /\ Replays(reqs, k, At(db[n], k), pend[n], t)
         /\ (\A w \in On(k) : ~Awaits(n, w)) => t = F
         /\ \A w \in On(k) : Awaits(n, w) => F = Step(reqs, k, t, w)

Converging(k) == \E F : \A n \in synced \ apart : BoundFor(k, F, n)

KeyInv(k) ==
  Retraced(k) /\ Fallow(k) /\ NoDeadline(k) /\ InTurn(k) /\ Converging(k)

Agreement == \A k \in Keys : Plain(k) => KeyInv(k)

\* A leader in step waits for no copy.
LEMMA LeaderAwaitsNone ==
  ASSUME IInv, NEW l \in leads \ apart, NEW w \in DOMAIN writes
  PROVE  ~Awaits(l, w)
<1> SUFFICES ASSUME Awaits(l, w)
             PROVE  FALSE
  OBVIOUS
<1>1. l \in writes[w].todo /\ writes[w].to # l
  BY DEF Awaits
<1>2. writes[w].stage = "copying"
  BY <1>1, Facts DEF InShape
<1>3. writes[w].to \in leads \/ writes[w].todo \cap alive \subseteq apart
  BY <1>2, Facts DEF Copiers
<1> QED
  BY <1>1, <1>3, Facts

LEMMA AgreementSuffices ==
  ASSUME IInv, Agreement
  PROVE  ReplicasAgree
<1> SUFFICES ASSUME NEW l \in leads \ apart, NEW n \in serving \ apart,
                    NEW k \in Keys, Plain(k),
                    \A w \in On(k) : writes[w].stage # "copying"
             PROVE  At(db[n], k) = At(db[l], k)
  BY DEF ReplicasAgree, At
<1>1. PICK F : \A m \in synced \ apart : BoundFor(k, F, m)
  BY DEF Agreement, KeyInv, Converging
<1>2. \A w \in On(k) : writes[w].todo = {}
  BY Facts DEF On, InShape
<1>3. ASSUME NEW m \in serving \ apart
      PROVE  At(db[m], k) = F
  <2>1. m \in synced \ apart /\ pend[m] = <<>>
    BY Facts
  <2>2. Replays(reqs, k, At(db[m], k), <<>>, F)
    BY <1>1, <1>2, <2>1 DEF BoundFor, Awaits
  <2> QED
    BY <2>2, ReplaysNothing
<1>4. l \in serving
  BY Facts
<1> QED
  BY <1>3, <1>4

-----------------------------------------------------------------------------
(***************************************************************************)
(* One step, seen from a key that is Plain after it.                       *)
(***************************************************************************)
Seen(k) ==
  /\ IInv /\ IInv' /\ Order /\ WritesAdvance
  /\ Plain(k) /\ Plain(k)' /\ KeyInv(k) /\ InTurn(k)'

LEMMA PlainBefore ==
  ASSUME NEW k \in Keys, WritesAdvance, Plain(k)'
  PROVE  Plain(k)
BY DEF Plain, On, WritesAdvance, Onward

LEMMA InTurnKept ==
  ASSUME NEW k \in Keys, IInv, IInv', WritesAdvance, WellSent,
         Plain(k), Plain(k)', InTurn(k)
  PROVE  InTurn(k)'
<1> SUFFICES ASSUME NEW v \in On(k)', NEW w \in On(k)', v < w
             PROVE  writes'[v].stage \notin {"called", "copying"}
  BY DEF InTurn
<1>1. DOMAIN writes = 1 .. Len(writes) /\ Len(writes) \in Nat
  BY Facts
<1>2. CASE w \in DOMAIN writes /\ v \in DOMAIN writes
  <2>1. v \in On(k) /\ w \in On(k)
    BY <1>2 DEF On, WritesAdvance, Onward
  <2> QED
    BY <1>2, <2>1 DEF InTurn, WritesAdvance, Onward
<1>3. CASE w \notin DOMAIN writes /\ v \in DOMAIN writes
  <2>1. v \in On(k) /\ Onward(writes[v], writes'[v])
    BY <1>3 DEF On, WritesAdvance, Onward
  <2>2. /\ w \in DOMAIN writes' \ DOMAIN writes
        /\ writes'[w].conn = writes[v].conn
    BY <1>3, <2>1 DEF Plain, On, Onward
  <2>3. ~Busy(writes[v].conn)
    BY <2>2 DEF WritesAdvance
  <2>4. /\ writes[v].told \notin {"none", "UNKNOWN"}
        /\ Forwarded(v) \/ writes[v].stage # "copying"
    BY <1>3, <2>1, <2>3 DEF Busy, Plain
  <2>5. writes[v].stage \notin {"called", "copying"}
    BY <1>3, <2>4 DEF WellSent, ToldRight, Forwarded
  <2> QED
    BY <2>1, <2>5 DEF Onward
<1>4. CASE v \notin DOMAIN writes
  <2>1. v \in DOMAIN writes' \ DOMAIN writes /\ w \in DOMAIN writes'
    BY <1>4 DEF On
  <2>2. /\ \A u \in DOMAIN writes : u < v
        /\ \A u \in DOMAIN writes' \ DOMAIN writes : u = v
    BY <2>1 DEF WritesAdvance
  <2>3. v \in Nat /\ w \in Nat
    <3>1. DOMAIN writes' = 1 .. Len(writes') /\ Len(writes') \in Nat
      BY DEF IInv, TypeOK
    <3> QED
      BY <2>1, <3>1
  <2>4. w = v \/ w < v
    BY <2>1, <2>2
  <2> QED
    BY <2>3, <2>4
<1> QED
  BY <1>2, <1>3, <1>4

LEMMA SeenFacts ==
  ASSUME NEW k \in Keys, Seen(k)
  PROVE  /\ DOMAIN writes \subseteq DOMAIN writes'
         /\ \A v \in DOMAIN writes :
              /\ reqs[v] = writes[v].req /\ reqs'[v] = reqs[v]
              /\ v \in On(k)' <=> v \in On(k)
         /\ \A v \in DOMAIN writes' :
              /\ reqs'[v] = writes'[v].req /\ Sendable(reqs'[v])
              /\ reqs'[v].key = k <=> v \in On(k)'
              /\ reqs'[v].key = k => reqs'[v].exp = Absent
         /\ \A n \in Node :
              /\ pend[n] \in Seq(DOMAIN writes)
              /\ ran[n] \in Seq(DOMAIN writes)
              /\ ran[n] \in Seq(DOMAIN writes')
              /\ db[n] \in Database /\ NoEmpty(db[n])
<1>1. /\ DOMAIN writes \subseteq DOMAIN writes'
      /\ \A v \in DOMAIN writes : Onward(writes[v], writes'[v])
  BY DEF Seen, WritesAdvance
<1>2. \A v \in DOMAIN writes :
        /\ reqs[v] = writes[v].req /\ reqs'[v] = reqs[v]
        /\ v \in On(k)' <=> v \in On(k)
  BY <1>1 DEF reqs, Onward, On
<1>3. WellSent'
  BY WellSentKept DEF Seen, Order
<1>4. \A v \in DOMAIN writes' :
        /\ reqs'[v] = writes'[v].req /\ Sendable(reqs'[v])
        /\ reqs'[v].key = k <=> v \in On(k)'
        /\ reqs'[v].key = k => reqs'[v].exp = Absent
  BY <1>3 DEF reqs, On, WellSent, Seen, Plain
<1>5. ASSUME NEW n \in Node
      PROVE  /\ pend[n] \in Seq(DOMAIN writes) /\ ran[n] \in Seq(DOMAIN writes)
             /\ ran[n] \in Seq(DOMAIN writes')
             /\ db[n] \in Database /\ NoEmpty(db[n])
  <2>1. /\ pend[n] \in Seq(DOMAIN writes) /\ ran[n] \in Seq(DOMAIN writes)
        /\ db[n] \in Database /\ NoEmpty(db[n])
    BY Facts DEF Seen, NodesType, Order, NoEmpties
  <2>2. \A i \in 1 .. Len(ran[n]) : ran[n][i] \in DOMAIN writes'
    BY <1>1, <2>1, ElementOfSeq
  <2>3. ran[n] \in Seq(DOMAIN writes')
    BY <2>1, <2>2, SeqDef
  <2> QED
    BY <2>1, <2>3
<1> QED
  BY <1>1, <1>2, <1>4, <1>5

LEMMA StillReplays ==
  ASSUME NEW k \in Keys, Seen(k), NEW s, NEW t, NEW L \in Seq(DOMAIN writes),
         Replays(reqs, k, s, L, t)
  PROVE  Replays(reqs', k, s, L, t)
<1>1. PICK p, q, S : p = reqs /\ q = reqs' /\ S = DOMAIN writes
  OBVIOUS
<1>2. \A w \in S : p[w] = q[w]
  BY <1>1, SeenFacts
<1>3. L \in Seq(S) /\ Replays(p, k, s, L, t)
  BY <1>1
<1>4. Replays(q, k, s, L, t)
  BY <1>2, <1>3, ReplaysAlike
<1> QED
  BY <1>1, <1>4

LEMMA StillRetraced ==
  ASSUME NEW k \in Keys, Seen(k), NEW m \in Node
  PROVE  Replays(reqs', k, Nothing(k), ran[m], At(db[m], k))
<1>1. Replays(reqs, k, Nothing(k), ran[m], At(db[m], k))
  BY DEF Seen, KeyInv, Retraced
<1>2. PICK s, t, L : s = Nothing(k) /\ t = At(db[m], k) /\ L = ran[m]
  OBVIOUS
<1>3. L \in Seq(DOMAIN writes) /\ Replays(reqs, k, s, L, t)
  BY <1>1, <1>2, SeenFacts
<1> QED
  BY <1>2, <1>3, StillReplays

\* A write that runs on n, in whatever form.
LEMMA RunsOn ==
  ASSUME NEW k \in Keys, Seen(k), NEW n \in Node, NEW w \in DOMAIN writes',
         NEW f, f \in Forms(writes'[w].req),
         ran' = [ran EXCEPT ![n] = Append(@, w)],
         db' = [db EXCEPT ![n] = HandleCommand(@, f).db]
  PROVE  /\ Retraced(k)' /\ NoDeadline(k)'
         /\ \A m \in Node \ {n} : At(db'[m], k) = At(db[m], k)
         /\ At(db'[n], k) = Step(reqs', k, At(db[n], k), w)
         /\ HandleCommand(db[n], f).reply.status # "OK" =>
              At(db'[n], k) = At(db[n], k)
<1>1. PICK q, d, e, S : /\ q = reqs' /\ d = db[n] /\ S = DOMAIN writes'
                        /\ e = HandleCommand(d, f).db
  OBVIOUS
<1>2. /\ d \in Database /\ NoEmpty(d) /\ Sendable(q[w])
      /\ q[w].key = k => q[w].exp = Absent
      /\ f \in Forms(q[w])
  BY <1>1, SeenFacts
<1>3. /\ At(e, k) = Step(q, k, At(d, k), w)
      /\ e.left[k] = d.left[k]
      /\ HandleCommand(d, f).reply.status # "OK" => At(e, k) = At(d, k)
  BY <1>1, <1>2, StepOfForm
<1>4. \A m \in Node : /\ db'[m] = IF m = n THEN e ELSE db[m]
                      /\ ran'[m] = IF m = n THEN Append(ran[n], w) ELSE ran[m]
  BY <1>1, Facts DEF Seen, NodesType
<1>5. NoDeadline(k)'
  BY <1>1, <1>3, <1>4 DEF Seen, KeyInv, NoDeadline
<1>6. \A m \in Node : Replays(q, k, Nothing(k), ran[m], At(db[m], k))
  BY <1>1, StillRetraced
<1>7. Replays(q, k, Nothing(k), Append(ran[n], w), At(e, k))
  <2>1. PICK s, t, L : s = Nothing(k) /\ t = At(d, k) /\ L = ran[n]
    OBVIOUS
  <2>2. L \in Seq(S) /\ w \in S
    BY <1>1, <2>1, SeenFacts
  <2>3. Replays(q, k, s, L, t)
    BY <1>1, <1>6, <2>1
  <2>4. Replays(q, k, s, Append(L, w), Step(q, k, t, w))
    BY <2>2, <2>3, ReplaysOneMore
  <2> QED
    BY <1>3, <2>1, <2>4
<1>8. \A m \in Node : Replays(q, k, Nothing(k), ran'[m], At(db'[m], k))
  BY <1>4, <1>6, <1>7
<1>9. Retraced(k)'
  BY <1>1, <1>8 DEF Retraced, Nothing
<1> QED
  BY <1>1, <1>3, <1>4, <1>5, <1>9

\* The nodes that no command runs on.
LEMMA StoresKept ==
  ASSUME NEW k \in Keys, Seen(k), UNCHANGED <<db, ran>>
  PROVE  Retraced(k)' /\ NoDeadline(k)'
<1>1. NoDeadline(k)'
  BY DEF Seen, KeyInv, NoDeadline
<1>2. \A m \in Node : Replays(reqs', k, Nothing(k), ran'[m], At(db'[m], k))
  BY StillRetraced
<1> QED
  BY <1>1, <1>2 DEF Retraced, Nothing

LEMMA BoundKept ==
  ASSUME NEW k \in Keys, Seen(k), NEW F, NEW n \in Node, BoundFor(k, F, n),
         At(db'[n], k) = At(db[n], k), pend'[n] = pend[n],
         \A w \in On(k)' : Awaits(n, w)' <=> w \in On(k) /\ Awaits(n, w)
  PROVE  BoundFor(k, F, n)'
<1>1. PICK t : /\ Replays(reqs, k, At(db[n], k), pend[n], t)
               /\ (\A w \in On(k) : ~Awaits(n, w)) => t = F
               /\ \A w \in On(k) : Awaits(n, w) => F = Step(reqs, k, t, w)
  BY DEF BoundFor
<1>2. \A w \in On(k) : /\ w \in DOMAIN writes /\ w \in On(k)'
                       /\ reqs'[w] = reqs[w]
  BY SeenFacts DEF On
<1>3. Replays(reqs', k, At(db'[n], k), pend'[n], t)
  <2>1. PICK s, L : s = At(db[n], k) /\ L = pend[n]
    OBVIOUS
  <2>2. L \in Seq(DOMAIN writes) /\ Replays(reqs, k, s, L, t)
    BY <1>1, <2>1, SeenFacts
  <2>3. Replays(reqs', k, s, L, t)
    BY <2>2, StillReplays
  <2> QED
    BY <2>1, <2>3
<1>4. (\A w \in On(k)' : ~Awaits(n, w)') => t = F
  BY <1>1, <1>2
<1>5. \A w \in On(k)' : Awaits(n, w)' => F = Step(reqs', k, t, w)
  BY <1>1, <1>2 DEF Step
<1> QED
  BY <1>3, <1>4, <1>5 DEF BoundFor

LEMMA Undisturbed ==
  ASSUME NEW k \in Keys, Seen(k), synced' \ apart' \subseteq synced \ apart,
         \A n \in synced' \ apart' :
           /\ At(db'[n], k) = At(db[n], k)
           /\ pend'[n] = pend[n]
           /\ \A w \in On(k)' : Awaits(n, w)' <=> w \in On(k) /\ Awaits(n, w)
  PROVE  Converging(k)'
<1>1. PICK F : \A n \in synced \ apart : BoundFor(k, F, n)
  BY DEF Seen, KeyInv, Converging
<1>2. ASSUME NEW n \in synced' \ apart'
      PROVE  BoundFor(k, F, n)'
  <2>1. n \in synced \ apart /\ n \in Node
    BY Facts DEF Seen
  <2> QED
    BY <1>1, <2>1, BoundKept
<1> QED
  BY <1>2 DEF Converging

\* The nodes run nothing, and those in step await what they did.
LEMMA Quiet ==
  ASSUME NEW k \in Keys, Seen(k), UNCHANGED <<db, ran>>,
         synced' \ apart' \subseteq synced \ apart,
         synced \cup apart \subseteq synced' \cup apart',
         \A n \in synced' \ apart' :
           /\ pend'[n] = pend[n]
           /\ \A w \in On(k)' : Awaits(n, w)' <=> w \in On(k) /\ Awaits(n, w)
  PROVE  KeyInv(k)'
<1>1. Retraced(k)' /\ NoDeadline(k)'
  BY StoresKept
<1>2. Converging(k)'
  BY Undisturbed
<1>3. Fallow(k)'
  BY DEF Seen, KeyInv, Fallow, Nothing
<1> QED
  BY <1>1, <1>2, <1>3 DEF Seen, KeyInv

\* Nor do the writes change what they still have to call of them.
LEMMA SameTodo ==
  ASSUME NEW k \in Keys, Seen(k), UNCHANGED <<db, ran, pend, synced>>,
         apart \subseteq apart',
         \A n \in synced \ apart' :
           /\ \A w \in DOMAIN writes :
                n \in writes'[w].todo <=> n \in writes[w].todo
           /\ \A w \in DOMAIN writes' \ DOMAIN writes :
                n \notin writes'[w].todo
  PROVE  KeyInv(k)'
<1>1. \A w \in DOMAIN writes : writes'[w].to = writes[w].to
  BY DEF Seen, WritesAdvance, Onward
<1>2. ASSUME NEW n \in synced \ apart', NEW w \in On(k)'
      PROVE  Awaits(n, w)' <=> w \in On(k) /\ Awaits(n, w)
  <2>1. CASE w \in DOMAIN writes
    <3>1. w \in On(k)
      BY <2>1, SeenFacts
    <3> QED
      BY <1>1, <2>1, <3>1 DEF Awaits
  <2>2. CASE w \notin DOMAIN writes
    BY <2>2 DEF Awaits, On
  <2> QED
    BY <2>1, <2>2
<1> QED
  BY <1>2, Quiet

LEMMA StandingAgrees ==
  ASSUME NEW k \in Keys, Seen(k), NEW n \in Node, NEW m \in Node,
         \/ NodeVotes(n, m) \/ NodeForgets(n)
         \/ LeaderChanges(n, m)
         \/ \E to \in SUBSET Node : BecomesLeader(n, to)
         \/ Start(n, m)
         \/ Serve(n)
  PROVE  KeyInv(k)'
<1>1. /\ UNCHANGED <<db, ran, pend, synced, writes>>
      /\ apart \subseteq apart'
  BY DEF NodeVotes, NodeForgets, LeaderChanges, BecomesLeader, Start, Serve,
         nodes
<1> QED
  BY <1>1, SameTodo

LEMMA ForwardAgrees ==
  ASSUME NEW k \in Keys, Seen(k), NEW c \in Conns, NEW r \in Requests[c],
         Forward(c, r)
  PROVE  KeyInv(k)'
<1>1. /\ UNCHANGED <<db, ran, pend, synced, apart>>
      /\ Send(c, r, addr[Origin[c]], "called", {}, "none")
  BY DEF Forward, nodes
<1>2. /\ Len(writes) \in Nat /\ Len(writes') = Len(writes) + 1
      /\ DOMAIN writes = 1 .. Len(writes) /\ DOMAIN writes' = 1 .. Len(writes')
      /\ \A w \in DOMAIN writes : writes'[w] = writes[w]
      /\ writes'[Len(writes')].todo = {}
  BY <1>1, Facts DEF Send, Seen
<1> QED
  BY <1>1, <1>2, SameTodo

LEMMA ForwardFailsAgrees ==
  ASSUME NEW k \in Keys, Seen(k), NEW w \in DOMAIN writes,
         ForwardFails(w) \/ ForwardTimesOut(w) \/ Replicated(w)
  PROVE  KeyInv(k)'
<1>1. UNCHANGED <<db, ran, pend, synced, apart>>
  BY DEF ForwardFails, ForwardTimesOut, Replicated, nodes
<1>2. /\ DOMAIN writes' = DOMAIN writes
      /\ \A v \in DOMAIN writes : writes'[v].todo = writes[v].todo
  <2>1. \A v \in DOMAIN writes : writes[v] \in Write
    BY Facts DEF Seen
  <2> QED
    BY <2>1 DEF ForwardFails, ForwardTimesOut, Replicated, Write
<1> QED
  BY <1>1, <1>2, SameTodo

LEMMA CopyFailsAgrees ==
  ASSUME NEW k \in Keys, Seen(k), NEW w \in DOMAIN writes, NEW f \in Node,
         CopyFails(w, f) \/ CopyTimesOut(w, f)
  PROVE  KeyInv(k)'
<1>1. /\ UNCHANGED <<db, ran, pend, synced>>
      /\ apart \subseteq apart'
      /\ f \in apart' \/ f \notin synced
  BY Facts DEF CopyFails, CopyTimesOut, nodes, Seen
<1>2. /\ DOMAIN writes' = DOMAIN writes
      /\ \A v \in DOMAIN writes : \A n \in Node \ {f} :
           n \in writes'[v].todo <=> n \in writes[v].todo
  <2>1. \A v \in DOMAIN writes : writes[v] \in Write
    BY Facts DEF Seen
  <2> QED
    BY <2>1 DEF CopyFails, CopyTimesOut, Write
<1>3. synced \subseteq Node
  BY Facts DEF Seen
<1> QED
  BY <1>1, <1>2, <1>3, SameTodo

LEMMA ListAgrees ==
  ASSUME NEW k \in Keys, Seen(k), NEW l \in Node, NEW d \in Node,
         NodeEnters(l, d) \/ NodeLeaves(l, d)
  PROVE  KeyInv(k)'
<1>1. UNCHANGED <<db, ran, pend, synced>> /\ apart \subseteq apart'
  BY DEF NodeEnters, NodeLeaves, nodes
<1>2. \A v \in DOMAIN writes : writes[v] \in Write
  BY Facts DEF Seen
<1>3. DOMAIN writes' = DOMAIN writes
  BY DEF NodeEnters, NodeLeaves
<1>4. \A v \in DOMAIN writes : \A n \in Node \ {d} :
        n \in writes'[v].todo <=> n \in writes[v].todo
  BY <1>2 DEF NodeEnters, NodeLeaves, Write
<1>5. CASE d \in apart' \/ d \notin synced
  <2>1. synced \subseteq Node
    BY Facts DEF Seen
  <2> QED
    BY <1>1, <1>3, <1>4, <1>5, <2>1, SameTodo
<1>6. CASE d \notin apart' /\ d \in synced
  <2>1. d \in alive
    BY <1>6, Facts DEF Seen
  <2>2. \A v \in DOMAIN writes : writes'[v].todo = writes[v].todo
    <3>1. CASE NodeEnters(l, d)
      BY <1>2, <1>6, <2>1, <3>1 DEF NodeEnters
    <3>2. CASE NodeLeaves(l, d)
      BY <1>2, <1>6, <2>1, <3>2 DEF NodeLeaves, Write
    <3> QED
      BY <3>1, <3>2
  <2> QED
    BY <1>1, <1>3, <2>2, SameTodo
<1> QED
  BY <1>5, <1>6

\* A key with a deadline is another one.
LEMMA ExpireAgrees ==
  ASSUME NEW k \in Keys, Seen(k), NEW n \in Node, NEW j \in Keys, Expire(n, j)
  PROVE  KeyInv(k)'
<1>1. /\ db[n].left[j] # Absent
      /\ db' = [db EXCEPT ![n].store[j] = Absent, ![n].left[j] = Absent]
      /\ UNCHANGED <<synced, pend, ran, writes, apart>>
  BY DEF Expire
<1>2. j # k
  BY <1>1 DEF Seen, KeyInv, NoDeadline
<1>3. \A m \in Node : /\ db'[m].store[k] = db[m].store[k]
                      /\ db'[m].left[k] = db[m].left[k]
                      /\ db'[m].lists[k] = db[m].lists[k]
  <2>1. db \in [Node -> Database]
    BY Facts DEF Seen, NodesType
  <2> QED
    BY <1>1, <1>2, <2>1 DEF Database
<1>4. \A m \in Node : At(db'[m], k) = At(db[m], k)
  BY <1>3 DEF At
<1>5. Retraced(k)'
  <2>1. reqs' = reqs
    BY <1>1 DEF reqs
  <2> QED
    BY <1>1, <1>4, <2>1 DEF Seen, KeyInv, Retraced, Nothing
<1>6. NoDeadline(k)' /\ Fallow(k)'
  BY <1>1, <1>3, <1>4 DEF Seen, KeyInv, NoDeadline, Fallow, Nothing
<1>7. Converging(k)'
  <2>1. synced' \subseteq Node
    BY <1>1, Facts DEF Seen
  <2>2. \A m \in Node : \A w \in On(k)' :
          Awaits(m, w)' <=> w \in On(k) /\ Awaits(m, w)
    BY <1>1 DEF On, Awaits
  <2> QED
    BY <1>1, <1>4, <2>1, <2>2, Undisturbed
<1> QED
  BY <1>5, <1>6, <1>7 DEF Seen, KeyInv

\* The copies of a node that fails reach the nodes out of step only.
LEMMA CrashAgrees ==
  ASSUME NEW k \in Keys, Seen(k), NEW n \in Node, Crash(n)
  PROVE  KeyInv(k)'
<1>1. Ends(n)
  BY DEF Crash
<1>2. /\ synced' = synced \ {n} /\ alive' = alive \ {n}
      /\ apart \cap alive' \subseteq apart'
      /\ \A w \in InFlight(n) : writes[w].todo \cap alive' \subseteq apart'
      /\ \A m \in Node : /\ db'[m] = IF m = n THEN NewDatabase ELSE db[m]
                         /\ ran'[m] = IF m = n THEN <<>> ELSE ran[m]
                         /\ pend'[m] = IF m = n THEN <<>> ELSE pend[m]
  BY <1>1, Facts DEF Ends, Fails, Seen, NodesType
<1>3. Retraced(k)'
  <2>1. \A m \in Node :
          Replays(reqs', k, Nothing(k), ran[m], At(db[m], k))
    BY StillRetraced
  <2>2. Replays(reqs', k, Nothing(k), <<>>, Nothing(k))
    <3>1. PICK q : q = reqs'
      OBVIOUS
    <3> QED
      BY <3>1, ReplaysNothing
  <2>3. \A m \in Node : Replays(reqs', k, Nothing(k), ran'[m], At(db'[m], k))
    BY <1>2, <2>1, <2>2 DEF Nothing
  <2> QED
    BY <2>3 DEF Retraced, Nothing
<1>4. NoDeadline(k)' /\ Fallow(k)'
  <2>1. apart \subseteq alive /\ synced \subseteq alive /\ alive \subseteq Node
    BY Facts DEF Seen
  <2>2. NewDatabase.left[k] = Absent
    BY DEF NewDatabase
  <2> QED
    BY <1>2, <2>1, <2>2 DEF Seen, KeyInv, NoDeadline, Fallow, Nothing
<1>5. \A w \in DOMAIN writes : \A m \in alive' \ apart' :
        m \in writes'[w].todo <=> m \in writes[w].todo
  <2> SUFFICES ASSUME NEW w \in DOMAIN writes, NEW m \in alive' \ apart'
               PROVE  m \in writes'[w].todo <=> m \in writes[w].todo
    OBVIOUS
  <2>1. writes'[w].todo = IF writes[w].to = n THEN {} ELSE writes[w].todo
    BY <1>1, Facts DEF Ends, Seen, Write
  <2>2. CASE writes[w].to = n /\ m \in writes[w].todo
    <3>1. w \in InFlight(n)
      BY <2>2, Facts DEF InFlight, InShape, Seen
    <3> QED
      BY <1>2, <2>2, <3>1
  <2> QED
    BY <2>1, <2>2
<1>6. Converging(k)'
  <2>1. synced \subseteq alive /\ alive \subseteq Node
    BY Facts DEF Seen
  <2>2. /\ DOMAIN writes' = DOMAIN writes
        /\ \A w \in DOMAIN writes : writes'[w].to = writes[w].to
    BY <1>1 DEF Ends, Seen, WritesAdvance, Onward
  <2>3. \A w \in On(k)' : w \in On(k) /\ w \in DOMAIN writes
    BY <2>2, SeenFacts DEF On
  <2>4. \A m \in synced' \ apart' : \A w \in On(k)' :
          Awaits(m, w)' <=> w \in On(k) /\ Awaits(m, w)
    BY <1>2, <1>5, <2>1, <2>2, <2>3 DEF Awaits
  <2>5. \A m \in synced' \ apart' : m \in Node \ {n} /\ m \in synced \ apart
    BY <1>2, <2>1
  <2> QED
    BY <1>2, <2>4, <2>5, Undisturbed
<1> QED
  BY <1>3, <1>4, <1>6 DEF Seen, KeyInv

\* A command that runs on n, for the parts of KeyInv that no copy matters to.
LEMMA Handled ==
  ASSUME NEW k \in Keys, Seen(k), NEW n \in Node, NEW w \in DOMAIN writes',
         NEW f, f \in Forms(writes'[w].req), HandleHere(n, w, f),
         apart \subseteq apart',
         n \in synced \cup apart' \/ At(db'[n], k) = At(db[n], k),
         Converging(k)'
  PROVE  KeyInv(k)'
<1>1. /\ ran' = [ran EXCEPT ![n] = Append(@, w)]
      /\ db' = [db EXCEPT ![n] = HandleCommand(@, f).db]
      /\ synced' = synced
  BY DEF HandleHere
<1>2. /\ Retraced(k)' /\ NoDeadline(k)'
      /\ \A m \in Node \ {n} : At(db'[m], k) = At(db[m], k)
  BY <1>1, RunsOn
<1>3. Fallow(k)'
  BY <1>1, <1>2 DEF Seen, KeyInv, Fallow, Nothing
<1> QED
  BY <1>2, <1>3 DEF Seen, KeyInv

\* It runs on a node out of step, or does nothing to k.
LEMMA RunsAside ==
  ASSUME NEW k \in Keys, Seen(k), NEW n \in Node, NEW w \in DOMAIN writes',
         NEW f, f \in Forms(writes'[w].req), HandleHere(n, w, f),
         apart \subseteq apart',
         n \in apart' \/ At(db'[n], k) = At(db[n], k),
         \A m \in synced \ apart' : \A v \in On(k)' :
           Awaits(m, v)' <=> v \in On(k) /\ Awaits(m, v)
  PROVE  KeyInv(k)'
<1>1. /\ ran' = [ran EXCEPT ![n] = Append(@, w)]
      /\ db' = [db EXCEPT ![n] = HandleCommand(@, f).db]
      /\ UNCHANGED <<synced, pend>>
  BY DEF HandleHere
<1>2. \A m \in Node \ {n} : At(db'[m], k) = At(db[m], k)
  BY <1>1, RunsOn
<1>3. synced \subseteq Node
  BY Facts DEF Seen
<1>4. Converging(k)'
  BY <1>1, <1>2, <1>3, Undisturbed
<1> QED
  BY <1>4, Handled

LEMMA LateCopyAgrees ==
  ASSUME NEW k \in Keys, Seen(k), NEW w \in DOMAIN writes, NEW f \in Node,
         LateCopy(w, f)
  PROVE  KeyInv(k)'
<1>1. /\ UNCHANGED <<writes, apart>>
      /\ HandleHere(f, w, Converted(writes[w].req))
      /\ f \in apart
  BY DEF LateCopy, Seen, Order, LateApart
<1>2. PICK g : g = Converted(writes[w].req)
  OBVIOUS
<1>3. HandleHere(f, w, g) /\ g \in Forms(writes'[w].req)
  BY <1>1, <1>2 DEF Forms, HandleHere
<1>4. w \in DOMAIN writes'
  BY <1>1
<1>5. \A m \in synced \ apart' : \A v \in On(k)' :
        Awaits(m, v)' <=> v \in On(k) /\ Awaits(m, v)
  BY <1>1 DEF On, Awaits
<1> QED
  BY <1>1, <1>3, <1>4, <1>5, RunsAside

(***************************************************************************)
(* A leader takes a write on k, and nobody awaits another one.             *)
(***************************************************************************)
LEMMA Takes ==
  ASSUME NEW k \in Keys, Seen(k), NEW l \in leads, NEW w \in On(k)',
         NEW f, f \in Forms(writes'[w].req), HandleHere(l, w, f),
         writes'[w].stage = "copying", writes'[w].to = l,
         NEW S, writes'[w].todo = S, apart' = apart \cup OutOfStep(l, S),
         w \in DOMAIN writes => writes[w].todo = {},
         \A v \in DOMAIN writes' \ {w} :
           v \in DOMAIN writes /\ writes'[v] = writes[v]
  PROVE  KeyInv(k)'
<1>1. /\ ran' = [ran EXCEPT ![l] = Append(@, w)]
      /\ db' = [db EXCEPT ![l] = HandleCommand(@, f).db]
      /\ UNCHANGED <<synced, pend>>
  BY DEF HandleHere
<1>2. /\ w \in DOMAIN writes' /\ l \in Node
      /\ l \in serving /\ synced \subseteq alive /\ alive \subseteq Node
      /\ serving \subseteq synced
  BY Facts DEF On, Seen
<1>3. /\ \A m \in Node \ {l} : At(db'[m], k) = At(db[m], k)
      /\ At(db'[l], k) = Step(reqs', k, At(db[l], k), w)
  BY <1>1, <1>2, RunsOn
<1>4. ASSUME NEW v \in On(k)', v # w
      PROVE  v \in On(k) /\ writes[v].todo = {} /\ writes'[v].todo = {}
  <2>1. v \in DOMAIN writes /\ writes'[v] = writes[v] /\ v \in On(k)
    BY <1>4, SeenFacts DEF On
  <2>2. v < w \/ w < v
    <3>1. DOMAIN writes' = 1 .. Len(writes') /\ Len(writes') \in Nat
      BY DEF Seen, IInv, TypeOK
    <3> QED
      BY <1>2, <1>4, <2>1, <3>1, SeenFacts
  <2>3. writes'[v].stage # "copying"
    BY <2>2, <1>4 DEF Seen, InTurn
  <2> QED
    BY <2>1, <2>3, Facts DEF Seen, InShape
<1>5. PICK F : \A n \in synced \ apart : BoundFor(k, F, n)
  BY DEF Seen, KeyInv, Converging
<1>6. PICK q, E : q = reqs' /\ E = Step(q, k, F, w)
  OBVIOUS
<1>7. ASSUME NEW n \in synced \ apart'
      PROVE  BoundFor(k, E, n)'
  <2>1. n \in synced \ apart /\ (n = l \/ n \in S \cap serving)
    BY <1>2 DEF OutOfStep
  <2>2. n \in serving /\ pend[n] = <<>> /\ n \in synced \ apart
    BY <1>2, <2>1, Facts DEF Seen
  <2>3. \A v \in On(k) : ~Awaits(n, v)
    <3>1. \A v \in On(k) : writes[v].todo = {}
      BY <1>4, SeenFacts DEF On
    <3> QED
      BY <3>1 DEF Awaits
  <2>4. At(db[n], k) = F
    <3>1. Replays(reqs, k, At(db[n], k), <<>>, F)
      BY <1>5, <2>2, <2>3 DEF BoundFor
    <3>2. PICK p : p = reqs
      OBVIOUS
    <3> QED
      BY <3>1, <3>2, ReplaysNothing
  <2>5. \A v \in On(k)' : Awaits(n, v)' => v = w /\ n # l
    BY <1>4 DEF Awaits
  <2>6. n # l => Awaits(n, w)'
    BY <2>1 DEF Awaits
  <2>7. CASE n = l
    <3>1. At(db'[n], k) = E /\ pend'[n] = <<>>
      BY <1>1, <1>3, <1>6, <2>2, <2>4, <2>7
    <3>2. Replays(reqs', k, At(db'[n], k), pend'[n], E)
      BY <1>6, <3>1, ReplaysNothing
    <3> QED
      BY <2>5, <2>7, <3>2 DEF BoundFor
  <2>8. CASE n # l
    <3>1. At(db'[n], k) = F /\ pend'[n] = <<>>
      BY <1>1, <1>2, <1>3, <2>2, <2>4, <2>8
    <3>2. Replays(reqs', k, At(db'[n], k), pend'[n], F)
      BY <1>6, <3>1, ReplaysNothing
    <3>3. \A v \in On(k)' : Awaits(n, v)' => E = Step(reqs', k, F, v)
      BY <1>6, <2>5
    <3> QED
      BY <2>6, <2>8, <3>2, <3>3 DEF BoundFor
  <2> QED
    BY <2>7, <2>8
<1>8. Converging(k)'
  BY <1>1, <1>7 DEF Converging
<1> QED
  BY <1>2, <1>8, Handled

LEMMA RunHereAgrees ==
  ASSUME NEW k \in Keys, Seen(k), NEW c \in Conns, NEW r \in Requests[c],
         WriteOnLeader(c, r) \/ WriteHere(c, r)
  PROVE  KeyInv(k)'
<1>1. PICK n, w : n = Origin[c] /\ w = Len(writes) + 1
  OBVIOUS
<1>2. /\ n \in serving /\ n \in Node /\ HandleHere(n, w, r)
      /\ apart \subseteq apart'
  BY <1>1, Facts DEF WriteOnLeader, WriteHere, Received, Seen
<1>3. PICK to, stage, todo, told : Send(c, r, to, stage, todo, told)
  BY DEF WriteOnLeader, WriteHere
<1>4. /\ Len(writes) \in Nat /\ Len(writes') = w
      /\ DOMAIN writes = 1 .. Len(writes)
      /\ DOMAIN writes' = DOMAIN writes \cup {w} /\ w \notin DOMAIN writes
      /\ \A v \in DOMAIN writes : writes'[v] = writes[v]
      /\ writes'[w].req = r
  <2>1. Len(writes) \in Nat /\ DOMAIN writes = 1 .. Len(writes)
    BY Facts DEF Seen
  <2> QED
    BY <1>1, <1>3, <2>1 DEF Send
<1>5. w \in DOMAIN writes' /\ r \in Forms(writes'[w].req)
  BY <1>4 DEF Forms
<1>6. /\ At(db'[n], k) = Step(reqs', k, At(db[n], k), w)
      /\ HandleCommand(db[n], r).reply.status # "OK" =>
           At(db'[n], k) = At(db[n], k)
  <2>1. /\ ran' = [ran EXCEPT ![n] = Append(@, w)]
        /\ db' = [db EXCEPT ![n] = HandleCommand(@, r).db]
    BY <1>2 DEF HandleHere
  <2> QED
    BY <1>2, <1>5, <2>1, RunsOn
<1>7. ASSUME writes'[w].todo = {} \/ r.key # k,
             n \in apart' \/ At(db'[n], k) = At(db[n], k)
      PROVE  KeyInv(k)'
  <2>1. \A m \in synced \ apart' : \A v \in On(k)' :
          Awaits(m, v)' <=> v \in On(k) /\ Awaits(m, v)
    BY <1>4, <1>7 DEF On, Awaits
  <2> QED
    BY <1>2, <1>5, <1>7, <2>1, RunsAside
<1>8. CASE WriteHere(c, r)
  <2>1. n \in apart' /\ writes'[w].todo = {}
    BY <1>1, <1>4, <1>8 DEF WriteHere, Send
  <2> QED
    BY <1>7, <2>1
<1>9. CASE WriteOnLeader(c, r) /\ ~Accepted(n, r)
  <2>1. writes'[w].todo = {}
    BY <1>1, <1>4, <1>9 DEF WriteOnLeader, Send
  <2> QED
    BY <1>6, <1>7, <1>9, <2>1 DEF Accepted
<1>10. CASE WriteOnLeader(c, r) /\ Accepted(n, r) /\ r.key # k
  <2>1. At(db'[n], k) = At(db[n], k)
    BY <1>4, <1>5, <1>6, <1>10 DEF Step, reqs
  <2> QED
    BY <1>7, <1>10, <2>1
<1>11. CASE WriteOnLeader(c, r) /\ Accepted(n, r) /\ r.key = k
  <2>1. PICK S : S = list[n]
    OBVIOUS
  <2>2. /\ writes'[w].stage = "copying" /\ writes'[w].to = n
        /\ writes'[w].todo = S /\ apart' = apart \cup OutOfStep(n, S)
        /\ n \in leads
    BY <1>1, <1>4, <1>11, <2>1 DEF WriteOnLeader, Send
  <2>3. w \in On(k)'
    BY <1>4, <1>11 DEF On
  <2> QED
    BY <1>2, <1>4, <1>5, <2>2, <2>3, Takes
<1> QED
  BY <1>8, <1>9, <1>10, <1>11

LEMMA ForwardRequestAgrees ==
  ASSUME NEW k \in Keys, Seen(k), NEW w \in DOMAIN writes, ForwardRequest(w)
  PROVE  KeyInv(k)'
<1>1. PICK n, f : n = writes[w].to /\ f = Converted(writes[w].req)
  OBVIOUS
<1>2. /\ writes[w] \in Write /\ writes[w].stage = "called"
      /\ n \in alive /\ n \in Node /\ HandleHere(n, w, f)
      /\ writes[w].todo = {}
  BY <1>1, Facts DEF ForwardRequest, Seen, InShape, HandleHere
<1>3. /\ DOMAIN writes' = DOMAIN writes
      /\ \A v \in DOMAIN writes \ {w} : writes'[v] = writes[v]
      /\ writes'[w].req = writes[w].req /\ writes'[w].to = n
  <2>1. CASE Accepted(n, f)
    <3>1. PICK S : writes' = [writes EXCEPT ![w].stage = "copying",
                                            ![w].todo = S]
      BY <1>1, <2>1 DEF ForwardRequest
    <3> QED
      BY <1>1, <1>2, <3>1 DEF Write
  <2>2. CASE ~Accepted(n, f)
    BY <1>1, <1>2, <2>2 DEF ForwardRequest, Write
  <2> QED
    BY <2>1, <2>2
<1>4. f \in Forms(writes'[w].req) /\ w \in DOMAIN writes'
  BY <1>1, <1>3 DEF Forms
<1>5. apart \subseteq apart'
  BY Facts DEF ForwardRequest, Seen
<1>6. /\ At(db'[n], k) = Step(reqs', k, At(db[n], k), w)
      /\ HandleCommand(db[n], f).reply.status # "OK" =>
           At(db'[n], k) = At(db[n], k)
  <2>1. /\ ran' = [ran EXCEPT ![n] = Append(@, w)]
        /\ db' = [db EXCEPT ![n] = HandleCommand(@, f).db]
    BY <1>2 DEF HandleHere
  <2> QED
    BY <1>2, <1>4, <2>1, RunsOn
<1>7. ASSUME writes'[w].todo = {} \/ writes[w].req.key # k \/ apart' = alive,
             n \in apart' \/ At(db'[n], k) = At(db[n], k)
      PROVE  KeyInv(k)'
  <2>1. synced \subseteq alive
    BY Facts DEF Seen
  <2>2. \A m \in synced \ apart' : \A v \in On(k)' :
          Awaits(m, v)' <=> v \in On(k) /\ Awaits(m, v)
    BY <1>2, <1>3, <1>7, <2>1 DEF On, Awaits
  <2> QED
    BY <1>2, <1>4, <1>5, <1>7, <2>2, RunsAside
<1>8. CASE ~Accepted(n, f)
  <2>1. writes'[w].todo = {}
    BY <1>1, <1>2, <1>8 DEF ForwardRequest, Write
  <2> QED
    BY <1>6, <1>7, <1>8, <2>1 DEF Accepted
<1>9. CASE Accepted(n, f) /\ n \notin leads
  <2>1. apart' = alive
    BY <1>1, <1>9 DEF ForwardRequest
  <2> QED
    BY <1>2, <1>7, <2>1
<1>10. CASE Accepted(n, f) /\ writes[w].req.key # k
  <2>1. At(db'[n], k) = At(db[n], k)
    BY <1>3, <1>4, <1>6, <1>10 DEF Step, reqs
  <2> QED
    BY <1>7, <1>10, <2>1
<1>11. CASE Accepted(n, f) /\ n \in leads /\ writes[w].req.key = k
  <2>1. PICK S : /\ writes' = [writes EXCEPT ![w].stage = "copying",
                                             ![w].todo = S]
                 /\ apart' = apart \cup OutOfStep(n, S)
    BY <1>1, <1>11 DEF ForwardRequest
  <2>2. writes'[w].stage = "copying" /\ writes'[w].todo = S
    BY <1>2, <2>1 DEF Write
  <2>3. w \in On(k)'
    BY <1>3, <1>4, <1>11 DEF On
  <2> QED
    BY <1>2, <1>3, <1>4, <1>11, <2>1, <2>2, <2>3, Takes
<1> QED
  BY <1>8, <1>9, <1>10, <1>11

LEMMA ReplicateRequestAgrees ==
  ASSUME NEW k \in Keys, Seen(k), NEW w \in DOMAIN writes, NEW f \in Node,
         ReplicateRequest(w, f)
  PROVE  KeyInv(k)'
<1>1. PICK g : g = Converted(writes[w].req)
  OBVIOUS
<1>2. /\ writes[w] \in Write /\ writes[w].stage = "copying"
      /\ f \in writes[w].todo \cap alive /\ HandleHere(f, w, g)
      /\ apart \subseteq apart'
      /\ f \notin apart' => f \in serving /\ f # writes[w].to
  BY <1>1, Facts DEF ReplicateRequest, Seen, HandleHere
<1>3. /\ DOMAIN writes' = DOMAIN writes
      /\ \A v \in DOMAIN writes : /\ writes'[v].req = writes[v].req
                                  /\ writes'[v].to = writes[v].to
                                  /\ writes'[v].stage = writes[v].stage
      /\ \A v \in DOMAIN writes \ {w} : writes'[v].todo = writes[v].todo
      /\ writes'[w].todo = writes[w].todo \ {f}
  BY <1>2 DEF ReplicateRequest, Write
<1>4. g \in Forms(writes'[w].req) /\ w \in DOMAIN writes'
  BY <1>1, <1>3 DEF Forms
<1>5. /\ ran' = [ran EXCEPT ![f] = Append(@, w)]
      /\ db' = [db EXCEPT ![f] = HandleCommand(@, g).db]
      /\ UNCHANGED <<synced, pend>>
  BY <1>2 DEF HandleHere
<1>6. /\ At(db'[f], k) = Step(reqs', k, At(db[f], k), w)
      /\ \A m \in Node \ {f} : At(db'[m], k) = At(db[m], k)
  BY <1>4, <1>5, RunsOn
<1>7. \A m \in Node \ {f} : \A v \in On(k)' :
        Awaits(m, v)' <=> v \in On(k) /\ Awaits(m, v)
  BY <1>3 DEF On, Awaits
<1>8. synced \subseteq Node /\ serving \subseteq synced
  BY Facts DEF Seen
<1>9. CASE f \in apart'
  BY <1>2, <1>4, <1>7, <1>8, <1>9, RunsAside
<1>10. CASE writes[w].req.key # k
  <2>1. At(db'[f], k) = At(db[f], k)
    BY <1>3, <1>4, <1>6, <1>10 DEF Step, reqs
  <2>2. \A v \in On(k)' : Awaits(f, v)' <=> v \in On(k) /\ Awaits(f, v)
    BY <1>3, <1>10 DEF On, Awaits
  <2> QED
    BY <1>2, <1>4, <1>7, <1>8, <2>1, <2>2, RunsAside
<1>11. CASE f \notin apart' /\ writes[w].req.key = k
  <2>1. PICK F : \A n \in synced \ apart : BoundFor(k, F, n)
    BY DEF Seen, KeyInv, Converging
  <2>2. f \in serving /\ f \in synced \ apart /\ pend[f] = <<>>
    BY <1>2, <1>8, <1>11, Facts DEF Seen
  <2>3. w \in On(k) /\ Awaits(f, w)
    BY <1>2, <1>11 DEF On, Awaits
  <2>4. PICK t : /\ Replays(reqs, k, At(db[f], k), <<>>, t)
                 /\ F = Step(reqs, k, t, w)
    BY <2>1, <2>2, <2>3 DEF BoundFor
  <2>5. At(db'[f], k) = F
    <3>1. PICK p : p = reqs
      OBVIOUS
    <3>2. t = At(db[f], k)
      BY <2>4, <3>1, ReplaysNothing
    <3>3. reqs'[w] = reqs[w]
      BY SeenFacts
    <3> QED
      BY <1>6, <2>4, <3>2, <3>3 DEF Step
  <2>6. \A v \in On(k)' : ~Awaits(f, v)'
    <3> SUFFICES ASSUME NEW v \in On(k)', v # w
                 PROVE  f \notin writes'[v].todo
      BY <1>3 DEF Awaits
    <3>1. v \in On(k) /\ v \in DOMAIN writes
      BY <1>3, SeenFacts DEF On
    <3>2. v < w \/ w < v
      BY <3>1, Facts DEF Seen
    <3>3. writes[v].stage # "copying"
      BY <1>2, <2>3, <3>1, <3>2 DEF Seen, KeyInv, InTurn
    <3> QED
      BY <1>3, <3>1, <3>3, Facts DEF Seen, InShape
  <2>7. BoundFor(k, F, f)'
    <3>1. PICK q : q = reqs'
      OBVIOUS
    <3>2. Replays(q, k, At(db'[f], k), pend'[f], F)
      BY <1>5, <2>2, <2>5, ReplaysNothing
    <3> QED
      BY <2>6, <3>1, <3>2 DEF BoundFor
  <2>8. ASSUME NEW n \in synced' \ apart'
        PROVE  BoundFor(k, F, n)'
    <3>1. CASE n # f
      BY <1>2, <1>5, <1>6, <1>7, <1>8, <2>1, <3>1, BoundKept
    <3> QED
      BY <2>7, <3>1
  <2>9. Converging(k)'
    BY <2>8 DEF Converging
  <2> QED
    BY <1>2, <1>4, <2>2, <2>9, Handled
<1> QED
  BY <1>9, <1>10, <1>11

LEMMA SyncRequestAgrees ==
  ASSUME NEW k \in Keys, Seen(k), NEW n \in Node, SyncRequest(n)
  PROVE  KeyInv(k)'
<1>1. PICK l : l = addr[n]
  OBVIOUS
<1>2. /\ n \in alive \ synced /\ synced' = synced \cup {n}
      /\ pend' = [pend EXCEPT ![n] = file[l]]
      /\ apart' = IF l \in leads \ apart /\ file[l] = ran[l]
                  THEN apart ELSE apart \cup {n}
      /\ UNCHANGED <<serving, alive, db, ran, writes>>
  BY <1>1 DEF SyncRequest, membership
<1>3. Retraced(k)' /\ NoDeadline(k)'
  BY <1>2, StoresKept
<1>4. Fallow(k)'
  BY <1>2 DEF Seen, KeyInv, Fallow, Nothing
<1>5. PICK F : \A m \in synced \ apart : BoundFor(k, F, m)
  BY DEF Seen, KeyInv, Converging
<1>6. \A m \in Node : \A v \in On(k)' :
        Awaits(m, v)' <=> v \in On(k) /\ Awaits(m, v)
  BY <1>2 DEF On, Awaits
<1>7. ASSUME NEW m \in synced' \ apart', m # n
      PROVE  BoundFor(k, F, m)'
  <2>1. m \in synced \ apart /\ m \in Node
    BY <1>2, <1>7, Facts DEF Seen
  <2>2. pend'[m] = pend[m]
    BY <1>2, <1>7, <2>1, Facts DEF Seen, NodesType
  <2> QED
    BY <1>2, <1>5, <1>6, <2>1, <2>2, BoundKept
<1>8. ASSUME n \notin apart'
      PROVE  BoundFor(k, F, n)'
  <2>1. /\ l \in leads \ apart /\ file[l] = ran[l] /\ n \notin apart
        /\ l \in serving /\ l \in synced /\ l \in Node /\ n \in Node
    BY <1>2, <1>8, Facts DEF Seen
  <2>2. pend[l] = <<>> /\ pend'[n] = ran[l]
    BY <1>2, <2>1, Facts DEF Seen, NodesType
  <2>3. \A v \in On(k) : ~Awaits(l, v)
    BY <2>1, LeaderAwaitsNone DEF On, Seen
  <2>4. At(db[l], k) = F
    <3>1. Replays(reqs, k, At(db[l], k), <<>>, F)
      BY <1>5, <2>1, <2>2, <2>3 DEF BoundFor
    <3>2. PICK p : p = reqs
      OBVIOUS
    <3> QED
      BY <3>1, <3>2, ReplaysNothing
  <2>5. At(db'[n], k) = Nothing(k)
    BY <1>2, <2>1 DEF Seen, KeyInv, Fallow
  <2>6. Replays(reqs', k, At(db'[n], k), pend'[n], F)
    <3>1. Replays(reqs', k, Nothing(k), ran[l], At(db[l], k))
      BY <1>2, <1>3, <2>1 DEF Retraced, Nothing
    <3> QED
      BY <2>2, <2>4, <2>5, <3>1
  <2>7. \A v \in On(k)' : ~Awaits(n, v)'
    <3>1. n \notin serving
      BY <1>2, Facts DEF Seen
    <3>2. \A v \in DOMAIN writes : n \notin writes[v].todo
      BY <1>2, <2>1, <3>1 DEF Seen, Order, Spared
    <3> QED
      BY <1>2, <3>2 DEF On, Awaits
  <2> QED
    BY <2>6, <2>7 DEF BoundFor
<1>9. Converging(k)'
  BY <1>7, <1>8 DEF Converging
<1> QED
  BY <1>3, <1>4, <1>9 DEF Seen, KeyInv

LEMMA SyncNextAgrees ==
  ASSUME NEW k \in Keys, Seen(k), NEW n \in Node, SyncNext(n)
  PROVE  KeyInv(k)'
<1>1. PICK w, f : w = Head(pend[n]) /\ f = Synced(RecordOf(writes[w].req))
  OBVIOUS
<1>2. /\ n \in synced /\ pend[n] # <<>>
      /\ ran' = [ran EXCEPT ![n] = Append(@, w)]
      /\ db' = [db EXCEPT ![n] = HandleCommand(@, f).db]
      /\ pend' = [pend EXCEPT ![n] = Tail(@)]
      /\ UNCHANGED <<synced, apart, writes>>
  BY <1>1 DEF SyncNext
<1>3. pend[n] \in Seq(DOMAIN writes) /\ w \in DOMAIN writes
  BY <1>1, <1>2, SeenFacts
<1>4. w \in DOMAIN writes' /\ f \in Forms(writes'[w].req)
  BY <1>1, <1>2, <1>3 DEF Forms
<1>5. /\ Retraced(k)' /\ NoDeadline(k)'
      /\ \A m \in Node \ {n} : At(db'[m], k) = At(db[m], k)
      /\ At(db'[n], k) = Step(reqs', k, At(db[n], k), w)
  BY <1>2, <1>4, RunsOn
<1>6. Fallow(k)'
  BY <1>2, <1>5 DEF Seen, KeyInv, Fallow, Nothing
<1>7. PICK F : \A m \in synced \ apart : BoundFor(k, F, m)
  BY DEF Seen, KeyInv, Converging
<1>8. \A m \in Node : /\ m # n => pend'[m] = pend[m]
                      /\ m = n => pend'[m] = Tail(pend[n])
  BY <1>2, Facts DEF Seen, NodesType
<1>9. /\ reqs' = reqs /\ On(k)' = On(k)
      /\ \A m \in Node : \A v \in On(k) : Awaits(m, v)' <=> Awaits(m, v)
  BY <1>2 DEF reqs, On, Awaits
<1>10. ASSUME NEW m \in synced' \ apart'
       PROVE  BoundFor(k, F, m)'
  <2>1. m \in synced \ apart /\ m \in Node
    BY <1>2, Facts DEF Seen
  <2>2. CASE m # n
    BY <1>5, <1>7, <1>8, <1>9, <2>1, <2>2, BoundKept
  <2>3. CASE m = n
    <3>1. PICK t : /\ Replays(reqs, k, At(db[n], k), pend[n], t)
                   /\ (\A v \in On(k) : ~Awaits(n, v)) => t = F
                   /\ \A v \in On(k) : Awaits(n, v) => F = Step(reqs, k, t, v)
      BY <1>7, <2>1, <2>3 DEF BoundFor
    <3>2. PICK q, s, L, S : /\ q = reqs /\ s = At(db[n], k)
                            /\ L = pend[n] /\ S = DOMAIN writes
      OBVIOUS
    <3>3. Replays(q, k, Step(q, k, s, Head(L)), Tail(L), t)
      BY <1>2, <1>3, <3>1, <3>2, ReplaysTheRest
    <3>4. Replays(reqs', k, At(db'[n], k), pend'[n], t)
      BY <1>1, <1>5, <1>8, <1>9, <3>2, <3>3
    <3> QED
      BY <1>9, <2>3, <3>1, <3>4 DEF BoundFor
  <2> QED
    BY <2>2, <2>3
<1>11. Converging(k)'
  BY <1>10 DEF Converging
<1> QED
  BY <1>5, <1>6, <1>11 DEF Seen, KeyInv

-----------------------------------------------------------------------------
AInv == IInv /\ Order /\ Agreement

LEMMA AgreementInit == Init => AInv
<1> SUFFICES ASSUME Init
             PROVE  AInv
  OBVIOUS
<1>1. IInv
  BY InitHolds
<1>2. /\ writes = <<>> /\ late = {} /\ DOMAIN writes = {}
      /\ \A n \in Node : /\ db[n] = NewDatabase /\ pend[n] = <<>>
                         /\ ran[n] = <<>>
  BY DEF Init
<1>3. Order
  BY <1>2, NewDatabaseNoEmpty
     DEF Order, Spared, LateApart, NoEmpties, WellSent
<1>4. ASSUME NEW k \in Keys
      PROVE  KeyInv(k)
  <2>1. PICK q, s : q = reqs /\ s = Nothing(k)
    OBVIOUS
  <2>2. Replays(q, k, s, <<>>, s)
    BY ReplaysNothing
  <2>3. \A n \in Node : /\ Replays(reqs, k, Nothing(k), <<>>, Nothing(k))
                        /\ At(db[n], k) = Nothing(k)
                        /\ db[n].left[k] = Absent
    BY <1>2, <2>1, <2>2 DEF Nothing, NewDatabase
  <2>4. Retraced(k)
    BY <1>2, <2>3 DEF Retraced
  <2>5. Fallow(k) /\ NoDeadline(k)
    BY <2>3 DEF Fallow, NoDeadline
  <2>6. On(k) = {}
    BY <1>2 DEF On
  <2>7. InTurn(k)
    BY <2>6 DEF InTurn
  <2>8. \A n \in synced \ apart : BoundFor(k, s, n)
    <3>1. synced \subseteq Node
      BY <1>1, Facts
    <3> QED
      BY <1>2, <2>1, <2>3, <2>6, <3>1 DEF BoundFor
  <2>9. Converging(k)
    BY <2>8 DEF Converging
  <2> QED
    BY <2>4, <2>5, <2>7, <2>9 DEF KeyInv
<1> QED
  BY <1>1, <1>3, <1>4 DEF AInv, Agreement

LEMMA OrderNext ==
  ASSUME IInv, Order, Next
  PROVE  Order' /\ WritesAdvance
<1>1. ASSUME NEW c \in Conns, NEW r \in Requests[c],
             WriteOnLeader(c, r) \/ WriteHere(c, r) \/ Forward(c, r)
      PROVE  Order' /\ WritesAdvance
  BY <1>1, RunHereOrder, ForwardOrder
<1>2. ASSUME NEW w \in DOMAIN writes,
             \/ ForwardRequest(w) \/ ForwardFails(w)
             \/ ForwardTimesOut(w) \/ Replicated(w)
      PROVE  Order' /\ WritesAdvance
  BY <1>2, ForwardRequestOrder, ForwardFailsOrder
<1>3. ASSUME NEW w \in DOMAIN writes, NEW f \in Node,
             \/ ReplicateRequest(w, f) \/ CopyFails(w, f)
             \/ CopyTimesOut(w, f) \/ LateCopy(w, f)
      PROVE  Order' /\ WritesAdvance
  BY <1>3, CopyOrder, LateCopyOrder
<1>4. ASSUME NEW n \in Node, NEW m \in Node,
             NodeEnters(n, m) \/ NodeLeaves(n, m)
      PROVE  Order' /\ WritesAdvance
  BY <1>4, ListOrder
<1>5. ASSUME NEW n \in Node, NEW m \in Node,
             \/ NodeVotes(n, m) \/ NodeForgets(n)
             \/ LeaderChanges(n, m)
             \/ \E to \in SUBSET Node : BecomesLeader(n, to)
             \/ Start(n, m) \/ Serve(n) \/ SyncRequest(n)
      PROVE  Order' /\ WritesAdvance
  BY <1>5, StandingOrder
<1>6. ASSUME NEW n \in Node, SyncNext(n) \/ Crash(n)
      PROVE  Order' /\ WritesAdvance
  BY <1>6, SyncNextOrder, CrashOrder
<1>7. ASSUME NEW n \in Node, NEW k \in Keys, Expire(n, k)
      PROVE  Order' /\ WritesAdvance
  BY <1>7, ExpireOrder
<1> QED
  BY <1>1, <1>2, <1>3, <1>4, <1>5, <1>6, <1>7 DEF Next

LEMMA AgreesNext ==
  ASSUME NEW k \in Keys, Seen(k), Next
  PROVE  KeyInv(k)'
<1>1. ASSUME NEW c \in Conns, NEW r \in Requests[c],
             WriteOnLeader(c, r) \/ WriteHere(c, r) \/ Forward(c, r)
      PROVE  KeyInv(k)'
  BY <1>1, RunHereAgrees, ForwardAgrees
<1>2. ASSUME NEW w \in DOMAIN writes,
             \/ ForwardRequest(w) \/ ForwardFails(w)
             \/ ForwardTimesOut(w) \/ Replicated(w)
      PROVE  KeyInv(k)'
  BY <1>2, ForwardRequestAgrees, ForwardFailsAgrees
<1>3. ASSUME NEW w \in DOMAIN writes, NEW f \in Node,
             \/ ReplicateRequest(w, f) \/ CopyFails(w, f)
             \/ CopyTimesOut(w, f) \/ LateCopy(w, f)
      PROVE  KeyInv(k)'
  BY <1>3, ReplicateRequestAgrees, CopyFailsAgrees, LateCopyAgrees
<1>4. ASSUME NEW n \in Node, NEW m \in Node,
             NodeEnters(n, m) \/ NodeLeaves(n, m)
      PROVE  KeyInv(k)'
  BY <1>4, ListAgrees
<1>5. ASSUME NEW n \in Node, NEW m \in Node,
             \/ NodeVotes(n, m) \/ NodeForgets(n)
             \/ LeaderChanges(n, m)
             \/ \E to \in SUBSET Node : BecomesLeader(n, to)
             \/ Start(n, m) \/ Serve(n)
      PROVE  KeyInv(k)'
  BY <1>5, StandingAgrees
<1>6. ASSUME NEW n \in Node, SyncRequest(n) \/ SyncNext(n) \/ Crash(n)
      PROVE  KeyInv(k)'
  BY <1>6, SyncRequestAgrees, SyncNextAgrees, CrashAgrees
<1>7. ASSUME NEW n \in Node, NEW j \in Keys, Expire(n, j)
      PROVE  KeyInv(k)'
  BY <1>7, ExpireAgrees
<1> QED
  BY <1>1, <1>2, <1>3, <1>4, <1>5, <1>6, <1>7 DEF Next

LEMMA AgreementNext == AInv /\ [Next]_vars => AInv'
<1> SUFFICES ASSUME AInv, [Next]_vars
             PROVE  AInv'
  OBVIOUS
<1>1. IInv /\ Order /\ Agreement /\ IInv'
  BY NextKeeps DEF AInv
<1>2. CASE Next
  <2>1. Order' /\ WritesAdvance /\ WellSent
    BY <1>1, <1>2, OrderNext DEF Order
  <2>2. ASSUME NEW k \in Keys, Plain(k)'
        PROVE  KeyInv(k)'
    <3>1. Plain(k) /\ KeyInv(k)
      BY <1>1, <2>1, <2>2, PlainBefore DEF Agreement
    <3>2. InTurn(k)'
      BY <1>1, <2>1, <2>2, <3>1, InTurnKept DEF KeyInv
    <3>3. Seen(k)
      BY <1>1, <2>1, <2>2, <3>1, <3>2 DEF Seen
    <3> QED
      BY <1>2, <3>3, AgreesNext
  <2> QED
    BY <1>1, <2>1, <2>2 DEF AInv, Agreement
<1>3. CASE UNCHANGED vars
  <2>1. UNCHANGED <<alive, synced, serving, pend, db, ran, writes, late,
                    apart>>
    BY <1>3 DEF vars, membership, nodes
  <2>2. Order'
    BY <1>1, <2>1 DEF Order, Spared, LateApart, NoEmpties, WellSent, ToldRight
  <2>3. ASSUME NEW k \in Keys, Plain(k)'
        PROVE  KeyInv(k)'
    <3>1. /\ reqs' = reqs /\ On(k)' = On(k) /\ Plain(k)
          /\ \A n \in Node : \A w \in On(k) : Awaits(n, w)' <=> Awaits(n, w)
      BY <2>1, <2>3 DEF reqs, On, Awaits, Plain
    <3>2. KeyInv(k) /\ synced \subseteq Node
      BY <1>1, <3>1, Facts DEF Agreement
    <3>3. Converging(k)'
      BY <2>1, <3>1, <3>2 DEF KeyInv, Converging, BoundFor
    <3>4. Retraced(k)' /\ Fallow(k)' /\ NoDeadline(k)' /\ InTurn(k)'
      BY <2>1, <3>1, <3>2 DEF KeyInv, Retraced, Fallow, NoDeadline, InTurn,
                              Nothing
    <3> QED
      BY <3>3, <3>4 DEF KeyInv
  <2> QED
    BY <1>1, <2>2, <2>3 DEF AInv, Agreement
<1> QED
  BY <1>2, <1>3

(***************************************************************************)
(* Replicas agree.  Of a key that one connection writes, without "exp" and *)
(* with none of its writes given up, a node in step that serves holds what *)
(* a leader in step holds, whenever no copy of such a write is in flight:  *)
(* for any number of nodes, clients, writes, failures, elections, joins    *)
(* and timeouts.                                                           *)
(***************************************************************************)
THEOREM ReplicasHoldTheSame == Spec => []ReplicasAgree
<1>1. AInv => ReplicasAgree
  BY AgreementSuffices DEF AInv
<1> QED
  BY <1>1, AgreementInit, AgreementNext, PTL DEF Spec

-----------------------------------------------------------------------------
(***************************************************************************)
(* The guards of the actions of Advances(w), one by one.                   *)
(***************************************************************************)
Open(w) ==
  LET x == writes[w] IN
  \/ x.stage = "called" /\ x.to \in alive             \* ForwardRequest
  \/ x.stage = "called" /\ x.to \notin alive          \* ForwardFails
  \/ x.stage = "lost" /\ x.told = "none"              \* ForwardFails
  \/ x.stage = "copying" /\ x.todo = {}               \* Replicated
  \/ \E f \in Node :
       \/ x.stage = "copying" /\ f \in x.todo \cap alive   \* ReplicateRequest
       \/ x.stage = "copying" /\ f \in x.todo \ alive      \* CopyFails

(***************************************************************************)
(* No write is stuck, however many nodes there are and whichever of them   *)
(* fail: a write whose client waits, or that is still to run or to be      *)
(* copied, is where a handler runs next or a call returns.  This is        *)
(* NobodyWaits with the guards in the place of ENABLED.                    *)
(***************************************************************************)
THEOREM NoWriteIsStuck ==
  Spec => [](\A w \in DOMAIN writes : Ended(w) \/ Open(w))
<1>1. ASSUME AInv, NEW w \in DOMAIN writes
      PROVE  Ended(w) \/ Open(w)
  <2>1. writes[w] \in Write /\ ToldRight(writes[w])
    BY <1>1, Facts DEF AInv, Order, WellSent
  <2>2. writes[w].todo \subseteq Node
    BY <2>1 DEF Write
  <2>3. writes[w].told = "none" =>
          writes[w].stage \in {"called", "copying", "lost"}
    BY <2>1 DEF ToldRight
  <2> QED
    BY <2>2, <2>3 DEF Ended, Open
<1>2. AInv => \A w \in DOMAIN writes : Ended(w) \/ Open(w)
  BY <1>1
<1> QED
  BY <1>2, AgreementInit, AgreementNext, PTL DEF Spec
=============================================================================
