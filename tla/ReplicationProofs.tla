-------------------------- MODULE ReplicationProofs --------------------------
(***************************************************************************)
(* Theorems about Replication, for every set of nodes, of connections and  *)
(* of requests, for any number of writes, failures and timeouts.           *)
(***************************************************************************)
EXTENDS Replication, CommandsProofs, SequenceTheorems

-----------------------------------------------------------------------------
(* What the conversions do to a request, wherever it is sent.              *)

LEMMA Int32Type ==
  ASSUME NEW n \in Int
  PROVE  Int32(n) \in -Half32 .. Half32 - 1
<1>1. Half32 \in Int /\ 2 * Half32 \in Int /\ 2 * Half32 > 0
  BY ConversionsAssumption
<1>2. (n + Half32) % (2 * Half32) \in 0 .. 2 * Half32 - 1
  BY <1>1, RemainderBound
<1> QED
  BY <1>1, <1>2 DEF Int32

LEMMA FieldType ==
  ASSUME NEW S, NEW f \in S \cup {Absent, Empty}
  PROVE  /\ Field(f) \in S \cup {Empty}
         /\ Optional(f) \in S \cup {Absent}
         /\ Optional(Field(f)) \in S \cup {Absent}
  BY DEF Field, Optional

LEMMA ConvertedType ==
  ASSUME NEW r \in Request
  PROVE  Converted(r) \in Request
<1>1. ConvertRequestToCommand(r).Exp \in Int
  <2>1. CASE r.exp \in Long
    <3>1. r.exp \in Int
      BY <2>1, ConversionsAssumption
    <3>2. Int32(r.exp) \in Int
      BY <3>1, Int32Type
    <3> QED
      BY <2>1, <3>2 DEF ConvertRequestToCommand
  <2>2. CASE r.exp \notin Long
    BY <2>2 DEF ConvertRequestToCommand
  <2> QED
    BY <2>1, <2>2
<1>2. /\ Converted(r).cmd \in STRING
      /\ Converted(r).key \in Keys \cup {Absent}
      /\ Converted(r).value \in Text \cup {Absent}
      /\ Converted(r).offset \in Text \cup {Absent}
  BY FieldType DEF Converted, ConvertCommandToRequest,
                   ConvertRequestToCommand, Request
<1>3. Converted(r).exp \in Int \cup {Absent}
  BY <1>1 DEF Converted, ConvertCommandToRequest
<1> QED
  BY <1>2, <1>3 DEF Request, Converted, ConvertCommandToRequest

LEMMA SyncedType ==
  ASSUME NEW r \in Request
  PROVE  Synced(RecordOf(r)) \in Request
  BY CommandsAssumption DEF Synced, RecordOf, Field, Optional, Request

(***************************************************************************)
(* However a write comes to a node, as a client sent it, forwarded or      *)
(* replicated, or out of another node's log, the node logs the same        *)
(* record: the conversions change what a command does, by the deadline     *)
(* they drop, but not what a restart or a later sync makes of it.          *)
(***************************************************************************)
THEOREM EveryNodeLogsTheSame ==
  ASSUME NEW r \in Request, r.key \in Keys
  PROVE  /\ RecordOf(Converted(r)) = RecordOf(r)
         /\ RecordOf(Synced(RecordOf(r))) = RecordOf(r)
<1>1. Optional(Field(r.key)) = r.key
  BY CommandsAssumption DEF Optional, Field
<1>2. \A f \in {r.value, r.offset} :
        /\ Optional(Optional(Field(f))) = Optional(f)
        /\ Optional(Field(Optional(f))) = Optional(f)
  BY CommandsAssumption DEF Optional, Field
<1>3. RecordOf(Converted(r)) = RecordOf(r)
  BY <1>1, <1>2 DEF RecordOf, Converted, ConvertCommandToRequest,
                    ConvertRequestToCommand
<1>4. RecordOf(Synced(RecordOf(r))) = RecordOf(r)
  BY <1>2 DEF RecordOf, Synced
<1> QED
  BY <1>3, <1>4

-----------------------------------------------------------------------------
(***************************************************************************)
(* The inductive invariant.  ForwardedIsEverywhere speaks of writes that   *)
(* are over; Covered follows every write from the moment a node takes it,  *)
(* and says of each node in step by which way it has it or will.  A new    *)
(* leader and a node that syncs need more: a leader in step has run every  *)
(* write (LeaderHas), since the copies of a leader that is gone reach only *)
(* nodes that are out of step (Copiers).                                   *)
(***************************************************************************)
Runs(n, w) == \E i \in DOMAIN ran[n] : ran[n][i] = w
Due(n, w)  == \E i \in DOMAIN pend[n] : pend[n][i] = w
Taken(w)   == writes[w].stage \in {"copying", "over"}

Covered ==
  \A w \in DOMAIN writes : Taken(w) =>
    \A n \in synced \ apart : Runs(n, w) \/ Due(n, w) \/ n \in writes[w].todo

LeaderHas ==
  \A w \in DOMAIN writes : Taken(w) => \A l \in leads \ apart : Runs(l, w)

Copiers ==
  \A w \in DOMAIN writes : writes[w].stage = "copying" =>
    writes[w].to \in leads \/ writes[w].todo \cap alive \subseteq apart

InShape(w) ==
  /\ IF writes[w].stage = "copying" THEN writes[w].to \in alive
                                    ELSE writes[w].todo = {}
  /\ Forwarded(w) /\ writes[w].told = "OK" => writes[w].stage = "over"

Shape ==
  /\ \A a, b \in leads : a = b
  /\ \A n \in serving : pend[n] = <<>>
  /\ \A w \in DOMAIN writes : InShape(w)

IInv == TypeOK /\ Shape /\ Covered /\ LeaderHas /\ Copiers

LEMMA Sufficient == IInv => ForwardedIsEverywhere
<1> SUFFICES ASSUME IInv, NEW w \in DOMAIN writes,
                    Forwarded(w), writes[w].told = "OK",
                    NEW n \in serving \ apart
             PROVE  Runs(n, w)
  BY DEF ForwardedIsEverywhere, Runs
<1>1. Taken(w) /\ writes[w].todo = {}
  BY DEF IInv, Shape, InShape, Taken
<1>2. n \in synced \ apart /\ pend[n] = <<>>
  BY DEF IInv, TypeOK, Shape
<1>3. ~Due(n, w)
  BY <1>2 DEF Due
<1> QED
  BY <1>1, <1>2, <1>3 DEF IInv, Covered

-----------------------------------------------------------------------------
(***************************************************************************)
(* Sequences of writes.                                                    *)
(***************************************************************************)
LEMMA LongerSeq ==
  ASSUME NEW m \in Nat, NEW n \in Nat, m <= n, NEW s \in Seq(1 .. m)
  PROVE  s \in Seq(1 .. n)
<1>1. 1 .. m \subseteq 1 .. n
  OBVIOUS
<1>2. \A i \in 1 .. Len(s) : s[i] \in 1 .. n
  BY <1>1, ElementOfSeq
<1> QED
  BY <1>2, SeqDef

LEMMA MappedSeq ==
  ASSUME NEW S, NEW s \in Seq(S), NEW f, f = [i \in DOMAIN s |-> f[i]],
         \A i \in DOMAIN s : f[i] \in S
  PROVE  f \in Seq(S) /\ Len(f) = Len(s) /\ DOMAIN f = DOMAIN s
<1>1. DOMAIN s = 1 .. Len(s) /\ Len(s) \in Nat
  BY LenProperties
<1>2. f \in [1 .. Len(s) -> S]
  BY <1>1
<1>3. f \in Seq(S)
  BY <1>1, <1>2, SeqDef
<1> QED
  BY <1>1, <1>2, <1>3, LenProperties

LEMMA ExceptWrite ==
  ASSUME writes \in Seq(Write), NEW w \in DOMAIN writes, NEW x \in Write,
         writes' = [writes EXCEPT ![w] = x]
  PROVE  /\ writes' \in Seq(Write)
         /\ Len(writes') = Len(writes)
         /\ DOMAIN writes' = DOMAIN writes
         /\ \A v \in DOMAIN writes : writes'[v] = IF v = w THEN x ELSE writes[v]
<1>1. \A v \in DOMAIN writes : writes[v] \in Write
  BY ElementOfSeq, LenProperties
<1>2. /\ writes' = [v \in DOMAIN writes |-> writes'[v]]
      /\ \A v \in DOMAIN writes :
           writes'[v] = IF v = w THEN x ELSE writes[v]
  OBVIOUS
<1> QED
  BY <1>1, <1>2, MappedSeq

LEMMA Sent ==
  ASSUME writes \in Seq(Write), NEW x \in Write, writes' = Append(writes, x)
  PROVE  /\ writes' \in Seq(Write)
         /\ Len(writes) \in Nat
         /\ Len(writes') = Len(writes) + 1
         /\ DOMAIN writes' = DOMAIN writes \cup {Len(writes')}
         /\ DOMAIN writes = 1 .. Len(writes)
         /\ writes'[Len(writes')] = x
         /\ \A v \in DOMAIN writes : writes'[v] = writes[v]
<1>1. writes' \in Seq(Write) /\ Len(writes') = Len(writes) + 1
  BY AppendProperties
<1>2. DOMAIN writes = 1 .. Len(writes) /\ DOMAIN writes' = 1 .. Len(writes')
      /\ Len(writes) \in Nat
  BY <1>1, LenProperties
<1>3. /\ writes'[Len(writes')] = x
      /\ \A v \in DOMAIN writes : writes'[v] = writes[v]
  BY <1>1, <1>2, AppendProperties
<1> QED
  BY <1>1, <1>2, <1>3

(***************************************************************************)
(* What HandleHere does.                                                   *)
(***************************************************************************)
NodesType ==
  /\ pend \in [Node -> Seq(1 .. Len(writes))]
  /\ db \in [Node -> Database]
  /\ file \in [Node -> Seq(1 .. Len(writes))]
  /\ ran \in [Node -> Seq(1 .. Len(writes))]

LEMMA NodesKept ==
  ASSUME NodesType, UNCHANGED <<pend, db, file, ran>>,
         Len(writes) \in Nat, Len(writes') \in Nat, Len(writes) <= Len(writes')
  PROVE  NodesType'
<1>1. \A n \in Node : /\ pend[n] \in Seq(1 .. Len(writes'))
                      /\ file[n] \in Seq(1 .. Len(writes'))
                      /\ ran[n] \in Seq(1 .. Len(writes'))
  BY LongerSeq DEF NodesType
<1>2. /\ pend' \in [Node -> Seq(1 .. Len(writes'))]
      /\ file' \in [Node -> Seq(1 .. Len(writes'))]
      /\ ran' \in [Node -> Seq(1 .. Len(writes'))]
  BY <1>1 DEF NodesType
<1> QED
  BY <1>2 DEF NodesType

LEMMA NodesHandle ==
  ASSUME NodesType, Len(writes) \in Nat, Len(writes') \in Nat,
         Len(writes) <= Len(writes'),
         NEW n \in Node, NEW w \in 1 .. Len(writes'), NEW r \in Request,
         HandleHere(n, w, r)
  PROVE  NodesType'
<1>1. \A m \in Node : /\ pend[m] \in Seq(1 .. Len(writes'))
                      /\ file[m] \in Seq(1 .. Len(writes'))
                      /\ ran[m] \in Seq(1 .. Len(writes'))
  BY LongerSeq DEF NodesType
<1>2. /\ Append(file[n], w) \in Seq(1 .. Len(writes'))
      /\ Append(ran[n], w) \in Seq(1 .. Len(writes'))
  BY <1>1, AppendProperties
<1>3. HandleCommand(db[n], r).db \in Database
  BY HandleCommandType DEF NodesType, Outcome
<1>4. db' \in [Node -> Database]
  BY <1>3 DEF HandleHere, NodesType
<1>5. file' \in [Node -> Seq(1 .. Len(writes'))]
  BY <1>1, <1>2 DEF HandleHere, NodesType
<1>6. ran' \in [Node -> Seq(1 .. Len(writes'))]
  BY <1>1, <1>2 DEF HandleHere, NodesType
<1>7. pend' \in [Node -> Seq(1 .. Len(writes'))]
  BY <1>1 DEF HandleHere, NodesType
<1> QED
  BY <1>4, <1>5, <1>6, <1>7 DEF NodesType

LEMMA Logged ==
  ASSUME NodesType, NEW n \in Node, NEW w \in Nat,
         ran' = [ran EXCEPT ![n] = Append(@, w)]
  PROVE  /\ Runs(n, w)'
         /\ \A m \in Node : \A v : Runs(m, v) => Runs(m, v)'
<1>1. ran[n] \in Seq(Nat)
  <2>1. ran[n] \in Seq(1 .. Len(writes))
    BY DEF NodesType
  <2>2. \A i \in 1 .. Len(ran[n]) : ran[n][i] \in Nat
    BY <2>1, ElementOfSeq
  <2> QED
    BY <2>1, <2>2, SeqDef
<1> DEFINE s == Append(ran[n], w)
<1>2. /\ DOMAIN ran[n] = 1 .. Len(ran[n]) /\ Len(ran[n]) \in Nat
      /\ DOMAIN s = 1 .. Len(ran[n]) + 1
      /\ s[Len(ran[n]) + 1] = w
      /\ \A i \in 1 .. Len(ran[n]) : s[i] = ran[n][i]
  BY <1>1, AppendProperties, LenProperties
<1>3. ran'[n] = s /\ \A m \in Node \ {n} : ran'[m] = ran[m]
  BY DEF NodesType
<1> HIDE DEF s
<1>4. Runs(n, w)'
  BY <1>2, <1>3 DEF Runs
<1>5. ASSUME NEW m \in Node, NEW v, Runs(m, v)
      PROVE  Runs(m, v)'
  <2>1. CASE m = n
    BY <2>1, <1>2, <1>3, <1>5 DEF Runs
  <2>2. CASE m # n
    BY <2>2, <1>3, <1>5 DEF Runs
  <2> QED
    BY <2>1, <2>2
<1> QED
  BY <1>4, <1>5

-----------------------------------------------------------------------------
(***************************************************************************)
(* How a step keeps Covered, LeaderHas and Copiers: for every write it     *)
(* loses no run, no command due and no copy to send, but to a node that    *)
(* is out of step or has run the write; or it gives the write afresh to    *)
(* every node in step.                                                     *)
(***************************************************************************)
Fresh(w) ==
  /\ \A n \in synced \ apart : Runs(n, w) \/ n \in writes[w].todo
  /\ \A l \in leads \ apart : Runs(l, w)
  /\ writes[w].stage = "copying" =>
       writes[w].to \in leads \/ writes[w].todo \cap alive \subseteq apart

LEMMA Carried ==
  ASSUME Covered, LeaderHas, Copiers,
         synced' \ apart' \subseteq synced \ apart,
         leads' \ apart' \subseteq leads \ apart,
         \A n \in (synced' \cup leads') \ apart' : \A w \in DOMAIN writes :
           /\ Runs(n, w) => Runs(n, w)'
           /\ Due(n, w) => Runs(n, w)' \/ Due(n, w)',
         \A w \in DOMAIN writes' : Taken(w)' =>
           \/ /\ w \in DOMAIN writes
              /\ Taken(w)
              /\ \A n \in synced' \ apart' :
                   n \in writes[w].todo =>
                     Runs(n, w)' \/ n \in writes'[w].todo
              /\ writes'[w].stage = "copying" =>
                   /\ writes[w].stage = "copying"
                   /\ \/ writes'[w].to \in leads'
                      \/ /\ writes[w].to \notin leads
                         /\ writes[w].todo \cap alive \subseteq apart =>
                              writes'[w].todo \cap alive' \subseteq apart'
           \/ Fresh(w)'
  PROVE  Covered' /\ LeaderHas' /\ Copiers'
<1>1. Covered'
  <2> SUFFICES ASSUME NEW w \in DOMAIN writes', Taken(w)',
                      NEW n \in synced' \ apart'
               PROVE  Runs(n, w)' \/ Due(n, w)' \/ n \in writes'[w].todo
    BY DEF Covered
  <2>1. CASE Fresh(w)'
    BY <2>1 DEF Fresh
  <2>2. CASE w \in DOMAIN writes /\ Taken(w) /\ ~Fresh(w)'
    <3>1. Runs(n, w) \/ Due(n, w) \/ n \in writes[w].todo
      BY <2>2 DEF Covered
    <3> QED
      BY <2>2, <3>1
  <2> QED
    BY <2>1, <2>2
<1>2. LeaderHas'
  <2> SUFFICES ASSUME NEW w \in DOMAIN writes', Taken(w)',
                      NEW l \in leads' \ apart'
               PROVE  Runs(l, w)'
    BY DEF LeaderHas
  <2>1. CASE Fresh(w)'
    BY <2>1 DEF Fresh
  <2>2. CASE w \in DOMAIN writes /\ Taken(w)
    BY <2>2 DEF LeaderHas
  <2> QED
    BY <2>1, <2>2
<1>3. Copiers'
  <2> SUFFICES ASSUME NEW w \in DOMAIN writes', writes'[w].stage = "copying"
               PROVE  writes'[w].to \in leads'
                      \/ writes'[w].todo \cap alive' \subseteq apart'
    BY DEF Copiers
  <2>1. Taken(w)'
    BY DEF Taken
  <2>2. CASE Fresh(w)'
    BY <2>2 DEF Fresh
  <2>3. CASE ~Fresh(w)'
    <3>1. /\ w \in DOMAIN writes
          /\ writes[w].stage = "copying"
          /\ \/ writes'[w].to \in leads'
             \/ /\ writes[w].to \notin leads
                /\ writes[w].todo \cap alive \subseteq apart =>
                     writes'[w].todo \cap alive' \subseteq apart'
      BY <2>1, <2>3
    <3> QED
      BY <3>1 DEF Copiers
  <2> QED
    BY <2>2, <2>3
<1> QED
  BY <1>1, <1>2, <1>3

-----------------------------------------------------------------------------
(***************************************************************************)
(* What IInv gives to every action, and the membership keeps its type.     *)
(***************************************************************************)
LEMMA Facts ==
  ASSUME IInv
  PROVE  /\ MembershipTypeOK
         /\ NodesType
         /\ writes \in Seq(Write)
         /\ Len(writes) \in Nat
         /\ DOMAIN writes = 1 .. Len(writes)
         /\ \A w \in DOMAIN writes : writes[w] \in Write /\ InShape(w)
         /\ leads \subseteq serving /\ serving \subseteq synced
         /\ synced \subseteq alive /\ alive \subseteq Node
         /\ apart \subseteq alive
         /\ late \subseteq (DOMAIN writes) \X alive
         /\ faults \in Nat
         /\ \A a, b \in leads : a = b
         /\ \A n \in serving : pend[n] = <<>>
         /\ Covered /\ LeaderHas /\ Copiers
<1>1. writes \in Seq(Write)
  BY DEF IInv, TypeOK
<1>2. /\ Len(writes) \in Nat
      /\ DOMAIN writes = 1 .. Len(writes)
      /\ \A w \in DOMAIN writes : writes[w] \in Write
  BY <1>1, LenProperties, ElementOfSeq
<1>3. MembershipTypeOK /\ alive \subseteq Node
  BY DEF IInv, TypeOK, MembershipTypeOK
<1> QED
  BY <1>1, <1>2, <1>3 DEF IInv, TypeOK, Shape, NodesType

LEMMA Together ==
  ASSUME MembershipTypeOK', NodesType', writes' \in Seq(Write),
         leads' \subseteq serving', serving' \subseteq synced',
         synced' \subseteq alive', apart' \subseteq alive',
         late' \subseteq (1 .. Len(writes')) \X alive', faults' \in Nat,
         \A a, b \in leads' : a = b,
         \A n \in serving' : pend'[n] = <<>>,
         \A w \in DOMAIN writes' : InShape(w)',
         Covered' /\ LeaderHas' /\ Copiers'
  PROVE  IInv'
BY DEF IInv, TypeOK, Shape, NodesType

LEMMA MembershipTyped ==
  ASSUME MembershipTypeOK, NEW n \in Node, NEW m \in Node,
         \/ UNCHANGED membership
         \/ Enters(n, m)
         \/ Leaves(n, m)
         \/ Votes(n, m)
         \/ Forgets(n)
         \/ Follows(n, m)
         \/ \E to \in SUBSET Node : Leads(n, to)
         \/ Joins(n, m)
         \/ Fails(n)
  PROVE  MembershipTypeOK'
<1> USE DEF MembershipTypeOK
<1>0. m # Nobody /\ n # Nobody
  BY NodeAssumption DEF Nobody
<1>1. CASE UNCHANGED membership
  BY <1>1 DEF membership
<1>2. CASE Enters(n, m)
  BY <1>2 DEF Enters
<1>3. CASE Leaves(n, m)
  BY <1>3 DEF Leaves
<1>4. CASE Follows(n, m)
  BY <1>4, <1>0 DEF Follows
<1>5. ASSUME NEW to \in SUBSET Node, Leads(n, to)
      PROVE  MembershipTypeOK'
  BY <1>5, <1>0 DEF Leads
<1>6. CASE Joins(n, m)
  BY <1>6, <1>0 DEF Joins
<1>7. CASE Fails(n)
  BY <1>7 DEF Fails
<1>8. CASE Votes(n, m) \/ Forgets(n)
  BY <1>8 DEF Votes, Forgets
<1> QED
  BY <1>1, <1>2, <1>3, <1>4, <1>5, <1>6, <1>7, <1>8

LEMMA MembershipKept ==
  ASSUME MembershipTypeOK, UNCHANGED membership
  PROVE  MembershipTypeOK'
BY DEF MembershipTypeOK, membership

\* Carried, when the writes stay as they are.
LEMMA CarriedAlong ==
  ASSUME Covered, LeaderHas, Copiers,
         UNCHANGED <<leads, synced, writes>>, apart \subseteq apart',
         \A w \in DOMAIN writes :
           writes[w].todo \cap (alive' \ alive) \subseteq apart',
         \A n \in synced \cup leads : \A w \in DOMAIN writes :
           /\ Runs(n, w) => Runs(n, w)'
           /\ Due(n, w) => Runs(n, w)' \/ Due(n, w)'
  PROVE  Covered' /\ LeaderHas' /\ Copiers'
<1>1. \A w \in DOMAIN writes : Taken(w)' <=> Taken(w)
  BY DEF Taken
<1>2. \A w \in DOMAIN writes :
        \/ writes'[w].to \in leads'
        \/ /\ writes[w].to \notin leads
           /\ writes[w].todo \cap alive \subseteq apart =>
                writes'[w].todo \cap alive' \subseteq apart'
  OBVIOUS
<1> QED
  BY <1>1, <1>2, Carried

-----------------------------------------------------------------------------
(***************************************************************************)
(* The actions that send no copy.                                          *)
(***************************************************************************)
LEMMA LateCopyKeeps ==
  ASSUME IInv, NEW w \in DOMAIN writes, NEW f \in Node, LateCopy(w, f)
  PROVE  IInv'
<1> USE Facts
<1> USE DEF LateCopy
<1>1. writes[w].req \in Request
  BY DEF Write
<1>2. NodesType'
  BY <1>1, ConvertedType, NodesHandle
<1>3. \A n \in Node : \A v : Runs(n, v) => Runs(n, v)'
  <2>1. w \in Nat /\ ran' = [ran EXCEPT ![f] = Append(@, w)]
    BY DEF HandleHere
  <2> QED
    BY <2>1, Logged
<1>4. Covered' /\ LeaderHas' /\ Copiers'
  BY <1>3, CarriedAlong DEF HandleHere, membership, Due
<1>5. \A v \in DOMAIN writes' : InShape(v)'
  BY DEF InShape, Forwarded, membership
<1> QED
  BY <1>2, <1>4, <1>5, MembershipKept, Together DEF HandleHere, membership

\* The votes of an election, and its end with another node elected.
LEMMA LeaderChangesKeeps ==
  ASSUME IInv, NEW n \in Node, NEW l \in Node,
         NodeVotes(n, l) \/ NodeForgets(n) \/ LeaderChanges(n, l)
  PROVE  IInv'
<1> USE Facts
<1>1. MembershipTypeOK'
  BY MembershipTyped DEF NodeVotes, NodeForgets, LeaderChanges
<1>2. UNCHANGED <<alive, leads, nodes, writes, late, apart, faults>>
  BY DEF NodeVotes, NodeForgets, LeaderChanges, Votes, Forgets, Follows
<1>3. NodesType'
  BY <1>2, NodesKept DEF nodes
<1>4. Covered' /\ LeaderHas' /\ Copiers'
  BY <1>2, CarriedAlong DEF nodes, Due, Runs
<1>5. \A v \in DOMAIN writes' : InShape(v)'
  BY <1>2 DEF InShape, Forwarded
<1> QED
  BY <1>1, <1>2, <1>3, <1>4, <1>5, Together DEF nodes

LEMMA StartKeeps ==
  ASSUME IInv, NEW n \in Node, NEW l \in Node, Start(n, l)
  PROVE  IInv'
<1> USE Facts
<1> USE DEF Start
<1>1. NodesType'
  BY NodesKept DEF nodes
<1>2. MembershipTypeOK'
  BY MembershipTyped
<1>3. /\ alive' = alive \cup {n}
      /\ UNCHANGED <<leads, synced, writes>>
      /\ apart \subseteq apart' /\ apart' \subseteq alive'
  BY DEF Joins, nodes
<1>4. \A w \in DOMAIN writes :
        writes[w].todo \cap (alive' \ alive) \subseteq apart'
  BY <1>3
<1>5. Covered' /\ LeaderHas' /\ Copiers'
  BY <1>3, <1>4, CarriedAlong DEF nodes, Due, Runs
<1>6. \A v \in DOMAIN writes' : InShape(v)'
  BY <1>3 DEF InShape, Forwarded
<1> QED
  BY <1>1, <1>2, <1>3, <1>5, <1>6, Together DEF nodes

LEMMA ServeKeeps ==
  ASSUME IInv, NEW n \in Node, Serve(n)
  PROVE  IInv'
<1> USE Facts
<1> USE DEF Serve
<1>1. NodesType'
  BY NodesKept
<1>2. Covered' /\ LeaderHas' /\ Copiers'
  BY CarriedAlong DEF membership, Due, Runs
<1>3. \A v \in DOMAIN writes' : InShape(v)'
  BY DEF InShape, Forwarded, membership
<1> QED
  BY <1>1, <1>2, <1>3, MembershipKept, Together DEF membership

LEMMA ExpireKeeps ==
  ASSUME IInv, NEW n \in Node, NEW k \in Keys, Expire(n, k)
  PROVE  IInv'
<1> USE Facts
<1> USE DEF Expire
<1>1. db' \in [Node -> Database]
  <2>1. [db[n] EXCEPT !.store[k] = Absent, !.left[k] = Absent] \in Database
    BY DEF NodesType, Database
  <2> QED
    BY <2>1 DEF NodesType
<1>2. NodesType'
  BY <1>1 DEF NodesType
<1>3. Covered' /\ LeaderHas' /\ Copiers'
  BY CarriedAlong DEF membership, Due, Runs
<1>4. \A v \in DOMAIN writes' : InShape(v)'
  BY DEF InShape, Forwarded, membership
<1> QED
  BY <1>2, <1>3, <1>4, MembershipKept, Together DEF membership

LEMMA SyncNextKeeps ==
  ASSUME IInv, NEW n \in Node, SyncNext(n)
  PROVE  IInv'
<1> USE Facts
<1> USE DEF SyncNext
<1>1. pend[n] \in Seq(1 .. Len(writes)) /\ pend[n] # <<>>
  BY DEF NodesType
<1>2. PICK w \in 1 .. Len(writes) :
        /\ w = Head(pend[n])
        /\ Tail(pend[n]) \in Seq(1 .. Len(writes))
        /\ Len(Tail(pend[n])) = Len(pend[n]) - 1
        /\ \A i \in 1 .. Len(Tail(pend[n])) : Tail(pend[n])[i] = pend[n][i + 1]
  BY <1>1, HeadTailProperties
<1> DEFINE r == Synced(RecordOf(writes[w].req))
<1>3. r \in Request
  <2>1. writes[w].req \in Request
    BY <1>2 DEF Write
  <2> QED
    BY <2>1, SyncedType
<1>4. NodesType'
  <2>1. HandleCommand(db[n], r).db \in Database
    BY <1>3, HandleCommandType DEF NodesType, Outcome
  <2>2. /\ Append(file[n], w) \in Seq(1 .. Len(writes))
        /\ Append(ran[n], w) \in Seq(1 .. Len(writes))
    BY <1>2, AppendProperties DEF NodesType
  <2> QED
    BY <1>2, <2>1, <2>2 DEF NodesType
<1>5. Runs(n, w)' /\ \A m \in Node : \A v : Runs(m, v) => Runs(m, v)'
  <2>1. w \in Nat /\ ran' = [ran EXCEPT ![n] = Append(@, w)]
    BY <1>2
  <2> QED
    BY <2>1, Logged
<1>6. \A m \in Node : \A v \in DOMAIN writes :
        Due(m, v) => Runs(m, v)' \/ Due(m, v)'
  <2> SUFFICES ASSUME NEW m \in Node, NEW v \in DOMAIN writes, Due(m, v)
               PROVE  Runs(m, v)' \/ Due(m, v)'
    OBVIOUS
  <2>1. CASE m # n
    BY <2>1 DEF Due, NodesType
  <2>2. CASE m = n
    <3>1. PICK i \in DOMAIN pend[n] : pend[n][i] = v
      BY <2>2 DEF Due
    <3>2. DOMAIN pend[n] = 1 .. Len(pend[n]) /\ Len(pend[n]) \in Nat
      BY <1>1, LenProperties
    <3>3. CASE i = 1
      <4>1. v = w
        BY <1>1, <1>2, <3>1, <3>3
      <4> QED
        BY <4>1, <1>5, <2>2
    <3>4. CASE i # 1
      <4> DEFINE j == i - 1
      <4>0. j \in 1 .. Len(Tail(pend[n])) /\ j + 1 = i
        BY <1>2, <3>2, <3>4
      <4>1. j \in 1 .. Len(Tail(pend[n])) /\ Tail(pend[n])[j] = v
        <5> HIDE DEF j
        <5> QED
          BY <1>2, <3>1, <4>0
      <4>2. DOMAIN Tail(pend[n]) = 1 .. Len(Tail(pend[n]))
        BY <1>2, LenProperties
      <4>3. pend'[n] = Tail(pend[n])
        BY DEF NodesType
      <4> QED
        BY <4>1, <4>2, <4>3, <2>2 DEF Due
    <3> QED
      BY <3>3, <3>4
  <2> QED
    BY <2>1, <2>2
<1>7. Covered' /\ LeaderHas' /\ Copiers'
  BY <1>5, <1>6, CarriedAlong DEF membership
<1>8. \A v \in DOMAIN writes' : InShape(v)'
  BY DEF InShape, Forwarded, membership
<1>9. \A m \in serving' : pend'[m] = <<>>
  BY DEF NodesType
<1> QED
  BY <1>4, <1>7, <1>8, <1>9, MembershipKept, Together DEF membership

\* A node in step is elected: no leader is left whose copies it waits for.
LEMMA BecomesLeaderKeeps ==
  ASSUME IInv, NEW n \in Node, NEW to \in SUBSET Node, BecomesLeader(n, to)
  PROVE  IInv'
<1> USE Facts
<1> USE DEF BecomesLeader
<1>1. NodesType'
  BY NodesKept DEF nodes
<1>2. MembershipTypeOK'
  BY MembershipTyped
<1>3. /\ leads = {} /\ leads' = {n}
      /\ UNCHANGED <<alive, synced, serving, pend, ran, writes, apart>>
      /\ n \in serving
  BY DEF Leads, nodes
<1>4. Covered'
  BY <1>3 DEF Covered, Taken, Runs, Due
<1>5. LeaderHas'
  <2> SUFFICES ASSUME NEW w \in DOMAIN writes, Taken(w), n \notin apart
               PROVE  Runs(n, w)
    BY <1>3 DEF LeaderHas, Taken, Runs
  <2>1. Runs(n, w) \/ n \in writes[w].todo
    <3>1. ~Due(n, w)
      BY <1>3 DEF Due
    <3> QED
      BY <1>3, <3>1 DEF Covered
  <2>2. n \notin writes[w].todo
    BY <1>3 DEF Copiers, InShape, Taken
  <2> QED
    BY <2>1, <2>2
<1>6. Copiers'
  BY <1>3 DEF Copiers
<1>7. \A v \in DOMAIN writes' : InShape(v)'
  BY <1>3 DEF InShape, Forwarded
<1> QED
  BY <1>1, <1>2, <1>3, <1>4, <1>5, <1>6, <1>7, Together DEF nodes

\* The log of a leader in step, whose file holds what it ran, has every write.
LEMMA SyncRequestKeeps ==
  ASSUME IInv, NEW n \in Node, SyncRequest(n)
  PROVE  IInv'
<1> USE Facts
<1> USE DEF SyncRequest
<1> DEFINE l == addr[n]
<1>1. l \in Node
  BY DEF MembershipTypeOK
<1>2. NodesType'
  BY <1>1 DEF NodesType
<1>3. /\ UNCHANGED <<leads, alive, serving, ran, writes>>
      /\ apart \subseteq apart'
      /\ \A m \in Node \ {n} : pend'[m] = pend[m]
      /\ pend'[n] = file[l]
  BY DEF membership, NodesType
<1>4. Covered'
  <2> SUFFICES ASSUME NEW w \in DOMAIN writes, Taken(w),
                      NEW m \in synced' \ apart'
               PROVE  Runs(m, w)' \/ Due(m, w)' \/ m \in writes[w].todo
    BY <1>3 DEF Covered, Taken
  <2>1. CASE m # n
    BY <2>1, <1>3 DEF Covered, Runs, Due
  <2>2. CASE m = n
    <3>1. l \in leads \ apart /\ file[l] = ran[l]
      BY <2>2
    <3>2. Runs(l, w)
      BY <3>1 DEF LeaderHas
    <3>3. Due(n, w)'
      BY <1>3, <3>1, <3>2 DEF Runs, Due
    <3> QED
      BY <2>2, <3>3
  <2> QED
    BY <2>1, <2>2
<1>5. LeaderHas'
  BY <1>3 DEF LeaderHas, Taken, Runs
<1>6. Copiers'
  BY <1>3 DEF Copiers
<1>7. \A v \in DOMAIN writes' : InShape(v)'
  BY <1>3 DEF InShape, Forwarded
<1>8. synced' \subseteq alive' /\ apart' \subseteq alive'
      /\ \A m \in serving' : pend'[m] = <<>>
  BY <1>3
<1> QED
  BY <1>2, <1>3, <1>4, <1>5, <1>6, <1>7, <1>8, MembershipKept, Together

-----------------------------------------------------------------------------
(***************************************************************************)
(* A write reaches the node that takes it.                                 *)
(***************************************************************************)
LEMMA ForwardKeeps ==
  ASSUME IInv, NEW c \in Conns, NEW r \in Requests[c], Forward(c, r)
  PROVE  IInv'
<1> USE Facts
<1> USE DEF Forward
<1> DEFINE x == [conn |-> c, req |-> r, to |-> addr[Origin[c]],
                 stage |-> "called", todo |-> {}, told |-> "none"]
<1>1. Origin[c] \in serving /\ Origin[c] \in Node /\ r \in Request
  BY ReplicationAssumption DEF Received
<1>2. addr[Origin[c]] \in Node
  BY <1>1 DEF MembershipTypeOK
<1>3. x \in Write
  BY <1>1, <1>2 DEF Write
<1> HIDE DEF x
<1>4. /\ writes' \in Seq(Write)
      /\ Len(writes') = Len(writes) + 1
      /\ DOMAIN writes' = DOMAIN writes \cup {Len(writes')}
      /\ writes'[Len(writes')] = x
      /\ \A v \in DOMAIN writes : writes'[v] = writes[v]
  BY <1>3, Sent DEF Send, x
<1>5. x.stage = "called" /\ x.todo = {} /\ x.told = "none"
  BY DEF x
<1>6. NodesType'
  BY <1>4, NodesKept DEF nodes
<1>7. /\ UNCHANGED <<membership, synced, serving, pend, ran, late, apart,
                    faults>>
      /\ UNCHANGED <<alive, leads>>
  BY DEF nodes, membership
<1>8. Covered' /\ LeaderHas' /\ Copiers'
  <2>1. \A w \in DOMAIN writes' : Taken(w)' =>
           /\ w \in DOMAIN writes
           /\ Taken(w)
           /\ writes'[w] = writes[w]
    BY <1>4, <1>5 DEF Taken
  <2>2. \A n \in Node : \A w : /\ Runs(n, w) => Runs(n, w)'
                               /\ Due(n, w) => Due(n, w)'
    BY <1>7 DEF Runs, Due
  <2> QED
    BY <1>7, <2>1, <2>2, Carried
<1>9. \A v \in DOMAIN writes' : InShape(v)'
  BY <1>4, <1>5, <1>7 DEF InShape, Forwarded
<1>10. late' \subseteq (1 .. Len(writes')) \X alive'
  BY <1>4, <1>7
<1> QED
  BY <1>4, <1>6, <1>7, <1>8, <1>9, <1>10, MembershipKept, Together

LEMMA WriteHereKeeps ==
  ASSUME IInv, NEW c \in Conns, NEW r \in Requests[c], WriteHere(c, r)
  PROVE  IInv'
<1> USE Facts
<1> USE DEF WriteHere
<1> DEFINE n == Origin[c]
           told == IF Accepted(n, r) THEN "OK" ELSE "ERROR"
           x == [conn |-> c, req |-> r, to |-> n,
                 stage |-> "local", todo |-> {}, told |-> told]
<1>1. n \in serving /\ n \in Node /\ r \in Request
  BY ReplicationAssumption DEF Received
<1>3. x \in Write
  BY <1>1 DEF Write
<1>5. x.stage = "local" /\ x.todo = {} /\ x.conn = c /\ x.to = n
  OBVIOUS
<1>4. /\ writes' \in Seq(Write)
      /\ Len(writes') = Len(writes) + 1
      /\ DOMAIN writes' = DOMAIN writes \cup {Len(writes')}
      /\ writes'[Len(writes')] = x
      /\ \A v \in DOMAIN writes : writes'[v] = writes[v]
  <2>1. writes' = Append(writes, x)
    BY DEF Send
  <2> HIDE DEF x
  <2> QED
    BY <1>3, <2>1, Sent
<1> HIDE DEF x
<1>6. NodesType'
  BY <1>1, <1>4, NodesHandle
<1>7. /\ UNCHANGED <<membership, alive, leads, synced, serving, pend, late,
                    faults>>
      /\ apart' = apart \cup {n}
  BY DEF HandleHere, membership
<1>8. Covered' /\ LeaderHas' /\ Copiers'
  <2>1. \A w \in DOMAIN writes' : Taken(w)' =>
           /\ w \in DOMAIN writes
           /\ Taken(w)
           /\ writes'[w] = writes[w]
    BY <1>4, <1>5 DEF Taken
  <2>2. \A m \in Node : \A w : /\ Runs(m, w) => Runs(m, w)'
                               /\ Due(m, w) => Due(m, w)'
    <3>1. /\ Len(writes) + 1 \in Nat
          /\ ran' = [ran EXCEPT ![n] = Append(@, Len(writes) + 1)]
      BY DEF HandleHere
    <3> QED
      BY <1>1, <1>7, <3>1, Logged DEF Due
  <2> QED
    BY <1>7, <2>1, <2>2, Carried
<1>9. \A v \in DOMAIN writes' : InShape(v)'
  BY <1>4, <1>5, <1>7 DEF InShape, Forwarded
<1>10. late' \subseteq (1 .. Len(writes')) \X alive' /\ apart' \subseteq alive'
  BY <1>1, <1>4, <1>7
<1> QED
  BY <1>4, <1>6, <1>7, <1>9, <1>8, <1>10, MembershipKept, Together

LEMMA WriteOnLeaderKeeps ==
  ASSUME IInv, NEW c \in Conns, NEW r \in Requests[c], WriteOnLeader(c, r)
  PROVE  IInv'
<1> USE Facts
<1> USE DEF WriteOnLeader
<1> DEFINE l == Origin[c]
           yes == [conn |-> c, req |-> r, to |-> l,
                   stage |-> "copying", todo |-> list[l], told |-> "OK"]
           no == [conn |-> c, req |-> r, to |-> l,
                  stage |-> "refused", todo |-> {}, told |-> "ERROR"]
<1>1. l \in leads /\ l \in Node /\ r \in Request
  BY ReplicationAssumption
<1>2. PICK x \in {yes, no} :
        /\ x \in Write
        /\ writes' = Append(writes, x)
        /\ apart' = IF x = yes THEN apart \cup OutOfStep(l, list[l]) ELSE apart
        /\ x.conn = c /\ x.to = l
        /\ \/ x = yes /\ x.stage = "copying" /\ x.todo = list[l]
           \/ x = no /\ x.stage = "refused" /\ x.todo = {}
  <2>1. yes \in Write /\ no \in Write
    BY <1>1 DEF Write, MembershipTypeOK
  <2>2. yes # no /\ yes.stage = "copying" /\ no.stage = "refused"
    OBVIOUS
  <2>3. CASE Accepted(l, r)
    BY <2>1, <2>2, <2>3 DEF Send
  <2>4. CASE ~Accepted(l, r)
    BY <2>1, <2>2, <2>4 DEF Send
  <2> QED
    BY <2>3, <2>4
<1> DEFINE v == Len(writes) + 1
<1>3. /\ writes' \in Seq(Write)
      /\ Len(writes') = v
      /\ DOMAIN writes' = DOMAIN writes \cup {v}
      /\ writes'[v] = x
      /\ \A w \in DOMAIN writes : writes'[w] = writes[w]
      /\ v \notin DOMAIN writes
  BY <1>2, Sent
<1>4. NodesType'
  BY <1>1, <1>3, NodesHandle
<1>5. /\ UNCHANGED <<membership, alive, leads, synced, serving, pend, late,
                    faults>>
      /\ apart \subseteq apart' /\ apart' \subseteq alive'
  BY <1>2 DEF HandleHere, membership, OutOfStep
<1>6. \A m \in Node : \A w : /\ Runs(m, w) => Runs(m, w)'
                             /\ Due(m, w) => Due(m, w)'
  <2>1. v \in Nat /\ ran' = [ran EXCEPT ![l] = Append(@, v)]
    BY DEF HandleHere
  <2> QED
    BY <1>1, <1>5, <2>1, Logged DEF Due
<1>7. \E i \in DOMAIN ran'[l] : ran'[l][i] = v
  <2>1. PICK k \in Nat : k = v
    OBVIOUS
  <2>2. ran' = [ran EXCEPT ![l] = Append(@, k)]
    BY <2>1 DEF HandleHere
  <2>3. Runs(l, k)'
    BY <1>1, <2>2, Logged
  <2> QED
    BY <2>1, <2>3 DEF Runs
<1>8. PICK k \in DOMAIN writes' : k = v
  BY <1>3
<1>9. Taken(k)' => Fresh(k)'
  <2> SUFFICES ASSUME Taken(k)'
               PROVE  Fresh(k)'
    OBVIOUS
  <2>1. /\ writes'[k].to = l /\ writes'[k].todo = list[l]
        /\ apart' = apart \cup OutOfStep(l, list[l])
    BY <1>2, <1>3, <1>8 DEF Taken
  <2>2. Runs(l, k)'
    BY <1>7, <1>8 DEF Runs
  <2>3. \A n \in synced' \ apart' : Runs(n, k)' \/ n \in writes'[k].todo
    BY <1>5, <2>1, <2>2 DEF OutOfStep
  <2>4. \A n \in leads' \ apart' : Runs(n, k)'
    BY <1>1, <1>5, <2>2
  <2> QED
    BY <1>1, <1>5, <2>1, <2>3, <2>4 DEF Fresh
<1>10. Covered' /\ LeaderHas' /\ Copiers'
  <2>1. \A w \in DOMAIN writes' : Taken(w)' =>
           \/ w \in DOMAIN writes /\ Taken(w) /\ writes'[w] = writes[w]
           \/ Fresh(w)'
    BY <1>3, <1>8, <1>9 DEF Taken
  <2> QED
    BY <1>5, <1>6, <2>1, Carried
<1>11. \A w \in DOMAIN writes' : InShape(w)'
  <2>1. InShape(k)'
    BY <1>1, <1>2, <1>3, <1>5, <1>8 DEF InShape, Forwarded
  <2>2. \A w \in DOMAIN writes : InShape(w)'
    BY <1>3, <1>5 DEF InShape, Forwarded
  <2> QED
    BY <1>3, <1>8, <2>1, <2>2
<1>12. late' \subseteq (1 .. Len(writes')) \X alive'
  BY <1>3, <1>5
<1> QED
  BY <1>3, <1>4, <1>5, <1>10, <1>11, <1>12, MembershipKept, Together

(***************************************************************************)
(* One write changes; the others stay.                                     *)
(***************************************************************************)
LEMMA OneWrite ==
  ASSUME IInv, NEW w \in DOMAIN writes, NEW x \in Write,
         writes' = [writes EXCEPT ![w] = x],
         x.conn = writes[w].conn, x.to = writes[w].to, alive' = alive,
         IF x.stage = "copying" THEN x.to \in alive ELSE x.todo = {},
         x.to # Origin[x.conn] /\ x.told = "OK" => x.stage = "over"
  PROVE  /\ writes' \in Seq(Write)
         /\ Len(writes') = Len(writes)
         /\ DOMAIN writes' = DOMAIN writes
         /\ writes'[w] = x
         /\ \A v \in DOMAIN writes : v # w => writes'[v] = writes[v]
         /\ \A v \in DOMAIN writes' : InShape(v)'
<1> USE Facts
<1>1. /\ writes' \in Seq(Write)
      /\ Len(writes') = Len(writes)
      /\ DOMAIN writes' = DOMAIN writes
      /\ \A v \in DOMAIN writes : writes'[v] = IF v = w THEN x ELSE writes[v]
  BY ExceptWrite
<1>2. \A v \in DOMAIN writes' : InShape(v)'
  BY <1>1 DEF InShape, Forwarded
<1> QED
  BY <1>1, <1>2

\* Carried, when a write is over or has fewer nodes to go.
LEMMA CarriedOn ==
  ASSUME IInv, NEW w \in DOMAIN writes, NEW x \in Write,
         writes' = [writes EXCEPT ![w] = x],
         x.to = writes[w].to,
         x.stage \in {"copying", "over"} => writes[w].stage = "copying",
         x.todo \subseteq writes[w].todo,
         UNCHANGED <<leads, synced, alive>>, apart \subseteq apart',
         \A n \in Node : \A v : /\ Runs(n, v) => Runs(n, v)'
                                /\ Due(n, v) => Due(n, v)',
         x.stage \in {"copying", "over"} =>
           \A n \in (synced \ apart') \cap (writes[w].todo \ x.todo) :
             Runs(n, w)'
  PROVE  Covered' /\ LeaderHas' /\ Copiers'
<1> USE Facts
<1>1. /\ DOMAIN writes' = DOMAIN writes
      /\ writes'[w] = x
      /\ \A v \in DOMAIN writes : v # w => writes'[v] = writes[v]
  BY ExceptWrite
<1>2. \A v \in DOMAIN writes' : Taken(v)' => Taken(v)
  BY <1>1 DEF Taken
<1>3. \A v \in DOMAIN writes' : Taken(v)' =>
        \A n \in synced' \ apart' :
           n \in writes[v].todo => Runs(n, v)' \/ n \in writes'[v].todo
  BY <1>1 DEF Taken
<1>4. \A v \in DOMAIN writes' : writes'[v].stage = "copying" =>
        /\ writes[v].stage = "copying"
        /\ writes'[v].to = writes[v].to
        /\ writes'[v].todo \subseteq writes[v].todo
  BY <1>1
<1> QED
  BY <1>1, <1>2, <1>3, <1>4, Carried

LEMMA ForwardFailsKeeps ==
  ASSUME IInv, NEW w \in DOMAIN writes,
         ForwardFails(w) \/ ForwardTimesOut(w)
  PROVE  IInv'
<1> USE Facts
<1>1. PICK x \in Write :
        /\ writes' = [writes EXCEPT ![w] = x]
        /\ x.conn = writes[w].conn /\ x.to = writes[w].to
        /\ x.todo = writes[w].todo
        /\ x.told = "OK" => writes[w].told = "OK"
        /\ \/ x.stage = "lost" /\ writes[w].todo = {}
           \/ x.stage = writes[w].stage /\ x.told # "OK"
        /\ faults' \in Nat
        /\ x.stage \in {"called", "copying", "lost"}
        /\ writes[w].stage \in {"called", "copying", "lost"}
  <2>1. CASE ForwardFails(w)
    <3> DEFINE x == [writes[w] EXCEPT
                       !.stage = "lost",
                       !.told = IF @ = "none" THEN "ERROR" ELSE @]
    <3>1. /\ x \in Write
          /\ x.conn = writes[w].conn /\ x.to = writes[w].to
          /\ x.todo = writes[w].todo /\ x.stage = "lost"
          /\ x.told = "OK" => writes[w].told = "OK"
      BY DEF Write
    <3>2. /\ writes[w].todo = {}
          /\ writes[w].stage \in {"called", "copying", "lost"}
      BY <2>1 DEF InShape, ForwardFails
    <3>3. writes' = [writes EXCEPT ![w] = x] /\ faults' = faults
      BY <2>1 DEF ForwardFails
    <3> HIDE DEF x
    <3> QED
      BY <3>1, <3>2, <3>3
  <2>2. CASE ForwardTimesOut(w)
    <3> DEFINE x == [writes[w] EXCEPT !.told = "UNKNOWN"]
    <3>1. /\ x \in Write
          /\ x.conn = writes[w].conn /\ x.to = writes[w].to
          /\ x.todo = writes[w].todo /\ x.told = "UNKNOWN"
          /\ x.stage = writes[w].stage
      BY DEF Write
    <3>2. /\ writes' = [writes EXCEPT ![w] = x]
          /\ faults' \in Nat
          /\ writes[w].stage \in {"called", "copying"}
      BY <2>2 DEF ForwardTimesOut
    <3> HIDE DEF x
    <3> QED
      BY <3>1, <3>2
  <2> QED
    BY <2>1, <2>2
<1>2. UNCHANGED <<membership, alive, nodes, late, apart>>
  BY DEF ForwardFails, ForwardTimesOut, membership
<1>3. /\ writes' \in Seq(Write)
      /\ Len(writes') = Len(writes)
      /\ \A v \in DOMAIN writes' : InShape(v)'
  <2>1. InShape(w)
    OBVIOUS
  <2>2. /\ IF x.stage = "copying" THEN x.to \in alive ELSE x.todo = {}
        /\ x.to # Origin[x.conn] /\ x.told = "OK" => x.stage = "over"
    BY <1>1, <2>1 DEF InShape, Forwarded
  <2> QED
    BY <1>1, <1>2, <2>2, OneWrite
<1>4. NodesType'
  BY <1>2, <1>3, NodesKept DEF nodes
<1>5. Covered' /\ LeaderHas' /\ Copiers'
  BY <1>1, <1>2, CarriedOn DEF membership, nodes, Runs, Due
<1> QED
  BY <1>1, <1>2, <1>3, <1>4, <1>5, MembershipKept, Together
     DEF nodes, membership

(***************************************************************************)
(* Node f needs no more call for w: it ran it, is gone or is out of step.  *)
(* (Len(writes') is known below only, and NodesType' speaks of it.)        *)
(***************************************************************************)
LEMMA OneLess ==
  ASSUME IInv, NEW w \in DOMAIN writes, NEW f \in Node,
         writes[w].stage = "copying",
         writes' = [writes EXCEPT ![w].todo = @ \ {f}],
         UNCHANGED <<membership, synced, serving, pend>>, faults' \in Nat,
         Len(writes') = Len(writes) => NodesType',
         apart \subseteq apart', apart' \subseteq alive,
         late' \subseteq (DOMAIN writes) \X alive,
         \A n \in Node : \A v : Runs(n, v) => Runs(n, v)',
         f \in synced \ apart' => Runs(f, w)'
  PROVE  IInv'
<1> USE Facts
<1> DEFINE x == [writes[w] EXCEPT !.todo = @ \ {f}]
<1>1. /\ x \in Write
      /\ x.conn = writes[w].conn /\ x.to = writes[w].to
      /\ x.todo = writes[w].todo \ {f} /\ x.told = writes[w].told
      /\ x.stage = "copying"
  BY DEF Write
<1>2. writes' = [writes EXCEPT ![w] = x]
  OBVIOUS
<1> HIDE DEF x
<1>3. InShape(w) /\ UNCHANGED <<alive, leads, synced, serving, pend>>
  BY DEF membership
<1>4. /\ x.to \in alive
      /\ x.to # Origin[x.conn] /\ x.told = "OK" => x.stage = "over"
  BY <1>1, <1>3 DEF InShape, Forwarded
<1>5. /\ writes' \in Seq(Write)
      /\ Len(writes') = Len(writes)
      /\ DOMAIN writes' = DOMAIN writes
      /\ \A v \in DOMAIN writes' : InShape(v)'
  BY <1>1, <1>2, <1>3, <1>4, OneWrite
<1>6. Covered' /\ LeaderHas' /\ Copiers'
  <2>1. \A n \in Node : \A v : Due(n, v) => Due(n, v)'
    BY <1>3 DEF Due
  <2>2. \A n \in (synced \ apart') \cap (writes[w].todo \ x.todo) : Runs(n, w)'
    BY <1>1
  <2> QED
    BY <1>1, <1>2, <1>3, <2>1, <2>2, CarriedOn
<1>7. MembershipTypeOK'
  BY MembershipKept
<1> QED
  BY <1>3, <1>5, <1>6, <1>7, Together

LEMMA CopyFailsKeeps ==
  ASSUME IInv, NEW w \in DOMAIN writes, NEW f \in Node, CopyFails(w, f)
  PROVE  IInv'
<1> USE Facts
<1> USE DEF CopyFails
<1>1. Len(writes') = Len(writes) => NodesType'
  BY NodesKept DEF nodes
<1>2. \A n \in Node : \A v : Runs(n, v) => Runs(n, v)'
  BY DEF nodes, Runs
<1> QED
  BY <1>1, <1>2, OneLess DEF nodes

LEMMA CopyTimesOutKeeps ==
  ASSUME IInv, NEW w \in DOMAIN writes, NEW f \in Node, CopyTimesOut(w, f)
  PROVE  IInv'
<1> USE Facts
<1> USE DEF CopyTimesOut
<1>1. Len(writes') = Len(writes) => NodesType'
  BY NodesKept DEF nodes
<1>2. \A n \in Node : \A v : Runs(n, v) => Runs(n, v)'
  BY DEF nodes, Runs
<1>3. late' \subseteq (DOMAIN writes) \X alive
  OBVIOUS
<1>4. /\ UNCHANGED <<membership, synced, serving, pend>> /\ faults' \in Nat
      /\ apart \subseteq apart' /\ apart' \subseteq alive
      /\ f \notin synced \ apart'
  BY DEF nodes
<1> QED
  BY <1>1, <1>2, <1>3, <1>4, OneLess

LEMMA ReplicateRequestKeeps ==
  ASSUME IInv, NEW w \in DOMAIN writes, NEW f \in Node, ReplicateRequest(w, f)
  PROVE  IInv'
<1> USE Facts
<1> USE DEF ReplicateRequest
<1>1. Converted(writes[w].req) \in Request
  BY ConvertedType DEF Write
<1>2. Len(writes') = Len(writes) => NodesType'
  BY <1>1, NodesHandle
<1>3. Runs(f, w)' /\ \A n \in Node : \A v : Runs(n, v) => Runs(n, v)'
  <2>1. w \in Nat /\ ran' = [ran EXCEPT ![f] = Append(@, w)]
    BY DEF HandleHere
  <2> QED
    BY <2>1, Logged
<1>4. /\ apart \subseteq apart' /\ apart' \subseteq alive
      /\ UNCHANGED <<membership, synced, serving, pend, faults, late>>
  BY DEF HandleHere
<1> QED
  BY <1>2, <1>3, <1>4, OneLess

LEMMA ReplicatedKeeps ==
  ASSUME IInv, NEW w \in DOMAIN writes, Replicated(w)
  PROVE  IInv'
<1> USE Facts
<1> DEFINE x == [writes[w] EXCEPT !.stage = "over",
                                  !.told = IF @ = "none" THEN "OK" ELSE @]
<1>1. /\ x \in Write
      /\ x.conn = writes[w].conn /\ x.to = writes[w].to
      /\ x.todo = {} /\ x.stage = "over"
      /\ writes[w].stage = "copying" /\ writes[w].todo = {}
  BY DEF Write, Replicated
<1>2. writes' = [writes EXCEPT ![w] = x]
  BY DEF Replicated
<1> HIDE DEF x
<1>3. /\ UNCHANGED <<membership, nodes, late, apart, faults>>
      /\ UNCHANGED <<alive, leads, synced, serving, pend, ran>>
  BY DEF membership, nodes, Replicated
<1>4. /\ writes' \in Seq(Write)
      /\ Len(writes') = Len(writes)
      /\ DOMAIN writes' = DOMAIN writes
      /\ \A v \in DOMAIN writes' : InShape(v)'
  BY <1>1, <1>2, <1>3, OneWrite
<1>5. Covered' /\ LeaderHas' /\ Copiers'
  <2>1. \A n \in Node : \A v : /\ Runs(n, v) => Runs(n, v)'
                               /\ Due(n, v) => Due(n, v)'
    BY <1>3 DEF Due, Runs
  <2> QED
    BY <1>1, <1>2, <1>3, <2>1, CarriedOn
<1>6. NodesType'
  BY <1>3, <1>4, NodesKept DEF nodes
<1> QED
  BY <1>3, <1>4, <1>5, <1>6, MembershipKept, Together

\* The handler of the leader, or of a node that is not one.
LEMMA ForwardRequestKeeps ==
  ASSUME IInv, NEW w \in DOMAIN writes, ForwardRequest(w)
  PROVE  IInv'
<1> USE Facts
<1> DEFINE n == writes[w].to
           r == Converted(writes[w].req)
           yes(S) == [writes[w] EXCEPT !.stage = "copying", !.todo = S]
           no == [writes[w] EXCEPT !.stage = "refused",
                                   !.told = IF @ = "none" THEN "ERROR" ELSE @]
<1>1. /\ r \in Request /\ n \in Node /\ n \in alive
      /\ writes[w].stage = "called" /\ writes[w].todo = {}
      /\ Forwarded(w) => writes[w].told # "OK"
  BY ConvertedType DEF Write, InShape, ForwardRequest
<1>2. PICK x \in Write :
        /\ writes' = [writes EXCEPT ![w] = x]
        /\ x.conn = writes[w].conn /\ x.to = writes[w].to
        /\ Forwarded(w) => x.told # "OK"
        /\ \/ /\ x.stage = "copying"
              /\ apart' = IF n \in leads THEN apart \cup OutOfStep(n, x.todo)
                                         ELSE alive
           \/ /\ x.stage = "refused" /\ x.todo = {}
              /\ apart' = apart
  <2>1. CASE Accepted(n, r)
    <3>1. PICK S \in SUBSET Node :
            /\ writes' = [writes EXCEPT ![w].stage = "copying", ![w].todo = S]
            /\ apart' = IF n \in leads THEN apart \cup OutOfStep(n, S)
                                       ELSE alive
      BY <2>1 DEF ForwardRequest
    <3>2. /\ yes(S) \in Write
          /\ yes(S).conn = writes[w].conn /\ yes(S).to = writes[w].to
          /\ yes(S).stage = "copying" /\ yes(S).todo = S
          /\ yes(S).told = writes[w].told
      BY DEF Write
    <3>3. writes' = [writes EXCEPT ![w] = yes(S)]
      BY <3>1
    <3> HIDE DEF yes
    <3> QED
      BY <1>1, <3>1, <3>2, <3>3
  <2>2. CASE ~Accepted(n, r)
    <3>1. /\ no \in Write
          /\ no.conn = writes[w].conn /\ no.to = writes[w].to
          /\ no.stage = "refused" /\ no.todo = {}
          /\ Forwarded(w) => no.told # "OK"
      BY <1>1 DEF Write
    <3>2. writes' = [writes EXCEPT ![w] = no] /\ apart' = apart
      BY <2>2 DEF ForwardRequest
    <3> HIDE DEF no
    <3> QED
      BY <3>1, <3>2
  <2> QED
    BY <2>1, <2>2
<1>3. UNCHANGED <<membership, alive, leads, synced, serving, pend, late,
                 faults>>
  BY DEF membership, HandleHere, ForwardRequest
<1>4. /\ writes' \in Seq(Write)
      /\ Len(writes') = Len(writes)
      /\ DOMAIN writes' = DOMAIN writes
      /\ writes'[w] = x
      /\ \A v \in DOMAIN writes : v # w => writes'[v] = writes[v]
      /\ \A v \in DOMAIN writes' : InShape(v)'
  <2>0. /\ x.conn = writes[w].conn /\ x.to = writes[w].to /\ alive' = alive
        /\ writes' = [writes EXCEPT ![w] = x]
    BY <1>2, <1>3
  <2>1. IF x.stage = "copying" THEN x.to \in alive ELSE x.todo = {}
    BY <1>1, <1>2
  <2>2. x.to # Origin[x.conn] /\ x.told = "OK" => x.stage = "over"
    BY <1>2 DEF Forwarded
  <2> QED
    BY <2>0, <2>1, <2>2, OneWrite
<1>5. NodesType'
  <2>1. HandleHere(n, w, r) /\ w \in 1 .. Len(writes')
    BY <1>4 DEF ForwardRequest
  <2> QED
    BY <1>1, <1>4, <2>1, NodesHandle
<1>6. Runs(n, w)' /\ \A m \in Node : \A v : Runs(m, v) => Runs(m, v)'
  <2>1. PICK l \in Node : l = n
    BY <1>1
  <2>2. w \in Nat /\ HandleHere(l, w, r)
    <3>1. w \in Nat
      OBVIOUS
    <3>2. HandleHere(n, w, r)
      BY DEF ForwardRequest
    <3> QED
      BY <2>1, <3>1, <3>2 DEF HandleHere
  <2>3. Runs(l, w)' /\ \A m \in Node : \A v : Runs(m, v) => Runs(m, v)'
    BY <2>2, Logged DEF HandleHere
  <2> QED
    BY <2>1, <2>3, <1>2, <1>4 DEF Runs
<1>7. apart \subseteq apart' /\ apart' \subseteq alive
  BY <1>2 DEF OutOfStep
<1>8. Taken(w)' => Fresh(w)'
  <2> SUFFICES ASSUME x.stage = "copying"
               PROVE  Fresh(w)'
    BY <1>2, <1>4 DEF Taken
  <2>1. CASE n \in leads
    <3>1. apart' = apart \cup OutOfStep(n, x.todo)
      BY <1>2, <2>1
    <3>2. \A m \in synced' \ apart' : m = n \/ m \in x.todo
      BY <1>3, <3>1 DEF OutOfStep
    <3>3. \A m \in leads' \ apart' : m = n
      BY <1>3, <2>1
    <3>4. writes'[w].to = n /\ n \in leads'
      BY <1>2, <1>3, <1>4, <2>1
    <3> QED
      BY <1>2, <1>4, <1>6, <3>2, <3>3, <3>4 DEF Fresh
  <2>2. CASE n \notin leads
    <3>1. apart' = alive /\ UNCHANGED <<alive, synced, leads>>
      BY <1>2, <1>3, <2>2
    <3> QED
      BY <3>1 DEF Fresh
  <2> QED
    BY <2>1, <2>2
<1>9. Covered' /\ LeaderHas' /\ Copiers'
  <2>1. \A v \in DOMAIN writes' : Taken(v)' =>
           \/ v \in DOMAIN writes /\ Taken(v) /\ writes'[v] = writes[v]
           \/ Fresh(v)'
    BY <1>4, <1>8 DEF Taken
  <2>2. \A m \in Node : \A v : Due(m, v) => Due(m, v)'
    BY <1>3 DEF Due
  <2> QED
    BY <1>3, <1>6, <1>7, <2>1, <2>2, Carried
<1> QED
  BY <1>3, <1>4, <1>5, <1>7, <1>9, MembershipKept, Together

-----------------------------------------------------------------------------
(***************************************************************************)
(* The list of the leader changes, and a node fails.                       *)
(***************************************************************************)
LEMMA NodeEntersKeeps ==
  ASSUME IInv, NEW l \in Node, NEW d \in Node, NodeEnters(l, d)
  PROVE  IInv'
<1> USE Facts
<1>1. PICK W \in SUBSET InFlight(l) :
        /\ writes' = [w \in DOMAIN writes |->
                        IF w \in W THEN [writes[w] EXCEPT !.todo = @ \cup {d}]
                                   ELSE writes[w]]
        /\ apart' = IF W # {} THEN apart \cup ({d} \cap alive) ELSE apart
  BY DEF NodeEnters
<1>2. /\ l \in leads
      /\ UNCHANGED <<alive, leads, synced, serving, pend, ran, db, file, late,
                    faults>>
      /\ apart \subseteq apart' /\ apart' \subseteq alive'
  BY <1>1 DEF NodeEnters, Enters, nodes
<1>3. \A w \in DOMAIN writes :
        /\ writes'[w] \in Write
        /\ writes'[w].conn = writes[w].conn
        /\ writes'[w].to = writes[w].to
        /\ writes'[w].stage = writes[w].stage
        /\ writes'[w].told = writes[w].told
        /\ writes[w].todo \subseteq writes'[w].todo
        /\ \/ writes[w].stage = "copying" /\ writes[w].to = l
           \/ writes'[w].todo = writes[w].todo
  BY <1>1 DEF Write, InFlight
<1>4. /\ writes' \in Seq(Write)
      /\ Len(writes') = Len(writes)
      /\ DOMAIN writes' = DOMAIN writes
  <2>1. writes' = [w \in DOMAIN writes |-> writes'[w]]
    BY <1>1
  <2> QED
    BY <1>3, <2>1, MappedSeq
<1>5. NodesType'
  BY <1>2, <1>4, NodesKept
<1>6. MembershipTypeOK'
  BY MembershipTyped DEF NodeEnters
<1>7. Covered' /\ LeaderHas' /\ Copiers'
  <2>1. \A w \in DOMAIN writes' : Taken(w)' => Taken(w)
    BY <1>3, <1>4 DEF Taken
  <2>2. \A n \in Node : \A w : /\ Runs(n, w) => Runs(n, w)'
                               /\ Due(n, w) => Due(n, w)'
    BY <1>2 DEF Runs, Due
  <2>3. \A w \in DOMAIN writes' :
          \/ writes'[w].to \in leads'
          \/ /\ writes[w].to \notin leads
             /\ writes[w].todo \cap alive \subseteq apart =>
                  writes'[w].todo \cap alive' \subseteq apart'
    BY <1>2, <1>3, <1>4
  <2> QED
    BY <1>2, <1>3, <1>4, <2>1, <2>2, <2>3, Carried
<1>8. \A w \in DOMAIN writes' : InShape(w)'
  BY <1>2, <1>3, <1>4 DEF InShape, Forwarded
<1> QED
  BY <1>2, <1>4, <1>5, <1>6, <1>7, <1>8, Together

LEMMA NodeLeavesKeeps ==
  ASSUME IInv, NEW l \in Node, NEW d \in Node, NodeLeaves(l, d)
  PROVE  IInv'
<1> USE Facts
<1>1. /\ writes' = [w \in DOMAIN writes |->
                      IF w \in InFlight(l)
                      THEN [writes[w] EXCEPT !.todo = @ \ {d}] ELSE writes[w]]
      /\ apart' = IF \E w \in InFlight(l) : d \in writes[w].todo
                  THEN apart \cup ({d} \cap alive) ELSE apart
  BY DEF NodeLeaves
<1>2. /\ UNCHANGED <<alive, leads, synced, serving, pend, ran, db, file, late,
                    faults>>
      /\ apart \subseteq apart' /\ apart' \subseteq alive'
  BY <1>1 DEF NodeLeaves, Leaves, nodes
<1>3. \A w \in DOMAIN writes :
        /\ writes'[w] \in Write
        /\ writes'[w].conn = writes[w].conn
        /\ writes'[w].to = writes[w].to
        /\ writes'[w].stage = writes[w].stage
        /\ writes'[w].told = writes[w].told
        /\ writes'[w].todo \subseteq writes[w].todo
        /\ writes[w].todo \ writes'[w].todo \subseteq {d}
        /\ writes'[w].todo # writes[w].todo => w \in InFlight(l)
  BY <1>1 DEF Write
<1>4. /\ writes' \in Seq(Write)
      /\ Len(writes') = Len(writes)
      /\ DOMAIN writes' = DOMAIN writes
  <2>1. writes' = [w \in DOMAIN writes |-> writes'[w]]
    BY <1>1
  <2> QED
    BY <1>3, <2>1, MappedSeq
<1>5. NodesType'
  BY <1>2, <1>4, NodesKept
<1>6. MembershipTypeOK'
  BY MembershipTyped DEF NodeLeaves
<1>7. Covered' /\ LeaderHas' /\ Copiers'
  <2>1. \A w \in DOMAIN writes' : Taken(w)' => Taken(w)
    BY <1>3, <1>4 DEF Taken
  <2>2. \A n \in Node : \A w : /\ Runs(n, w) => Runs(n, w)'
                               /\ Due(n, w) => Due(n, w)'
    BY <1>2 DEF Runs, Due
  <2>3. \A w \in DOMAIN writes' : \A n \in synced' \ apart' :
          n \in writes[w].todo => n \in writes'[w].todo
    <3> SUFFICES ASSUME NEW w \in DOMAIN writes, NEW n \in synced \ apart',
                        n \in writes[w].todo, n \notin writes'[w].todo
                 PROVE  FALSE
      BY <1>2, <1>4
    <3>1. n = d /\ w \in InFlight(l)
      BY <1>3
    <3>2. n \in apart'
      BY <1>1, <3>1
    <3> QED
      BY <3>2
  <2>4. \A w \in DOMAIN writes' :
          \/ writes'[w].to \in leads'
          \/ /\ writes[w].to \notin leads
             /\ writes[w].todo \cap alive \subseteq apart =>
                  writes'[w].todo \cap alive' \subseteq apart'
    BY <1>2, <1>3, <1>4
  <2> QED
    BY <1>2, <1>3, <1>4, <2>1, <2>2, <2>3, <2>4, Carried
<1>8. \A w \in DOMAIN writes' : InShape(w)'
  <2> SUFFICES ASSUME NEW w \in DOMAIN writes
               PROVE  InShape(w)'
    BY <1>4
  <2>1. writes[w].todo = {} => writes'[w].todo = {}
    BY <1>3
  <2> QED
    BY <1>2, <1>3, <2>1 DEF InShape, Forwarded
<1> QED
  BY <1>2, <1>4, <1>5, <1>6, <1>7, <1>8, Together

LEMMA CrashKeeps ==
  ASSUME IInv, NEW n \in Node, Crash(n)
  PROVE  IInv'
<1> USE Facts
<1>1. /\ Ends(n) /\ faults' \in Nat
  BY ReplicationAssumption DEF Crash
<1>2. /\ n \in alive
      /\ alive' = alive \ {n}
      /\ leads' = leads \ {n}
      /\ synced' = synced \ {n}
      /\ serving' = serving \ {n}
      /\ apart \cap alive' \subseteq apart' /\ apart' \subseteq alive'
      /\ \A w \in InFlight(n) : writes[w].todo \cap alive' \subseteq apart'
      /\ late' = {x \in late : x[2] # n}
  BY <1>1 DEF Ends, Fails
<1>3. /\ pend' = [pend EXCEPT ![n] = <<>>]
      /\ ran' = [ran EXCEPT ![n] = <<>>]
      /\ db' = [db EXCEPT ![n] = NewDatabase]
      /\ file' = file
  BY <1>1 DEF Ends
<1>4. \A w \in DOMAIN writes :
        /\ writes'[w] \in Write
        /\ writes'[w].conn = writes[w].conn
        /\ writes'[w].to = writes[w].to
        /\ writes'[w].stage = IF writes[w].to = n
                                 /\ writes[w].stage \in {"called", "copying"}
                              THEN "lost" ELSE writes[w].stage
        /\ writes'[w].told \in {writes[w].told, "UNKNOWN"}
        /\ writes'[w].todo = IF writes[w].to = n THEN {} ELSE writes[w].todo
  BY <1>1 DEF Ends, Write
<1>5. /\ writes' \in Seq(Write)
      /\ Len(writes') = Len(writes)
      /\ DOMAIN writes' = DOMAIN writes
  <2>1. writes' = [w \in DOMAIN writes |-> writes'[w]]
    BY <1>1 DEF Ends
  <2> QED
    BY <1>4, <2>1, MappedSeq
<1>6. NodesType'
  <2>1. <<>> \in Seq(1 .. Len(writes)) /\ NewDatabase \in Database
    BY NewDatabaseType
  <2> QED
    BY <1>3, <1>5, <2>1 DEF NodesType
<1>7. MembershipTypeOK'
  BY <1>1, MembershipTyped DEF Ends
<1>8. Covered' /\ LeaderHas' /\ Copiers'
  <2>1. \A w \in DOMAIN writes' : Taken(w)' =>
          /\ Taken(w)
          /\ writes'[w].stage = writes[w].stage
          /\ writes'[w].todo = writes[w].todo
    BY <1>4, <1>5 DEF Taken, InShape
  <2>2. \A m \in Node \ {n} : \A w : /\ Runs(m, w) => Runs(m, w)'
                                     /\ Due(m, w) => Due(m, w)'
    BY <1>3 DEF Runs, Due, NodesType
  <2>3. \A w \in DOMAIN writes' : writes'[w].stage = "copying" =>
          /\ writes[w].stage = "copying"
          /\ \/ writes'[w].to \in leads'
             \/ /\ writes[w].to \notin leads
                /\ writes[w].todo \cap alive \subseteq apart =>
                     writes'[w].todo \cap alive' \subseteq apart'
    BY <1>2, <1>4, <1>5
  <2>4. /\ synced' \ apart' \subseteq (synced \ apart) \ {n}
        /\ leads' \ apart' \subseteq (leads \ apart) \ {n}
    BY <1>2
  <2> QED
    BY <1>5, <2>1, <2>2, <2>3, <2>4, Carried
<1>9. \A w \in DOMAIN writes' : InShape(w)'
  <2> SUFFICES ASSUME NEW w \in DOMAIN writes
               PROVE  InShape(w)'
    BY <1>5
  <2>1. InShape(w)
    OBVIOUS
  <2> QED
    BY <1>2, <1>4, <2>1 DEF InShape, Forwarded
<1>10. /\ late' \subseteq (1 .. Len(writes')) \X alive'
       /\ \A m \in serving' : pend'[m] = <<>>
       /\ leads' \subseteq serving' /\ serving' \subseteq synced'
       /\ synced' \subseteq alive'
       /\ \A a, b \in leads' : a = b
  BY <1>2, <1>3, <1>5 DEF NodesType
<1> QED
  BY <1>1, <1>2, <1>5, <1>6, <1>7, <1>8, <1>9, <1>10, Together

-----------------------------------------------------------------------------
LEMMA InitHolds == Init => IInv
<1> SUFFICES ASSUME Init
             PROVE  IInv
  OBVIOUS
<1> USE DEF Init
<1>1. MembershipTypeOK
  BY NodeAssumption, ReplicationAssumption
     DEF MembershipInit, MembershipTypeOK, Nobody
<1>2. NodesType
  BY NewDatabaseType DEF NodesType
<1>3. /\ leads = {Bootstrap} /\ leads \subseteq serving
      /\ DOMAIN writes = {}
  BY ReplicationAssumption DEF MembershipInit
<1>4. Shape /\ Covered /\ LeaderHas /\ Copiers
  BY <1>3, ReplicationAssumption DEF Shape, Covered, LeaderHas, Copiers
<1>5. writes \in Seq(Write) /\ late = {} /\ faults \in Nat
  OBVIOUS
<1> QED
  BY <1>1, <1>2, <1>3, <1>4, <1>5 DEF IInv, TypeOK, NodesType

LEMMA NextKeeps == IInv /\ [Next]_vars => IInv'
<1> SUFFICES ASSUME IInv, [Next]_vars
             PROVE  IInv'
  OBVIOUS
<1>1. ASSUME NEW c \in Conns, NEW r \in Requests[c],
             WriteOnLeader(c, r) \/ WriteHere(c, r) \/ Forward(c, r)
      PROVE  IInv'
  BY <1>1, WriteOnLeaderKeeps, WriteHereKeeps, ForwardKeeps
<1>2. ASSUME NEW w \in DOMAIN writes,
             \/ ForwardRequest(w) \/ ForwardFails(w)
             \/ ForwardTimesOut(w) \/ Replicated(w)
      PROVE  IInv'
  BY <1>2, ForwardRequestKeeps, ForwardFailsKeeps, ReplicatedKeeps
<1>3. ASSUME NEW w \in DOMAIN writes, NEW f \in Node,
             \/ ReplicateRequest(w, f) \/ CopyFails(w, f)
             \/ CopyTimesOut(w, f) \/ LateCopy(w, f)
      PROVE  IInv'
  BY <1>3, ReplicateRequestKeeps, CopyFailsKeeps, CopyTimesOutKeeps,
     LateCopyKeeps
<1>4. ASSUME NEW n \in Node, NEW m \in Node,
             \/ NodeEnters(n, m) \/ NodeLeaves(n, m)
             \/ NodeVotes(n, m) \/ LeaderChanges(n, m) \/ Start(n, m)
      PROVE  IInv'
  BY <1>4, NodeEntersKeeps, NodeLeavesKeeps, LeaderChangesKeeps, StartKeeps
<1>5. ASSUME NEW n \in Node, NEW to \in SUBSET Node, BecomesLeader(n, to)
      PROVE  IInv'
  BY <1>5, BecomesLeaderKeeps
<1>6. ASSUME NEW n \in Node,
             \/ NodeForgets(n)
             \/ SyncRequest(n) \/ SyncNext(n) \/ Serve(n) \/ Crash(n)
      PROVE  IInv'
  BY <1>6, LeaderChangesKeeps, SyncRequestKeeps, SyncNextKeeps, ServeKeeps,
     CrashKeeps
<1>7. ASSUME NEW n \in Node, NEW k \in Keys, Expire(n, k)
      PROVE  IInv'
  BY <1>7, ExpireKeeps
<1>8. CASE UNCHANGED vars
  <2>1. IInv <=> IInv'
    BY <1>8 DEF vars, membership, nodes, IInv, TypeOK, MembershipTypeOK,
       Shape, InShape, Forwarded, Covered, LeaderHas, Copiers, Runs, Due, Taken
  <2> QED
    BY <2>1
<1>9. CASE Next
  BY <1>9, <1>1, <1>2, <1>3, <1>4, <1>5, <1>6, <1>7 DEF Next
<1> QED
  BY <1>8, <1>9

LEMMA Inductive == Spec => []IInv
BY InitHolds, NextKeeps, PTL DEF Spec

(***************************************************************************)
(* Every variable of Replication keeps its type, for any nodes, clients    *)
(* and requests and whatever fails.                                        *)
(***************************************************************************)
THEOREM ReplicationTypeCorrect == Spec => []TypeOK
<1>1. IInv => TypeOK
  BY DEF IInv
<1> QED
  BY <1>1, Inductive, PTL

(***************************************************************************)
(* A forwarded write that was answered OK is on every node in step and     *)
(* stays there, for any number of nodes, clients, writes, failures,        *)
(* elections, joins and timeouts.                                          *)
(***************************************************************************)
THEOREM ForwardedSurvives == Spec => []ForwardedIsEverywhere
BY Inductive, Sufficient, PTL

=============================================================================
