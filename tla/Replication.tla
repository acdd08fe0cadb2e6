---------------------------- MODULE Replication -----------------------------
(***************************************************************************)
(* The writes of a cluster: internal/cluster/replication, and the parts of *)
(* internal/network/server.go that forward, replicate and synchronize.     *)
(*                                                                         *)
(* A follower forwards a write to the address it has for the leader.  The  *)
(* leader logs and runs it, and calls the nodes of its list one by one to  *)
(* do the same.  A node that starts fetches the leader's log and runs it.  *)
(* The elections are those of Membership, and HandleCommand is one step    *)
(* here: Storage has the order of its two effects.                         *)
(***************************************************************************)
EXTENDS Conversions, Membership

CONSTANTS
  Conns,      \* client connections
  Origin,     \* Origin[c]: the node that c is connected to
  Requests,   \* Requests[c]: the requests the client of c sends
  Started,    \* the nodes that serve at the beginning
  MaxWrites,  \* bound: writes sent
  MaxFaults   \* bound: nodes that fail and calls that run into a deadline

(***************************************************************************)
(* Storage has the requests that end the process.  A PUSH of no value or   *)
(* of the empty one is run differently by the leader, a follower and a     *)
(* node that syncs (see the README), and is left out.                      *)
(***************************************************************************)
ASSUME ReplicationAssumption ==
  /\ Origin \in [Conns -> Node]
  /\ Requests \in [Conns -> SUBSET Request]
  /\ \A c \in Conns : \A r \in Requests[c] :
       ToUpper(r.cmd) \in LoggedCommands =>
         /\ r.key \in Keys
         /\ r.exp # Wide
         /\ r.value # Empty
         /\ ToUpper(r.cmd) = "PUSH" => r.value # Absent
  /\ Bootstrap \in Started
  /\ Started \subseteq Node
  /\ MaxWrites \in Nat
  /\ MaxFaults \in Nat

VARIABLES
  synced,   \* the nodes that have the leader's log, or need none
  serving,  \* those whose TCP server accepts clients
  pend,     \* what is left to run of the log SyncRequest fetched
  db,       \* the maps of each node
  file,     \* binlog.dat of each node: the writes logged, by their number
  ran,      \* history: the writes run since the node started
  writes,   \* the writes sent by clients, and how far each one is
  late,     \* <<w, f>>: copies of w past the deadline, still to run on f
  apart,    \* history: the nodes that missed a write, or may run one twice
  faults    \* nodes failed and deadlines met

nodes == <<synced, serving, pend, db, file, ran>>
vars  == <<membership, nodes, writes, late, apart, faults>>

Write ==
  [conn  : Conns,
   req   : Request,
   to    : Node,          \* the node that takes it
   stage : {"called",     \* forwarded, not yet run
            "copying",    \* in ReplicateToFollowers
            "over",       \* out of it
            "refused",    \* HandleCommand returned an error
            "local",      \* run, and not replicated
            "lost"},      \* the node that took it failed
   todo  : SUBSET Node,   \* what ReplicateToFollowers has still to call
   told  : {"none",       \* no answer yet
            "OK",
            "ERROR",
            "UNKNOWN"}]   \* an error or no answer, while it goes on

TypeOK ==
  /\ MembershipTypeOK
  /\ synced \subseteq alive
  /\ serving \subseteq synced
  /\ leads \subseteq serving
  /\ pend \in [Node -> Seq(1 .. Len(writes))]
  /\ db \in [Node -> Database]
  /\ file \in [Node -> Seq(1 .. Len(writes))]
  /\ ran \in [Node -> Seq(1 .. Len(writes))]
  /\ writes \in Seq(Write)
  /\ late \subseteq (1 .. Len(writes)) \X alive
  /\ apart \subseteq alive
  /\ faults \in Nat

Init ==
  /\ MembershipInit
  /\ alive = Started
  /\ list[Bootstrap] = Started \ {Bootstrap}
  /\ synced = Started
  /\ serving = Started
  /\ pend = [n \in Node |-> <<>>]
  /\ db = [n \in Node |-> NewDatabase]
  /\ file = [n \in Node |-> <<>>]
  /\ ran = [n \in Node |-> <<>>]
  /\ writes = <<>>
  /\ late = {}
  /\ apart = {}
  /\ faults = 0

-----------------------------------------------------------------------------
\* HandleCommand on n, of the write w in the form r.
HandleHere(n, w, r) ==
  /\ file' = [file EXCEPT ![n] = Append(@, w)]
  /\ ran' = [ran EXCEPT ![n] = Append(@, w)]
  /\ db' = [db EXCEPT ![n] = HandleCommand(@, r).db]
  /\ UNCHANGED <<synced, serving, pend>>

Accepted(n, r) == HandleCommand(db[n], r).reply.status = "OK"

\* isWriteCommand looks at the name as the client wrote it.
isWriteCommand(r) == r.cmd \in LoggedCommands

Forwarded(w) == writes[w].to # Origin[writes[w].conn]

\* The goroutine of c still waits for an answer, or replicates.
Busy(c) ==
  \E w \in DOMAIN writes :
    /\ writes[w].conn = c
    /\ \/ writes[w].told = "none"
       \/ ~Forwarded(w) /\ writes[w].stage = "copying"

\* The goroutine of c has read the write request r.
Received(c, r) ==
  /\ Origin[c] \in serving
  /\ ~Busy(c)
  /\ ToUpper(r.cmd) \in LoggedCommands
  /\ Len(writes) < MaxWrites

Send(c, r, to, stage, todo, told) ==
  writes' = Append(writes, [conn |-> c, req |-> r, to |-> to, stage |-> stage,
                            todo |-> todo, told |-> told])

InFlight(l) == {w \in DOMAIN writes : writes[w].to = l
                                      /\ writes[w].stage = "copying"}

(***************************************************************************)
(* The nodes that a write which starts out for the nodes of S misses, or   *)
(* meets while they sync.  One that has yet to ask for the log will find   *)
(* the write there.                                                        *)
(***************************************************************************)
OutOfStep(l, S) ==
  {n \in alive \ {l} : IF n \in S THEN n \notin serving ELSE n \in synced}

-----------------------------------------------------------------------------
(***************************************************************************)
(* HandleConnection on a node that leads: the client has its answer before *)
(* the followers have the write, and none of them makes it wait.           *)
(***************************************************************************)
WriteOnLeader(c, r) ==
  LET l == Origin[c] IN
  /\ Received(c, r)
  /\ l \in leads
  /\ isWriteCommand(r)
  /\ HandleHere(l, Len(writes) + 1, r)
  /\ IF Accepted(l, r)
     THEN /\ Send(c, r, l, "copying", list[l], "OK")
          /\ apart' = apart \cup OutOfStep(l, list[l])
     ELSE /\ Send(c, r, l, "refused", {}, "ERROR")
          /\ UNCHANGED apart
  /\ UNCHANGED <<membership, late, faults>>

\* A write in small letters is run where it arrives, and nowhere else.
WriteHere(c, r) ==
  LET n == Origin[c] IN
  /\ Received(c, r)
  /\ ~isWriteCommand(r)
  /\ HandleHere(n, Len(writes) + 1, r)
  /\ Send(c, r, n, "local", {}, IF Accepted(n, r) THEN "OK" ELSE "ERROR")
  /\ apart' = apart \cup {n}
  /\ UNCHANGED <<membership, late, faults>>

\* Mutant: every node forwards, the leader too.
ForwardAlways(c, r) ==
  /\ Received(c, r)
  /\ isWriteCommand(r)
  /\ Send(c, r, addr[Origin[c]], "called", {}, "none")
  /\ UNCHANGED <<membership, nodes, late, apart, faults>>

\* HandleConnection on a follower.
Forward(c, r) ==
  /\ Received(c, r)
  /\ Origin[c] \notin leads
  /\ isWriteCommand(r)
  /\ Send(c, r, addr[Origin[c]], "called", {}, "none")
  /\ UNCHANGED <<membership, nodes, late, apart, faults>>

\* Mutant: the leader answers before it replicates.
AnswersFirst(w) ==
  LET n == writes[w].to
      r == Converted(writes[w].req)
  IN
  /\ writes[w].stage = "called"
  /\ n \in alive
  /\ HandleHere(n, w, r)
  /\ Accepted(n, r)
  /\ \E S \in SUBSET Node :
       /\ n \in leads => S = list[n]
       /\ writes' = [writes EXCEPT ![w].stage = "copying", ![w].todo = S,
                                   ![w].told = "OK"]
       /\ apart' = IF n \in leads THEN apart \cup OutOfStep(n, S) ELSE alive
  /\ UNCHANGED <<membership, late, faults>>

(***************************************************************************)
(* The handler ForwardRequest does not look whether the node leads.  One   *)
(* that does not replicates to the nodes of the list it happens to have:   *)
(* no two nodes need agree any more.                                       *)
(***************************************************************************)
ForwardRequest(w) ==
  LET n == writes[w].to
      r == Converted(writes[w].req)
  IN
  /\ writes[w].stage = "called"
  /\ n \in alive
  /\ HandleHere(n, w, r)
  /\ IF Accepted(n, r)
     THEN \E S \in SUBSET Node :
            /\ n \in leads => S = list[n]
            /\ writes' = [writes EXCEPT ![w].stage = "copying", ![w].todo = S]
            /\ apart' = IF n \in leads THEN apart \cup OutOfStep(n, S)
                                       ELSE alive
     ELSE /\ writes' = [writes EXCEPT
                          ![w].stage = "refused",
                          ![w].told = IF @ = "none" THEN "ERROR" ELSE @]
          /\ UNCHANGED apart
  /\ UNCHANGED <<membership, late, faults>>

\* Mutant: only a call in progress ends when its node does.
ForwardHangs(w) ==
  /\ writes[w].stage = "lost" /\ writes[w].told = "none"
  /\ writes' = [writes EXCEPT ![w].told = "ERROR"]
  /\ UNCHANGED <<membership, nodes, late, apart, faults>>

\* Nothing answers any more at the address: the client returns an error.
ForwardFails(w) ==
  /\ \/ writes[w].stage = "lost" /\ writes[w].told = "none"
     \/ writes[w].stage = "called" /\ writes[w].to \notin alive
  /\ writes' = [writes EXCEPT ![w].stage = "lost",
                              ![w].told = IF @ = "none" THEN "ERROR" ELSE @]
  /\ UNCHANGED <<membership, nodes, late, apart, faults>>

\* It did not answer within 5 seconds, and runs the write all the same.
ForwardTimesOut(w) ==
  /\ writes[w].told = "none"
  /\ writes[w].stage \in {"called", "copying"}
  /\ writes[w].to \in alive
  /\ faults < MaxFaults
  /\ writes' = [writes EXCEPT ![w].told = "UNKNOWN"]
  /\ faults' = faults + 1
  /\ UNCHANGED <<membership, nodes, late, apart>>

-----------------------------------------------------------------------------
(***************************************************************************)
(* ReplicateToFollowers on the node that took w has come to f, and the     *)
(* handler ReplicateRequest on f runs it.  A leader just elected is in its *)
(* own list, and calls itself.                                             *)
(***************************************************************************)
ReplicateRequest(w, f) ==
  /\ writes[w].stage = "copying"
  /\ f \in writes[w].todo \cap alive
  /\ HandleHere(f, w, Converted(writes[w].req))
  /\ writes' = [writes EXCEPT ![w].todo = @ \ {f}]
  /\ apart' = IF f = writes[w].to \/ f \notin serving
              THEN apart \cup {f} ELSE apart
  /\ UNCHANGED <<membership, late, faults>>

\* An error is logged, and nothing calls f again.
CopyFails(w, f) ==
  /\ writes[w].stage = "copying"
  /\ f \in writes[w].todo \ alive
  /\ writes' = [writes EXCEPT ![w].todo = @ \ {f}]
  /\ UNCHANGED <<membership, nodes, late, apart, faults>>

\* Nor when f is slow, and runs the command after the 5 seconds.
CopyTimesOut(w, f) ==
  /\ writes[w].stage = "copying"
  /\ f \in writes[w].todo \cap alive
  /\ faults < MaxFaults
  /\ faults' = faults + 1
  /\ writes' = [writes EXCEPT ![w].todo = @ \ {f}]
  /\ late' = late \cup {<<w, f>>}
  /\ apart' = apart \cup {f}
  /\ UNCHANGED <<membership, nodes>>

LateCopy(w, f) ==
  /\ <<w, f>> \in late
  /\ HandleHere(f, w, Converted(writes[w].req))
  /\ late' = late \ {<<w, f>>}
  /\ UNCHANGED <<membership, writes, apart, faults>>

\* ReplicateToFollowers is through, and ForwardRequest returns.
Replicated(w) ==
  /\ writes[w].stage = "copying"
  /\ writes[w].todo = {}
  /\ writes' = [writes EXCEPT ![w].stage = "over",
                              ![w].told = IF @ = "none" THEN "OK" ELSE @]
  /\ UNCHANGED <<membership, nodes, late, apart, faults>>

-----------------------------------------------------------------------------
(***************************************************************************)
(* The list changes under ReplicateToFollowers, which ranges over the map  *)
(* of the cluster server itself: a node that enters may be called for the  *)
(* writes in flight, one that leaves is not.  Late heartbeats, and those   *)
(* of a node that is about to follow l, are left to Election.              *)
(***************************************************************************)
NodeEnters(l, d) ==
  /\ d \in alive \ {l}
  /\ addr[d] = l
  /\ Enters(l, d)
  /\ \E W \in SUBSET InFlight(l) :
       /\ W # {} => d \notin list[l]
       /\ writes' = [w \in DOMAIN writes |->
                       IF w \in W THEN [writes[w] EXCEPT !.todo = @ \cup {d}]
                                  ELSE writes[w]]
       /\ apart' = IF W # {} THEN apart \cup ({d} \cap alive) ELSE apart
  /\ UNCHANGED <<nodes, late, faults>>

NodeLeaves(l, d) ==
  /\ Leaves(l, d)
  /\ writes' = [w \in DOMAIN writes |->
                  IF w \in InFlight(l)
                  THEN [writes[w] EXCEPT !.todo = @ \ {d}] ELSE writes[w]]
  /\ apart' = IF \E w \in InFlight(l) : d \in writes[w].todo
              THEN apart \cup ({d} \cap alive) ELSE apart
  /\ UNCHANGED <<nodes, late, faults>>

(***************************************************************************)
(* An election takes longer than a sync, whose deadline is 10 seconds: the *)
(* nodes it concerns serve.  It touches nothing of replication before it   *)
(* ends.                                                                   *)
(***************************************************************************)
NodeVotes(t, n) ==
  /\ n \in serving
  /\ Votes(t, n)
  /\ UNCHANGED <<nodes, writes, late, apart, faults>>

NodeForgets(n) ==
  /\ Forgets(n)
  /\ UNCHANGED <<nodes, writes, late, apart, faults>>

LeaderChanges(n, l) ==
  /\ n \in serving
  /\ Follows(n, l)
  /\ UNCHANGED <<nodes, writes, late, apart, faults>>

BecomesLeader(n, to) ==
  /\ n \in serving
  /\ Leads(n, to)
  /\ UNCHANGED <<nodes, writes, late, apart, faults>>

-----------------------------------------------------------------------------
\* main on a node that joins.  The log it may have is not replayed.
Start(n, l) ==
  /\ l \in leads
  /\ Joins(n, l)
  /\ apart' = IF \E w \in DOMAIN writes : n \in writes[w].todo
              THEN apart \cup {n} ELSE apart
  /\ UNCHANGED <<nodes, writes, late, faults>>

(***************************************************************************)
(* NewServer calls SyncRequest.  The answer is the file of the node called *)
(* with what an earlier run of that node left in it.                       *)
(***************************************************************************)
SyncRequest(n) ==
  LET l == addr[n] IN
  /\ n \in alive \ synced
  /\ l \in alive
  /\ pend' = [pend EXCEPT ![n] = file[l]]
  /\ synced' = synced \cup {n}
  /\ apart' = IF l \in leads \ apart /\ file[l] = ran[l]
              THEN apart ELSE apart \cup {n}
  /\ UNCHANGED <<membership, serving, db, file, ran, writes, late, faults>>

\* One turn of its loop.  The commands are logged here once more.
SyncNext(n) ==
  LET w == Head(pend[n])
      r == Synced(RecordOf(writes[w].req))
  IN
  /\ n \in synced \ serving
  /\ pend[n] # <<>>
  /\ file' = [file EXCEPT ![n] = Append(@, w)]
  /\ ran' = [ran EXCEPT ![n] = Append(@, w)]
  /\ db' = [db EXCEPT ![n] = HandleCommand(@, r).db]
  /\ pend' = [pend EXCEPT ![n] = Tail(@)]
  /\ UNCHANGED <<membership, synced, serving, writes, late, apart, faults>>

Serve(n) ==
  /\ n \in synced \ serving
  /\ pend[n] = <<>>
  /\ serving' = serving \cup {n}
  /\ UNCHANGED <<membership, synced, pend, db, file, ran, writes, late, apart,
                 faults>>

(***************************************************************************)
(* The process n ends.  The disk stays; the copies it had still to send    *)
(* are never sent, and the calls of its clients go on without them.        *)
(***************************************************************************)
Ends(n) ==
  /\ Fails(n)
  /\ synced' = synced \ {n}
  /\ serving' = serving \ {n}
  /\ pend' = [pend EXCEPT ![n] = <<>>]
  /\ db' = [db EXCEPT ![n] = NewDatabase]
  /\ ran' = [ran EXCEPT ![n] = <<>>]
  /\ writes' =
       [w \in DOMAIN writes |->
          LET x == writes[w] IN
          [x EXCEPT
             !.stage = IF x.to = n /\ @ \in {"called", "copying"}
                       THEN "lost" ELSE @,
             !.todo  = IF x.to = n THEN {} ELSE @,
             !.told  = IF Origin[x.conn] = n /\ @ = "none"
                       THEN "UNKNOWN" ELSE @]]
  /\ late' = {x \in late : x[2] # n}
  /\ apart' = (apart \cup UNION {writes[w].todo : w \in InFlight(n)})
                \cap (alive \ {n})
  /\ UNCHANGED file

\* It fails, or SyncRequest does, and NewServer and main with it.
Crash(n) ==
  /\ \/ /\ faults < MaxFaults
        /\ faults' = faults + 1
     \/ /\ n \in alive \ synced
        /\ addr[n] \notin alive
        /\ UNCHANGED faults
  /\ Ends(n)

\* The cleanup goroutine of n drops a key whose deadline has passed.
Expire(n, k) ==
  /\ n \in serving
  /\ db[n].left[k] # Absent
  /\ db' = [db EXCEPT ![n].store[k] = Absent, ![n].left[k] = Absent]
  /\ UNCHANGED <<membership, synced, serving, pend, file, ran, writes, late,
                 apart, faults>>

Next ==
  \/ \E c \in Conns : \E r \in Requests[c] :
       \/ WriteOnLeader(c, r)
       \/ WriteHere(c, r)
       \/ Forward(c, r)
  \/ \E w \in DOMAIN writes :
       \/ ForwardRequest(w)
       \/ ForwardFails(w)
       \/ ForwardTimesOut(w)
       \/ Replicated(w)
       \/ \E f \in Node :
            \/ ReplicateRequest(w, f)
            \/ CopyFails(w, f)
            \/ CopyTimesOut(w, f)
            \/ LateCopy(w, f)
  \/ \E n, m \in Node :
       \/ NodeEnters(n, m)
       \/ NodeLeaves(n, m)
       \/ NodeVotes(n, m)
       \/ LeaderChanges(n, m)
       \/ \E to \in SUBSET Node : BecomesLeader(n, to)
       \/ Start(n, m)
  \/ \E n \in Node :
       \/ NodeForgets(n)
       \/ SyncRequest(n)
       \/ SyncNext(n)
       \/ Serve(n)
       \/ Crash(n)
       \/ \E k \in Keys : Expire(n, k)

Spec == Init /\ [][Next]_vars

-----------------------------------------------------------------------------
(***************************************************************************)
(* A follower forwards a write and tells its client OK only when every     *)
(* node in step has the write, and from then on each of them has it, those *)
(* that join later too: the write outlives the leader, the node that       *)
(* forwarded it, and any node but the last one that is in step.            *)
(***************************************************************************)
ForwardedIsEverywhere ==
  \A w \in DOMAIN writes :
    Forwarded(w) /\ writes[w].told = "OK" =>
      \A n \in serving \ apart : \E i \in DOMAIN ran[n] : ran[n][i] = w

(***************************************************************************)
(* Replicas agree.  Take a key that one connection writes, never with      *)
(* "exp", none of whose writes was given up while it went on.  Whenever no *)
(* copy of such a write is in flight, a node in step holds of the key what *)
(* the leader holds, if that one is in step itself: whether it got the     *)
(* writes one by one or from the log, and whoever led when it did.         *)
(***************************************************************************)
On(k) == {w \in DOMAIN writes : writes[w].req.key = k}

Plain(k) ==
  \A v, w \in On(k) : /\ writes[v].conn = writes[w].conn
                      /\ writes[v].told # "UNKNOWN"
                      /\ writes[v].req.exp = Absent

ReplicasAgree ==
  \A l \in leads \ apart, n \in serving \ apart : \A k \in Keys :
    Plain(k) /\ (\A w \in On(k) : writes[w].stage # "copying") =>
      /\ db[n].store[k] = db[l].store[k]
      /\ db[n].lists[k] = db[l].lists[k]
      /\ db[n].left[k] = db[l].left[k]

(***************************************************************************)
(* Nobody waits for ever.  A client waits for its node, that one for the   *)
(* leader, and the leader for each node of its list; any of them may go    *)
(* down or take its time, and the list may change meanwhile.  A write      *)
(* whose goroutines are not through can take a step of its own: a handler  *)
(* runs or a call returns an error, and no other write, election, timeout  *)
(* or restart has to come first.                                           *)
(***************************************************************************)
Ended(w) ==
  writes[w].told # "none" /\ writes[w].stage \notin {"called", "copying"}

Advances(w) ==
  \/ ForwardRequest(w)
  \/ ForwardFails(w)
  \/ Replicated(w)
  \/ \E f \in Node : ReplicateRequest(w, f) \/ CopyFails(w, f)

NobodyWaits == \A w \in DOMAIN writes : Ended(w) \/ ENABLED Advances(w)

(***************************************************************************)
(* docs/Design.md: the leader executes a write and replicates it across    *)
(* the follower nodes.  What a leader takes it runs once.                  *)
(***************************************************************************)
LeaderRunsOnce ==
  \A w \in DOMAIN writes : LET l == writes[w].to IN
    l \in leads => Cardinality({i \in DOMAIN ran[l] : ran[l][i] = w}) <= 1
=============================================================================
