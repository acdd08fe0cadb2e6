------------------------------ MODULE Election ------------------------------
(***************************************************************************)
(* Membership and leader election: internal/cluster/election and the state *)
(* of internal/cluster/server.go.  Every node runs the handlers Heartbeat  *)
(* and RequestVote, both under its VoteLock; a follower runs MonitorLeader *)
(* (and in it StartLeaderElection), a leader MonitorFollowers.             *)
(*                                                                         *)
(* A node is known by its id, and its address is the same id.  Time is     *)
(* abstract: "stale" stands for 15 seconds without a heartbeat.  A call    *)
(* runs into its deadline when nothing can answer it before, or when the   *)
(* handlers that queue for the VoteLock in front of it may take that long. *)
(***************************************************************************)
EXTENDS Integers, FiniteSets, FiniteSetsExt

CONSTANTS
  Node,        \* the node ids, positive
  Bootstrap,   \* the node started with -bootstrap; the others -join it
  Lossy,       \* the pairs <<a, b>> whose calls from a to b may get lost
  Queueing,    \* those where b may be too busy with votes to answer in time
  MaxCrashes   \* bound: nodes that fail

ASSUME ElectionAssumption ==
  /\ Node \subseteq Nat \ {0}
  /\ IsFiniteSet(Node)
  /\ Bootstrap \in Node
  /\ Lossy \subseteq Node \X Node
  /\ Queueing \subseteq Node \X Node
  /\ MaxCrashes \in Nat

(***************************************************************************)
(* Bound: a request for a vote waits behind those of at most five other    *)
(* nodes, 3 seconds each, and is answered within its deadline of 20.       *)
(***************************************************************************)
ASSUME DeadlineAssumption == Cardinality(Node) <= 8

(***************************************************************************)
(* The hypothesis of the theorems about leaders: links lose nothing, at    *)
(* most one node fails, and there are too few nodes for a call to run into *)
(* its deadline in a queue, or none does.                                  *)
(***************************************************************************)
OneFailure ==
  /\ Lossy = {}
  /\ MaxCrashes <= 1
  /\ Cardinality(Node) <= 4 \/ Queueing = {}

Nobody == 0    \* no leader, no address, VoteLock free

VARIABLES
  alive,       \* the processes that run
  nodes,       \* ClusterServer.Nodes
  leaderID,    \* ClusterServer.LeaderID
  leaderAddr,  \* ClusterServer.LeaderAddress
  isLeader,    \* config.IsLeader
  heard,       \* ElectionServer.Heartbeats: who is in it
  lock,        \* VoteLock: whose RequestVote is being handled, or Nobody
  probe,       \* that handler: the leader it calls, and the response
  late,        \* heartbeats <<a, b>> past their deadline, still queued at b
  step,        \* where the goroutine of MonitorLeader is
  conn,        \* ElectionClient.Client: the node it heartbeats
  stale,       \* time.Since(c.LastHeartbeat) > 15*time.Second
  todo,        \* the nodes StartLeaderElection has yet to ask
  votes,       \* the votes it has
  resp         \* the node list in the last HeartbeatResponse

cluster == <<nodes, leaderID, leaderAddr, isLeader, heard>>
handler == <<lock, probe, late>>
client  == <<step, conn, stale, todo, votes, resp>>
vars    == <<alive, cluster, handler, client>>

NoProbe == [leader |-> Nobody, done |-> FALSE, list |-> {}]

TypeOK ==
  /\ alive \subseteq Node
  /\ nodes \in [Node -> SUBSET Node]
  /\ leaderID \in [Node -> Node \cup {Nobody}]
  /\ leaderAddr \in [Node -> Node \cup {Nobody}]
  /\ isLeader \in [Node -> BOOLEAN]
  /\ heard \in [Node -> SUBSET Node]
  /\ lock \in [Node -> Node \cup {Nobody}]
  /\ probe \in [Node -> [leader : Node \cup {Nobody}, done : BOOLEAN,
                         list : SUBSET Node]]
  /\ late \subseteq Node \X Node
  /\ step \in [Node -> {"beat", "adopt", "elect", "ask", "wait", "confirm",
                        "elected", "named", "addressed", "lead"}]
  /\ conn \in [Node -> Node]
  /\ stale \in [Node -> BOOLEAN]
  /\ todo \in [Node -> SUBSET Node]
  /\ votes \in [Node -> SUBSET Node]
  /\ resp \in [Node -> SUBSET Node]

(***************************************************************************)
(* main: the bootstrap node leads from the start; a joining node knows an  *)
(* address, not who leads, and LastHeartbeat is the zero time.             *)
(***************************************************************************)
Init ==
  /\ alive = Node
  /\ nodes = [n \in Node |-> {}]
  /\ leaderID = [n \in Node |-> IF n = Bootstrap THEN n ELSE Nobody]
  /\ leaderAddr = [n \in Node |-> IF n = Bootstrap THEN Nobody ELSE Bootstrap]
  /\ isLeader = [n \in Node |-> n = Bootstrap]
  /\ heard = [n \in Node |-> {}]
  /\ lock = [n \in Node |-> Nobody]
  /\ probe = [n \in Node |-> NoProbe]
  /\ late = {}
  /\ step = [n \in Node |-> IF n = Bootstrap THEN "lead" ELSE "beat"]
  /\ conn = [n \in Node |-> Bootstrap]
  /\ stale = [n \in Node |-> TRUE]
  /\ todo = [n \in Node |-> {}]
  /\ votes = [n \in Node |-> {}]
  /\ resp = [n \in Node |-> {}]

-----------------------------------------------------------------------------
(***************************************************************************)
(* The handler Heartbeat.  A goroutine that waits for the mutex gets it    *)
(* before one that comes later, so late calls go first.                    *)
(***************************************************************************)
Serves(b) == b \in alive /\ lock[b] = Nobody /\ \A a \in Node : <<a, b>> \notin late

\* b may be iterating over the map that the new node enters.
Heartbeat(a, b) ==
  /\ heard' = [heard EXCEPT ![b] = @ \cup {a}]
  /\ nodes' = [nodes EXCEPT ![b] = @ \cup {a}]
  /\ \/ UNCHANGED todo
     \/ /\ step[b] \in {"ask", "wait"}
        /\ a \notin nodes[b] \cup {b}
        /\ todo' = [todo EXCEPT ![b] = @ \cup {a}]

\* Mutant: the list of before the node was added to it.
ResponseBefore(a, b) == nodes[b]

Response(a, b) == nodes[b] \cup {a}

(***************************************************************************)
(* The call of a to b ends without a response: b is down, or the link lost *)
(* the request, or the response to a request that b handles all the same.  *)
(***************************************************************************)
Fails(a, b) ==
  \/ /\ b \notin alive \/ <<a, b>> \in Lossy
     /\ UNCHANGED late
  \/ /\ b \in alive
     /\ <<a, b>> \in Lossy
     /\ late' = late \cup {<<a, b>>}

(***************************************************************************)
(* The queue for b's VoteLock.  A handler RequestVote holds it for up to 3 *)
(* seconds, the deadline of its own call, so a heartbeat misses its        *)
(* deadline behind two of them.  Askers: whose RequestVote may be in front *)
(* of a call of x, or of one made for x.  A node asks for votes after 15   *)
(* seconds of silence, and does not hear from a leader for the next 5.     *)
(***************************************************************************)
Askers(b, x) == {c \in Node \ {b, x, Bootstrap} : stale[c]}

Crowded(b, x) == Cardinality(Askers(b, x)) > 1

InQueue(a, b, x) ==
  /\ <<a, b>> \in Queueing
  /\ b \in alive
  /\ lock[b] \in Askers(b, x)
  /\ ~probe[b].done
  /\ Crowded(b, x)

TimesOut(a, b, x) == InQueue(a, b, x) /\ late' = late \cup {<<a, b>>}

LateHeartbeat(a, b) ==
  /\ <<a, b>> \in late
  /\ b \in alive
  /\ lock[b] = Nobody
  /\ Heartbeat(a, b)
  /\ late' = late \ {<<a, b>>}
  /\ UNCHANGED <<alive, leaderID, leaderAddr, isLeader, lock, probe,
                 step, conn, stale, votes, resp>>

-----------------------------------------------------------------------------
(***************************************************************************)
(* MonitorLeader: a heartbeat to the leader every 5 seconds.  The response *)
(* replaces the node list, whatever was added to it in the meantime.       *)
(***************************************************************************)
SendHeartbeat(n) ==
  /\ n \in alive
  /\ step[n] = "beat"
  /\ Serves(conn[n])
  /\ Heartbeat(n, conn[n])
  /\ resp' = [resp EXCEPT ![n] = Response(n, conn[n])]
  /\ step' = [step EXCEPT ![n] = "adopt"]
  /\ UNCHANGED <<alive, leaderID, leaderAddr, isLeader, handler,
                 conn, stale, votes>>

SetNodes(n) ==
  /\ n \in alive
  /\ step[n] = "adopt"
  /\ nodes' = [nodes EXCEPT ![n] = resp[n]]
  /\ stale' = [stale EXCEPT ![n] = FALSE]
  /\ step' = [step EXCEPT ![n] = "beat"]
  /\ resp' = [resp EXCEPT ![n] = {}]
  /\ UNCHANGED <<alive, leaderID, leaderAddr, isLeader, heard, handler,
                 conn, todo, votes>>

HeartbeatFails(n) ==
  /\ n \in alive
  /\ step[n] = "beat"
  /\ Fails(n, conn[n]) \/ TimesOut(n, conn[n], n)
  /\ step' = [step EXCEPT ![n] = IF stale[n] THEN "elect" ELSE @]
  /\ UNCHANGED <<alive, cluster, lock, probe, conn, stale, todo, votes, resp>>

(***************************************************************************)
(* Fifteen seconds of heartbeats fail.  What a goroutine does without      *)
(* waiting for anybody takes less: the last responses of a leader that     *)
(* went down are adopted by then.                                          *)
(***************************************************************************)
Silence(n) ==
  LET l == conn[n] IN
  /\ n \in alive
  /\ step[n] = "beat"
  /\ ~stale[n]
  /\ l \notin alive \/ <<n, l>> \in Lossy \/ InQueue(n, l, n)
  /\ \A m \in alive : step[m] = "adopt" => conn[m] # l
  /\ stale' = [stale EXCEPT ![n] = TRUE]
  /\ UNCHANGED <<alive, cluster, handler, step, conn, todo, votes, resp>>

-----------------------------------------------------------------------------
\* StartLeaderElection asks every node of its list but itself.
StartLeaderElection(n) ==
  /\ n \in alive
  /\ step[n] = "elect"
  /\ isLeader' = [isLeader EXCEPT ![n] = FALSE]
  /\ todo' = [todo EXCEPT ![n] = nodes[n] \ {n}]
  /\ votes' = [votes EXCEPT ![n] = {}]
  /\ step' = [step EXCEPT ![n] = "ask"]
  /\ UNCHANGED <<alive, nodes, leaderID, leaderAddr, heard, handler,
                 conn, stale, resp>>

VoteFails(n, t) ==
  /\ n \in alive
  /\ step[n] = "ask"
  /\ t \in todo[n]
  /\ t \notin alive \/ <<n, t>> \in Lossy
  /\ todo' = [todo EXCEPT ![n] = @ \ {t}]
  /\ UNCHANGED <<alive, cluster, handler, step, conn, stale, votes, resp>>

\* Mutant: the smallest so far starts at zero.
SmallestOfAll(t) == Min({Nobody} \cup nodes[t])

Smallest(t) == Min({t} \cup nodes[t])

\* Mutant: t answers from its list, whether it has a leader or not.
HasLeaderNever(t) == FALSE

\* t has a leader to try before it answers.
HasLeader(t) == leaderID[t] # Nobody /\ leaderAddr[t] # Nobody

\* The handler RequestVote on t, for n, when t knows of no leader.
RequestVote(n, t) ==
  /\ n \in alive
  /\ step[n] = "ask"
  /\ t \in todo[n]
  /\ Serves(t)
  /\ ~HasLeader(t)
  /\ votes' = [votes EXCEPT ![n] = @ \cup {Smallest(t)}]
  /\ todo' = [todo EXCEPT ![n] = @ \ {t}]
  /\ UNCHANGED <<alive, cluster, handler, step, conn, stale, resp>>

\* It knows one, and calls it, with VoteLock held.
RequestVoteProbes(n, t) ==
  /\ n \in alive
  /\ step[n] = "ask"
  /\ t \in todo[n]
  /\ Serves(t)
  /\ HasLeader(t)
  /\ lock' = [lock EXCEPT ![t] = n]
  /\ probe' = [probe EXCEPT ![t] = [NoProbe EXCEPT !.leader = leaderAddr[t]]]
  /\ step' = [step EXCEPT ![n] = "wait"]
  /\ todo' = [todo EXCEPT ![n] = @ \ {t}]
  /\ UNCHANGED <<alive, cluster, late, conn, stale, votes, resp>>

ProbeSucceeds(t) ==
  /\ t \in alive
  /\ lock[t] # Nobody
  /\ ~probe[t].done
  /\ LET l == probe[t].leader IN
     /\ Serves(l)
     /\ Heartbeat(t, l)
     /\ probe' = [probe EXCEPT ![t] = [leader |-> l, done |-> TRUE,
                                        list |-> Response(t, l)]]
  /\ UNCHANGED <<alive, leaderID, leaderAddr, isLeader, lock, late,
                 step, conn, stale, votes, resp>>

\* RequestVote returns v to the node it was called by.
ReturnVote(t, v) ==
  LET n == lock[t] IN
  /\ lock' = [lock EXCEPT ![t] = Nobody]
  /\ probe' = [probe EXCEPT ![t] = NoProbe]
  /\ IF n \in alive /\ step[n] = "wait"
     THEN /\ votes' = [votes EXCEPT ![n] = @ \cup {v}]
          /\ step' = [step EXCEPT ![n] = "ask"]
     ELSE UNCHANGED <<votes, step>>
  /\ UNCHANGED <<alive, leaderID, leaderAddr, isLeader, heard,
                 conn, stale, todo, resp>>

ReturnLeader(t) ==
  /\ t \in alive
  /\ lock[t] # Nobody
  /\ probe[t].done
  /\ nodes' = [nodes EXCEPT ![t] = probe[t].list]
  /\ ReturnVote(t, leaderID[t])
  /\ UNCHANGED late

\* Mutant: the call of the leader has no deadline.
EntangledForEver(t) == FALSE

(***************************************************************************)
(* The call of RequestVote waits for a VoteLock that cannot be released    *)
(* before it: its own, when t takes itself for the leader, or that of a    *)
(* node whose handler is calling t.  It runs into its deadline of 3        *)
(* seconds.  Any other handler that holds a lock began earlier, and is     *)
(* through, or at its own deadline, before that, but for the next in the   *)
(* queue (TimesOut).                                                       *)
(***************************************************************************)
Entangled(t) ==
  LET l == probe[t].leader IN
  /\ lock[l] # Nobody
  /\ ~probe[l].done
  /\ l = t \/ probe[l].leader = t
  /\ late' = late \cup {<<t, l>>}

ReturnSmallest(t) ==
  /\ t \in alive
  /\ lock[t] # Nobody
  /\ ~probe[t].done
  /\ \/ Fails(t, probe[t].leader)
     \/ Entangled(t)
     \/ TimesOut(t, probe[t].leader, lock[t])
  /\ ReturnVote(t, Smallest(t))
  /\ UNCHANGED nodes

\* The node asked goes down before it answers.
VoteLost(n) ==
  /\ n \in alive
  /\ step[n] = "wait"
  /\ \A t \in alive : lock[t] # n
  /\ step' = [step EXCEPT ![n] = "ask"]
  /\ UNCHANGED <<alive, cluster, handler, conn, stale, todo, votes, resp>>

-----------------------------------------------------------------------------
Counted(n) == n \in alive /\ step[n] = "ask" /\ todo[n] = {}

Elected(n) == CHOOSE v \in votes[n] : TRUE

\* No votes, or votes for several nodes: sleep, and start again.
Retry(n) ==
  /\ Counted(n)
  /\ Cardinality(votes[n]) # 1
  /\ step' = [step EXCEPT ![n] = "elect"]
  /\ UNCHANGED <<alive, cluster, handler, conn, stale, todo, votes, resp>>

ConfirmLeader(n) ==
  /\ Counted(n)
  /\ Cardinality(votes[n]) = 1
  /\ Elected(n) \in nodes[n]
  /\ Serves(Elected(n))
  /\ Heartbeat(n, Elected(n))
  /\ resp' = [resp EXCEPT ![n] = Response(n, Elected(n))]
  /\ step' = [step EXCEPT ![n] = "confirm"]
  /\ UNCHANGED <<alive, leaderID, leaderAddr, isLeader, handler,
                 conn, stale, votes>>

\* The node elected does not answer, or is not in the list.
RemoveElected(n) ==
  /\ Counted(n)
  /\ Cardinality(votes[n]) = 1
  /\ IF Elected(n) \in nodes[n]
     THEN Fails(n, Elected(n)) \/ TimesOut(n, Elected(n), n)
     ELSE UNCHANGED late
  /\ nodes' = [nodes EXCEPT ![n] = @ \ {Elected(n)}]
  /\ step' = [step EXCEPT ![n] = "elect"]
  /\ UNCHANGED <<alive, leaderID, leaderAddr, isLeader, heard, lock, probe,
                 conn, stale, todo, votes, resp>>

(***************************************************************************)
(* SetNodes with the response.  The client that confirmed is not the one   *)
(* that monitors, so "stale" stays.                                        *)
(***************************************************************************)
ConfirmSucceeds(n) ==
  /\ n \in alive
  /\ step[n] = "confirm"
  /\ nodes' = [nodes EXCEPT ![n] = resp[n]]
  /\ step' = [step EXCEPT ![n] = "elected"]
  /\ resp' = [resp EXCEPT ![n] = {}]
  /\ UNCHANGED <<alive, leaderID, leaderAddr, isLeader, heard, handler,
                 conn, stale, todo, votes>>

\* The rest of StartLeaderElection, setter by setter.
SetLeaderID(n) ==
  /\ n \in alive
  /\ step[n] = "elected"
  /\ leaderID' = [leaderID EXCEPT ![n] = Elected(n)]
  /\ step' = [step EXCEPT ![n] = "named"]
  /\ UNCHANGED <<alive, nodes, leaderAddr, isLeader, heard, handler,
                 conn, stale, todo, votes, resp>>

\* A node elected that the list lacks by now has no address.
SetLeaderAddress(n) ==
  /\ n \in alive
  /\ step[n] = "named"
  /\ leaderAddr' = [leaderAddr EXCEPT ![n] = IF Elected(n) \in nodes[n]
                                             THEN Elected(n) ELSE Nobody]
  /\ step' = [step EXCEPT ![n] = "addressed"]
  /\ UNCHANGED <<alive, nodes, leaderID, isLeader, heard, handler,
                 conn, stale, todo, votes, resp>>

BecomeLeader(n) ==
  /\ n \in alive
  /\ step[n] = "addressed"
  /\ Elected(n) = n
  /\ isLeader' = [isLeader EXCEPT ![n] = TRUE]
  /\ step' = [step EXCEPT ![n] = "lead"]
  /\ votes' = [votes EXCEPT ![n] = {}]
  /\ UNCHANGED <<alive, nodes, leaderID, leaderAddr, heard, handler,
                 conn, stale, todo, resp>>

\* Mutant: the monitor keeps its connection to the leader that failed.
FollowUnconnected(n) ==
  /\ n \in alive
  /\ step[n] = "addressed"
  /\ Elected(n) # n
  /\ step' = [step EXCEPT ![n] = "beat"]
  /\ votes' = [votes EXCEPT ![n] = {}]
  /\ UNCHANGED <<alive, cluster, handler, conn, stale, todo, resp>>

\* Back in MonitorLeader, with a connection to the leader if it has one.
FollowLeader(n) ==
  /\ n \in alive
  /\ step[n] = "addressed"
  /\ Elected(n) # n
  /\ conn' = [conn EXCEPT ![n] = IF Elected(n) \in nodes[n] THEN Elected(n)
                                                            ELSE @]
  /\ step' = [step EXCEPT ![n] = "beat"]
  /\ votes' = [votes EXCEPT ![n] = {}]
  /\ UNCHANGED <<alive, cluster, handler, stale, todo, resp>>

-----------------------------------------------------------------------------
(***************************************************************************)
(* MonitorFollowers: drop d, whose last heartbeat is 15 seconds old.       *)
(* A node that has just confirmed l was heard by it.  l hears from itself  *)
(* when a handler RequestVote calls it as the leader: that is not 15       *)
(* seconds ago while the election it was asked in goes on, unless its node *)
(* had to queue for other votes.                                           *)
(***************************************************************************)
Deciding(n) == step[n] \in {"confirm", "elected", "named", "addressed"}

HasAsked(n, l) ==
  /\ Deciding(n) \/ step[n] \in {"ask", "wait"}
  /\ l \in nodes[n] \ todo[n]

Quiet(l, d) ==
  \/ d \notin alive
  \/ <<d, l>> \in Lossy
  \/ /\ d # l
     /\ conn[d] # l \/ step[d] \notin {"beat", "adopt"}
     /\ ~(Deciding(d) /\ l \in votes[d])
  \/ /\ d = l
     /\ \A n \in alive \ {l} :
          HasAsked(n, l) => <<n, l>> \in Queueing /\ Crowded(l, n)

\* Mutant: the heartbeat is forgotten, the node stays.
CleanupHeartbeats(l, d) ==
  /\ l \in alive
  /\ isLeader[l]
  /\ Serves(l)
  /\ d \in heard[l]
  /\ Quiet(l, d)
  /\ heard' = [heard EXCEPT ![l] = @ \ {d}]
  /\ UNCHANGED <<alive, nodes, leaderID, leaderAddr, isLeader, handler, client>>

\* Mutant: how long ago the heartbeat was is not looked at.
CleanupHeardNodes(l, d) ==
  /\ l \in alive
  /\ isLeader[l]
  /\ Serves(l)
  /\ d \in heard[l]
  /\ heard' = [heard EXCEPT ![l] = @ \ {d}]
  /\ nodes' = [nodes EXCEPT ![l] = @ \ {d}]
  /\ UNCHANGED <<alive, leaderID, leaderAddr, isLeader, handler, client>>

CleanupInactiveNodes(l, d) ==
  /\ l \in alive
  /\ isLeader[l]
  /\ Serves(l)
  /\ d \in heard[l]
  /\ Quiet(l, d)
  /\ heard' = [heard EXCEPT ![l] = @ \ {d}]
  /\ nodes' = [nodes EXCEPT ![l] = @ \ {d}]
  /\ UNCHANGED <<alive, leaderID, leaderAddr, isLeader, handler, client>>

\* A node fails and is not started again.
Crash(n) ==
  /\ n \in alive
  /\ Cardinality(Node \ alive) < MaxCrashes
  /\ alive' = alive \ {n}
  /\ lock' = [lock EXCEPT ![n] = Nobody]
  /\ probe' = [probe EXCEPT ![n] = NoProbe]
  /\ late' = {call \in late : call[2] # n}
  /\ UNCHANGED <<cluster, client>>

Next ==
  \/ \E n \in Node :
       \/ SendHeartbeat(n)
       \/ SetNodes(n)
       \/ HeartbeatFails(n)
       \/ Silence(n)
       \/ StartLeaderElection(n)
       \/ VoteLost(n)
       \/ Retry(n)
       \/ ConfirmLeader(n)
       \/ RemoveElected(n)
       \/ ConfirmSucceeds(n)
       \/ SetLeaderID(n)
       \/ SetLeaderAddress(n)
       \/ BecomeLeader(n)
       \/ FollowLeader(n)
       \/ ProbeSucceeds(n)
       \/ ReturnLeader(n)
       \/ ReturnSmallest(n)
       \/ Crash(n)
  \/ \E n, t \in Node :
       \/ VoteFails(n, t)
       \/ RequestVote(n, t)
       \/ RequestVoteProbes(n, t)
       \/ LateHeartbeat(n, t)
       \/ CleanupInactiveNodes(n, t)

Spec == Init /\ [][Next]_vars

(***************************************************************************)
(* Goroutines run, calls return or run into their deadlines, and the clock *)
(* goes on.  Go's mutex lets nobody starve: a call, or the cleanup, that   *)
(* finds a VoteLock free again and again gets it.  A pass of the cleanup   *)
(* drops all that are silent: nodes that come back do not keep it from     *)
(* those that do not.                                                      *)
(***************************************************************************)
Calls(n) ==
  \/ SendHeartbeat(n)
  \/ ConfirmLeader(n)
  \/ \E t \in Node : RequestVote(n, t) \/ RequestVoteProbes(n, t)

GoesOn(n) ==
  \/ SetNodes(n)
  \/ HeartbeatFails(n)
  \/ StartLeaderElection(n)
  \/ \E t \in Node : VoteFails(n, t)
  \/ VoteLost(n)
  \/ Retry(n)
  \/ RemoveElected(n)
  \/ ConfirmSucceeds(n)
  \/ SetLeaderID(n)
  \/ SetLeaderAddress(n)
  \/ BecomeLeader(n)
  \/ FollowLeader(n)

FairSpec ==
  /\ Spec
  /\ \A n \in Node : /\ WF_vars(GoesOn(n))
                      /\ SF_vars(Calls(n))
                      /\ WF_vars(ReturnLeader(n))
                      /\ WF_vars(ReturnSmallest(n))
  /\ SF_vars(\E t \in Node : ProbeSucceeds(t))
  /\ SF_vars(\E a, b \in Node : LateHeartbeat(a, b))
  /\ SF_vars(\E n \in Node : Silence(n))
  /\ SF_vars(\E l, d \in Node : d \in alive /\ CleanupInactiveNodes(l, d))
  /\ SF_vars(\E l, d \in Node : d \notin alive /\ CleanupInactiveNodes(l, d))

-----------------------------------------------------------------------------
(***************************************************************************)
(* One leader.  Of the nodes that run at most one takes writes, through    *)
(* joins, crashes and elections that several nodes run at once, each with  *)
(* the node list it happens to have.                                       *)
(***************************************************************************)
AtMostOneLeader ==
  \A a, b \in alive : isLeader[a] /\ isLeader[b] => a = b

(***************************************************************************)
(* Seen from outside, an election is one step.  A follower changes its     *)
(* leader, or becomes it, only when its leader is down; a node becomes     *)
(* leader only when there is none, with the vote of another node and with  *)
(* itself in the list it replicates to; and the leader drops no follower   *)
(* that runs.  The address a node forwards to is LeaderAddress.  Where a   *)
(* node that does not lead has none, or has its own because IsLeader is    *)
(* the next to be set, the view has that of the bootstrap node, which is   *)
(* down by then.  After a second failure this is no longer so: a follower  *)
(* whose connection is left with the dead (see FollowersFollow) runs an    *)
(* election against a leader that lives.                                   *)
(***************************************************************************)
Leading == {n \in alive : isLeader[n]}

Address(n) ==
  IF ~isLeader[n] /\ leaderAddr[n] \in {n, Nobody} THEN Bootstrap
                                                  ELSE leaderAddr[n]

\* n holds votes of others, and has not decided for another node.
Backed(n) == votes[n] # {} /\ (step[n] = "addressed" => Elected(n) = n)

View == INSTANCE Membership WITH
          leads  <- Leading,
          addr   <- [n \in Node |-> IF n \in alive THEN Address(n) ELSE Nobody],
          list   <- [n \in Node |-> IF n \in Leading THEN nodes[n] ELSE {}],
          backed <- IF Leading = {} THEN {n \in alive : Backed(n)} ELSE {}

ImplementsMembership ==
  /\ View!MembershipInit
  /\ [][Cardinality(Node \ alive) <= 1 => View!MembershipNext]_View!membership

(***************************************************************************)
(* Where a follower's heartbeats go is the node it takes for the leader.   *)
(* StartLeaderElection sets LeaderID and LeaderAddress and connects later, *)
(* or not at all when the list lost the leader in the meantime: that takes *)
(* a second failure, and leaves the connection with a node that is down.   *)
(***************************************************************************)
FollowersFollow ==
  \A n \in alive : step[n] = "beat" /\ leaderID[n] # Nobody =>
    \/ conn[n] = leaderID[n]
    \/ conn[n] \notin alive /\ Cardinality(Node \ alive) > 1

(***************************************************************************)
(* Failover.  Survivors that all know one another, none of which has begun *)
(* an election when the bootstrap leader goes down, come to have one of    *)
(* them lead, and the others follow it, unless all but one go down.        *)
(***************************************************************************)
KnowOneAnother == \A a, b \in alive : b \in nodes[a]

OneLeads ==
  \E l \in alive : /\ isLeader[l]
                   /\ \A n \in alive \ {l} : leaderID[n] = l /\ conn[n] = l

Failover ==
  /\ Bootstrap \notin alive
  /\ KnowOneAnother
  /\ \A n \in alive : step[n] = "beat" /\ conn[n] = Bootstrap
  ~> OneLeads \/ Cardinality(alive) < 2

(***************************************************************************)
(* The design's promise: if the leader fails, the next available follower  *)
(* becomes leader after an election.                                       *)
(***************************************************************************)
Succession ==
  Bootstrap \notin alive /\ KnowOneAnother ~>
    alive = {} \/ \E l \in alive : isLeader[l]

(***************************************************************************)
(* RequestVote keeps VoteLock while it calls the leader, which may be the  *)
(* node itself, or be waiting for this one.  No election waits for such a  *)
(* vote for ever: the deadlines of the calls untie what the locks tie.     *)
(***************************************************************************)
VotesReturn ==
  \A n \in Node : []<>(n \notin alive \/ step[n] # "wait")

(***************************************************************************)
(* A leader's node list, the nodes it replicates to, loses every node that *)
(* goes down after the leader has heard it, and for good: a heartbeat that *)
(* the node had under way may bring it back, but not to stay.              *)
(***************************************************************************)
DeadNodesLeave ==
  \A l, d \in Node :
    isLeader[l] /\ d \notin alive /\ d \in heard[l]
      ~> [](l \notin alive \/ d \notin nodes[l])
=============================================================================
