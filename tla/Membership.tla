----------------------------- MODULE Membership -----------------------------
(***************************************************************************)
(* What the rest of a node sees of the cluster: whether it leads           *)
(* (config.IsLeader with LeaderID), where it sends its writes              *)
(* (LeaderAddress) and, on a leader, the nodes it replicates to (Nodes).   *)
(* This is the part of internal/cluster/server.go that replication reads.  *)
(*                                                                         *)
(* Election implements this specification while no call is lost and at     *)
(* most one node fails (ElectionProofs), and Replication is built on it,   *)
(* so that the writes of a cluster can be followed through a failover      *)
(* without the votes that bring it about.                                  *)
(***************************************************************************)
EXTENDS Integers, FiniteSets

CONSTANTS
  Node,       \* the node ids, positive; the address of a node is its id
  Bootstrap   \* the node started with -bootstrap; the others -join it

ASSUME NodeAssumption ==
  /\ Node \subseteq Nat \ {0}
  /\ Bootstrap \in Node

Nobody == 0

VARIABLES
  alive,   \* the processes that run
  leads,   \* those that take themselves for the leader
  addr,    \* LeaderAddress, Nobody where no process runs
  list,    \* Nodes of a node that leads, {} for the others
  backed   \* while nobody leads, those that have the vote of another node

membership == <<alive, leads, addr, list, backed>>

MembershipTypeOK ==
  /\ alive \subseteq Node
  /\ leads \subseteq alive
  /\ addr \in [Node -> Node \cup {Nobody}]
  /\ list \in [Node -> SUBSET Node]
  /\ \A n \in Node \ leads : list[n] = {}
  /\ \A n \in alive \ leads : addr[n] # Nobody
  /\ backed \subseteq alive

MembershipInit ==
  /\ alive \in SUBSET Node
  /\ Bootstrap \in alive
  /\ leads = {Bootstrap}
  /\ addr = [n \in Node |-> IF n \in alive \ {Bootstrap} THEN Bootstrap
                                                       ELSE Nobody]
  /\ list \in [Node -> SUBSET (Node \ {Bootstrap})]
  /\ \A n \in Node \ {Bootstrap} : list[n] = {}
  /\ backed = {}

\* A heartbeat of d reaches the leader l.  The bootstrap node sends none.
Enters(l, d) ==
  /\ l \in leads
  /\ d # Bootstrap
  /\ list' = [list EXCEPT ![l] = @ \cup {d}]
  /\ UNCHANGED <<alive, leads, addr, backed>>

(***************************************************************************)
(* The leader has not heard d for 15 seconds.  A follower that runs and    *)
(* knows its leader is heard; the leader itself, which only confirmed its  *)
(* own election by a heartbeat, is not.                                    *)
(***************************************************************************)
Leaves(l, d) ==
  /\ l \in leads
  /\ d \notin alive \/ d = l \/ addr[d] # l
  /\ list' = [list EXCEPT ![l] = @ \ {d}]
  /\ UNCHANGED <<alive, leads, addr, backed>>

\* n, whose leader is down, gets the vote of t.
Votes(t, n) ==
  /\ leads = {}
  /\ n \in alive
  /\ addr[n] \notin alive
  /\ t \in alive \ {n}
  /\ backed' = backed \cup {n}
  /\ UNCHANGED <<alive, leads, addr, list>>

\* The election of n starts again.
Forgets(n) ==
  /\ backed' = backed \ {n}
  /\ UNCHANGED <<alive, leads, addr, list>>

\* An election on n, whose leader is down, ends with another node elected.
Follows(n, l) ==
  /\ n \in alive \ leads
  /\ addr[n] \notin alive
  /\ l # n
  /\ addr' = [addr EXCEPT ![n] = l]
  /\ backed' = backed \ {n}
  /\ UNCHANGED <<alive, leads, list>>

(***************************************************************************)
(* It ends with n elected, which takes votes of others: n does not ask     *)
(* itself.  Those it asked are in its list, and so is n, by the heartbeat  *)
(* it sent itself to confirm that.                                         *)
(***************************************************************************)
Leads(n, nodes) ==
  /\ n \in alive
  /\ leads = {}
  /\ addr[n] \notin alive
  /\ n \in backed
  /\ n \in nodes /\ nodes # {n}
  /\ Bootstrap \notin nodes
  /\ leads' = {n}
  /\ addr' = [addr EXCEPT ![n] = n]
  /\ list' = [list EXCEPT ![n] = nodes]
  /\ backed' = {}
  /\ UNCHANGED alive

Joins(n, l) ==
  /\ n \in Node \ alive
  /\ alive' = alive \cup {n}
  /\ addr' = [addr EXCEPT ![n] = l]
  /\ UNCHANGED <<leads, list, backed>>

\* Elections may be under way when a leader fails: they began without it.
Fails(n) ==
  /\ n \in alive
  /\ alive' = alive \ {n}
  /\ leads' = leads \ {n}
  /\ addr' = [addr EXCEPT ![n] = Nobody]
  /\ list' = [list EXCEPT ![n] = {}]
  /\ \E B \in SUBSET {m \in alive : n \in leads /\ addr[m] \notin alive} :
       backed' = (backed \cup B) \ {n}

MembershipNext ==
  \E n, m \in Node :
    \/ Enters(n, m)
    \/ Leaves(n, m)
    \/ Votes(n, m)
    \/ Forgets(n)
    \/ Follows(n, m)
    \/ \E nodes \in SUBSET Node : Leads(n, nodes)
    \/ Joins(n, m)
    \/ Fails(n)

MembershipSpec == MembershipInit /\ [][MembershipNext]_membership
=============================================================================
