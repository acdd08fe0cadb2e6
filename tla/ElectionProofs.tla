--------------------------- MODULE ElectionProofs ---------------------------
(***************************************************************************)
(* Theorems about Election.  TypeCorrect holds with any losses and crashes;*)
(* those about leaders assume OneFailure.                                  *)
(***************************************************************************)
EXTENDS Election, FiniteSetTheorems, WellFoundedInduction, TLAPS

-----------------------------------------------------------------------------
\* A set of numbers has a smallest one.
LEMMA MinIsSmallest ==
  ASSUME NEW T \in SUBSET Nat, T # {}
  PROVE  Min(T) \in T /\ \A y \in T : Min(T) <= y
<1> DEFINE L == OpToRel(<, Nat)
<1>1. PICK x \in T : \A y \in T : ~ (<<y, x>> \in L)
  <2>1. IsWellFoundedOn(L, Nat)
    BY NatLessThanWellFounded
  <2> HIDE DEF L
  <2> QED
    BY <2>1, WFMin
<1> HIDE DEF L
<1>2. ASSUME NEW y \in T
      PROVE  x <= y
  <2>1. x \in Nat /\ y \in Nat /\ ~ (<<y, x>> \in L)
    BY <1>1
  <2>2. ~ (y < x)
    BY <2>1 DEF OpToRel, L
  <2> QED
    BY <2>1, <2>2, SMT
<1> QED
  BY <1>2 DEF Min

LEMMA SmallestVote ==
  ASSUME TypeOK, NEW t \in Node
  PROVE  /\ Smallest(t) \in Node
         /\ Smallest(t) <= t
         /\ Smallest(t) = t \/ Smallest(t) \in nodes[t]
<1>1. {t} \cup nodes[t] \in SUBSET Nat /\ nodes[t] \subseteq Node
  BY ElectionAssumption DEF TypeOK
<1> QED
  BY <1>1, MinIsSmallest DEF Smallest

-----------------------------------------------------------------------------
(***************************************************************************)
(* What keeps the types: a node confirms, and follows, the only one it has *)
(* votes for, a handler that calls a leader has one to return, and no node *)
(* asks itself.                                                            *)
(***************************************************************************)
OneElected ==
  \A n \in Node : Deciding(n) => \E e \in Node : votes[n] = {e}

ProbesHaveLeaders ==
  \A t \in Node : lock[t] # Nobody =>
    leaderID[t] \in Node /\ probe[t].leader \in Node

AsksOthers == \A n \in Node : n \notin todo[n] /\ lock[n] # n

Typed == TypeOK /\ OneElected /\ ProbesHaveLeaders /\ AsksOthers

LEMMA NobodyIsNoNode == Nobody \notin Node
  BY ElectionAssumption DEF Nobody

LEMMA InitTyped == Init => Typed
  BY ElectionAssumption, NobodyIsNoNode
     DEF Init, Typed, TypeOK, OneElected, ProbesHaveLeaders, AsksOthers,
         Deciding, NoProbe

LEMMA ElectedOne ==
  ASSUME NEW n, NEW e, votes[n] = {e}
  PROVE  Elected(n) = e
  BY DEF Elected

LEMMA HeartbeatTyped ==
  ASSUME TypeOK, NEW a \in Node, NEW b \in Node, Heartbeat(a, b)
  PROVE  /\ nodes' \in [Node -> SUBSET Node]
         /\ heard' \in [Node -> SUBSET Node]
         /\ todo' \in [Node -> SUBSET Node]
         /\ \A n \in Node : n \notin todo[n] => n \notin todo'[n]
  BY DEF TypeOK, Heartbeat

LEMMA FailsTyped ==
  ASSUME TypeOK, NEW a \in Node, NEW b \in Node, Fails(a, b)
  PROVE  late' \subseteq Node \X Node
  BY DEF TypeOK, Fails

LEMMA TimesOutTyped ==
  ASSUME TypeOK, NEW a \in Node, NEW b \in Node, NEW x, TimesOut(a, b, x)
  PROVE  late' \subseteq Node \X Node
  BY DEF TypeOK, TimesOut

LEMMA ReturnVoteTyped ==
  ASSUME Typed, NEW t \in Node, NEW v \in Node, ReturnVote(t, v),
         lock[t] # Nobody, late' \subseteq Node \X Node,
         nodes' \in [Node -> SUBSET Node]
  PROVE  Typed'
<1>1. lock[t] \in Node
  BY DEF Typed, TypeOK
<1>2. /\ votes' \in [Node -> SUBSET Node]
      /\ step' \in [Node -> {"beat", "adopt", "elect", "ask", "wait",
                             "confirm", "elected", "named", "addressed",
                             "lead"}]
      /\ OneElected'
  <2>1. CASE UNCHANGED <<votes, step>>
    BY <2>1 DEF Typed, TypeOK, OneElected, Deciding
  <2>2. CASE /\ step[lock[t]] = "wait"
             /\ votes' = [votes EXCEPT ![lock[t]] = @ \cup {v}]
             /\ step' = [step EXCEPT ![lock[t]] = "ask"]
    BY <1>1, <2>2 DEF Typed, TypeOK, OneElected, Deciding
  <2> QED
    BY <2>1, <2>2 DEF ReturnVote
<1>3. TypeOK'
  BY <1>2 DEF Typed, TypeOK, ReturnVote, NoProbe
<1>4. ProbesHaveLeaders'
  BY DEF Typed, TypeOK, ProbesHaveLeaders, ReturnVote
<1>5. AsksOthers'
  BY NobodyIsNoNode DEF Typed, TypeOK, AsksOthers, ReturnVote
<1> QED
  BY <1>2, <1>3, <1>4, <1>5 DEF Typed

LEMMA NextTyped == Typed /\ [Next]_vars => Typed'
<1> SUFFICES ASSUME Typed, [Next]_vars PROVE Typed'
  OBVIOUS
<1> USE DEF cluster, handler, client, Deciding, AsksOthers
<1>1. ASSUME NEW n \in Node, SendHeartbeat(n) PROVE Typed'
  <2>1. conn[n] \in Node
    BY DEF Typed, TypeOK
  <2> QED
    BY <1>1, <2>1, HeartbeatTyped
       DEF Typed, TypeOK, OneElected, ProbesHaveLeaders, SendHeartbeat,
           Response
<1>2. ASSUME NEW n \in Node, SetNodes(n) PROVE Typed'
  BY <1>2 DEF Typed, TypeOK, OneElected, ProbesHaveLeaders, SetNodes
<1>3. ASSUME NEW n \in Node, HeartbeatFails(n) PROVE Typed'
  <2>1. conn[n] \in Node
    BY DEF Typed, TypeOK
  <2>2. late' \subseteq Node \X Node
    BY <1>3, <2>1, FailsTyped, TimesOutTyped DEF HeartbeatFails, Typed
  <2> QED
    BY <1>3, <2>2
       DEF Typed, TypeOK, OneElected, ProbesHaveLeaders, HeartbeatFails
<1>4. ASSUME NEW n \in Node, Silence(n) PROVE Typed'
  BY <1>4 DEF Typed, TypeOK, OneElected, ProbesHaveLeaders, Silence
<1>5. ASSUME NEW n \in Node, StartLeaderElection(n) PROVE Typed'
  BY <1>5 DEF Typed, TypeOK, OneElected, ProbesHaveLeaders, StartLeaderElection
<1>6. ASSUME NEW n \in Node, VoteLost(n) PROVE Typed'
  BY <1>6 DEF Typed, TypeOK, OneElected, ProbesHaveLeaders, VoteLost
<1>7. ASSUME NEW n \in Node, Retry(n) PROVE Typed'
  BY <1>7 DEF Typed, TypeOK, OneElected, ProbesHaveLeaders, Retry
<1>8. ASSUME NEW n \in Node, ConfirmLeader(n) PROVE Typed'
  <2>1. PICK e \in Node : votes[n] = {e}
    <3>1. votes[n] \in SUBSET Node /\ Cardinality(votes[n]) = 1
      BY <1>8 DEF ConfirmLeader, Typed, TypeOK
    <3>2. IsFiniteSet(votes[n])
      BY <3>1, FS_Subset, ElectionAssumption
    <3> QED
      BY <3>1, <3>2, FS_Singleton
  <2>2. Elected(n) = e
    BY <2>1, ElectedOne
  <2>3. /\ Heartbeat(n, e)
        /\ resp' = [resp EXCEPT ![n] = Response(n, e)]
        /\ step' = [step EXCEPT ![n] = "confirm"]
        /\ UNCHANGED <<alive, leaderID, leaderAddr, isLeader, handler,
                       conn, stale, votes>>
    BY <1>8, <2>2 DEF ConfirmLeader
  <2>4. Response(n, e) \in SUBSET Node
    BY DEF Typed, TypeOK, Response
  <2>5. TypeOK'
    BY <2>3, <2>4, HeartbeatTyped DEF Typed, TypeOK
  <2>6. ASSUME NEW k \in Node
        PROVE  k \notin todo'[k] /\ lock'[k] # k
    <3>1. k \notin todo[k] /\ lock'[k] # k
      BY <2>3 DEF Typed
    <3>2. TypeOK /\ n \in Node /\ e \in Node
      BY <1>8 DEF Typed
    <3> QED
      BY <2>3, <3>1, <3>2, HeartbeatTyped
  <2>7. OneElected'
    BY <2>1, <2>3 DEF Typed, TypeOK, OneElected
  <2>8. ProbesHaveLeaders'
    BY <2>3 DEF Typed, ProbesHaveLeaders
  <2> QED
    BY <2>5, <2>6, <2>7, <2>8 DEF Typed
<1>9. ASSUME NEW n \in Node, RemoveElected(n) PROVE Typed'
  <2>1. late' \subseteq Node \X Node
    <3>1. Elected(n) \in nodes[n] => Elected(n) \in Node
      BY DEF Typed, TypeOK
    <3> QED
      BY <1>9, <3>1, FailsTyped, TimesOutTyped
         DEF RemoveElected, Typed, TypeOK
  <2> QED
    BY <1>9, <2>1
       DEF Typed, TypeOK, OneElected, ProbesHaveLeaders, RemoveElected
<1>10. ASSUME NEW n \in Node,
              ConfirmSucceeds(n) \/ SetLeaderID(n) \/ SetLeaderAddress(n)
       PROVE  Typed'
  <2>1. Deciding(n)
    BY <1>10 DEF ConfirmSucceeds, SetLeaderID, SetLeaderAddress
  <2>6. PICK e \in Node : votes[n] = {e}
    BY <2>1 DEF Typed, OneElected
  <2>2. Elected(n) = e
    BY <2>6, ElectedOne
  <2>3. CASE ConfirmSucceeds(n)
    BY <2>3
       DEF Typed, TypeOK, OneElected, ProbesHaveLeaders, ConfirmSucceeds
  <2>4. CASE SetLeaderID(n)
    BY <2>2, <2>4
       DEF Typed, TypeOK, OneElected, ProbesHaveLeaders, SetLeaderID
  <2>5. CASE SetLeaderAddress(n)
    BY <2>2, <2>5
       DEF Typed, TypeOK, OneElected, ProbesHaveLeaders, SetLeaderAddress
  <2> QED
    BY <1>10, <2>3, <2>4, <2>5
<1>21. ASSUME NEW n \in Node, BecomeLeader(n) \/ FollowLeader(n)
       PROVE  Typed'
  <2>1. Deciding(n)
    BY <1>21 DEF BecomeLeader, FollowLeader
  <2>5. PICK e \in Node : votes[n] = {e}
    BY <2>1 DEF Typed, OneElected
  <2>2. Elected(n) = e
    BY <2>5, ElectedOne
  <2>3. CASE BecomeLeader(n)
    BY <2>3 DEF Typed, TypeOK, OneElected, ProbesHaveLeaders, BecomeLeader
  <2>4. CASE FollowLeader(n)
    BY <2>2, <2>4
       DEF Typed, TypeOK, OneElected, ProbesHaveLeaders, FollowLeader
  <2> QED
    BY <1>21, <2>3, <2>4
<1>11. ASSUME NEW t \in Node, ProbeSucceeds(t) PROVE Typed'
  <2>1. probe[t].leader \in Node
    BY <1>11 DEF ProbeSucceeds, Typed, ProbesHaveLeaders
  <2>2. Response(t, probe[t].leader) \in SUBSET Node
    BY <2>1 DEF Typed, TypeOK, Response
  <2>3. probe' \in [Node -> [leader : Node \cup {Nobody}, done : BOOLEAN,
                            list : SUBSET Node]]
        /\ \A u \in Node : probe'[u].leader = probe[u].leader
    <3> DEFINE answer == Response(t, probe[t].leader)
    <3>1. probe' = [probe EXCEPT ![t] = [leader |-> probe[t].leader,
                                         done |-> TRUE, list |-> answer]]
      BY <1>11 DEF ProbeSucceeds
    <3>2. answer \in SUBSET Node
      BY <2>2
    <3> HIDE DEF answer
    <3> QED
      BY <3>1, <3>2 DEF Typed, TypeOK
  <2>4. Heartbeat(t, probe[t].leader)
        /\ UNCHANGED <<alive, leaderID, leaderAddr, isLeader, lock, late,
                       step, conn, stale, votes, resp>>
    BY <1>11 DEF ProbeSucceeds
  <2>5. TypeOK'
    BY <2>1, <2>3, <2>4, HeartbeatTyped DEF Typed, TypeOK
  <2>6. \A k \in Node : k \notin todo'[k] /\ lock'[k] # k
    BY <2>1, <2>4, HeartbeatTyped DEF Typed
  <2> QED
    BY <2>3, <2>4, <2>5, <2>6 DEF Typed, OneElected, ProbesHaveLeaders
<1>12. ASSUME NEW t \in Node, ReturnLeader(t) PROVE Typed'
  <2>1. /\ leaderID[t] \in Node /\ lock[t] # Nobody
        /\ late' \subseteq Node \X Node /\ nodes' \in [Node -> SUBSET Node]
    BY <1>12 DEF ReturnLeader, Typed, TypeOK, ProbesHaveLeaders
  <2> QED
    BY <1>12, <2>1, ReturnVoteTyped DEF ReturnLeader
<1>13. ASSUME NEW t \in Node, ReturnSmallest(t) PROVE Typed'
  <2>1. /\ probe[t].leader \in Node /\ lock[t] # Nobody
        /\ nodes' \in [Node -> SUBSET Node]
    BY <1>13 DEF ReturnSmallest, Typed, TypeOK, ProbesHaveLeaders
  <2>2. late' \subseteq Node \X Node
    BY <1>13, <2>1, FailsTyped, TimesOutTyped
       DEF ReturnSmallest, Entangled, Typed, TypeOK
  <2> QED
    BY <1>13, <2>1, <2>2, ReturnVoteTyped, SmallestVote
       DEF ReturnSmallest, Typed
<1>14. ASSUME NEW n \in Node, Crash(n) PROVE Typed'
  BY <1>14, NobodyIsNoNode
     DEF Typed, TypeOK, OneElected, ProbesHaveLeaders, Crash, NoProbe
<1>15. ASSUME NEW n \in Node, NEW t \in Node, VoteFails(n, t) PROVE Typed'
  BY <1>15 DEF Typed, TypeOK, OneElected, ProbesHaveLeaders, VoteFails
<1>16. ASSUME NEW n \in Node, NEW t \in Node, RequestVote(n, t) PROVE Typed'
  <2>1. Smallest(t) \in Node
    BY SmallestVote DEF Typed
  <2> QED
    BY <1>16, <2>1
       DEF Typed, TypeOK, OneElected, ProbesHaveLeaders, RequestVote
<1>17. ASSUME NEW n \in Node, NEW t \in Node, RequestVoteProbes(n, t)
       PROVE  Typed'
  BY <1>17, NobodyIsNoNode
     DEF Typed, TypeOK, OneElected, ProbesHaveLeaders, RequestVoteProbes,
         HasLeader, NoProbe
<1>18. ASSUME NEW a \in Node, NEW b \in Node, LateHeartbeat(a, b) PROVE Typed'
  BY <1>18, HeartbeatTyped
     DEF Typed, TypeOK, OneElected, ProbesHaveLeaders, LateHeartbeat
<1>19. ASSUME NEW l \in Node, NEW d \in Node, CleanupInactiveNodes(l, d)
       PROVE  Typed'
  BY <1>19
     DEF Typed, TypeOK, OneElected, ProbesHaveLeaders, CleanupInactiveNodes
<1>20. UNCHANGED vars => Typed'
  BY DEF vars, Typed, TypeOK, OneElected, ProbesHaveLeaders, Smallest
<1> QED
  BY <1>1, <1>2, <1>3, <1>4, <1>5, <1>6, <1>7, <1>8, <1>9, <1>10, <1>11,
     <1>12, <1>13, <1>14, <1>15, <1>16, <1>17, <1>18, <1>19, <1>20, <1>21
     DEF Next

LEMMA AlwaysTyped == Spec => []Typed
<1>1. Init => Typed
  BY InitTyped
<1>2. Typed /\ [Next]_vars => Typed'
  BY NextTyped
<1> QED
  BY <1>1, <1>2, PTL DEF Spec

(***************************************************************************)
(* No interleaving of joins, heartbeats, votes, losses and failures takes  *)
(* a variable of the cluster out of its type: a vote is always for a node, *)
(* and what is confirmed, followed or heartbeaten is one.                  *)
(***************************************************************************)
THEOREM TypeCorrect == Spec => []TypeOK
<1>1. Typed => TypeOK
  BY DEF Typed
<1> QED
  BY <1>1, AlwaysTyped, PTL
-----------------------------------------------------------------------------
(***************************************************************************)
(* One failure.  Until the bootstrap node goes down nobody else leads, and *)
(* the lists are copies of its list, taken one after the other.  After it  *)
(* went down no other does, so a node's election ends once and for all:    *)
(* with the node the leader, or the follower of one that stays.            *)
(***************************************************************************)
Others == Node \ {Bootstrap}

\* Some node list may hold n, other than the list of n that it has itself.
Known(n) == nodes[n] # {} \/ step[n] \in {"adopt", "confirm", "lead"}

\* The list of n, the one it is about to have if there is one.
List(n) == IF step[n] \in {"adopt", "confirm"} THEN resp[n] ELSE nodes[n]

\* n leads, or may still be elected.
Candidate(n) ==
  /\ conn[n] = Bootstrap
  /\ Deciding(n) => votes[n] = {n}

Won(n) == step[n] = "lead" \/ (Deciding(n) /\ votes[n] = {n})

\* n has not begun an election, or knows of nobody to ask.
Idle(n) ==
  /\ conn[n] = Bootstrap
  /\ leaderID[n] = Nobody
  /\ leaderAddr[n] = Bootstrap
  /\ ~isLeader[n]
  /\ heard[n] = {}
  /\ lock[n] = Nobody
  /\ probe[n] = NoProbe
  /\ votes[n] = {}
  /\ todo[n] = {}
  /\ \/ step[n] \in {"beat", "adopt"} /\ (nodes[n] # {} => ~stale[n])
     \/ step[n] \in {"elect", "ask"} /\ nodes[n] = {}

\* Of any two candidates one has the other in its list.
Acquainted ==
  \A a, b \in Others :
    Candidate(a) /\ Candidate(b) /\ Known(a) /\ Known(b) /\ a # b
      => b \in List(a) \/ a \in List(b)

\* The list a candidate is about to have lacks no candidate it has now.
NothingForgotten ==
  \A n \in Others : Candidate(n) =>
    /\ step[n] = "adopt" => nodes[n] \subseteq resp[n]
    /\ step[n] = "confirm" => \A x \in nodes[n] : Candidate(x) => x \in resp[n]

ListsAreKnown ==
  \A n \in Others :
    /\ \A x \in nodes[n] \cup resp[n] \cup probe[n].list :
         x \in Others /\ Known(x)
    /\ step[n] \in {"adopt", "confirm"} => n \in resp[n]
    /\ probe[n].done => n \in probe[n].list

-----------------------------------------------------------------------------
BootstrapLeads ==
  /\ isLeader[Bootstrap]
  /\ step[Bootstrap] = "lead"
  /\ leaderAddr[Bootstrap] = Nobody
  /\ lock[Bootstrap] = Nobody
  /\ Bootstrap \notin heard[Bootstrap]
  /\ Bootstrap \notin nodes[Bootstrap]

AllIdle == late = {} /\ \A n \in Others : Idle(n)

NoElections == \A n \in Others : step[n] \in {"beat", "adopt"}

\* All lists come from the one of the bootstrap node, which only grows.
Copies ==
  \A n \in Others :
    /\ nodes[n] \cup resp[n] \subseteq nodes[Bootstrap]
    /\ Known(n) <=> n \in nodes[Bootstrap]
    /\ nodes[n] # {} => n \in nodes[n]

BeforeFailure ==
  /\ Bootstrap \in alive
  /\ BootstrapLeads
  /\ AllIdle
  /\ NoElections
  /\ alive = Node => /\ Copies
                     /\ ListsAreKnown
                     /\ Acquainted
                     /\ NothingForgotten

-----------------------------------------------------------------------------
(***************************************************************************)
(* After the failure.  While a response of the dead leader is still to be  *)
(* adopted, no node that knows another has been silent for 15 seconds.     *)
(***************************************************************************)
Waiting == \E n \in Others : step[n] = "adopt" /\ conn[n] = Bootstrap

Follower(n) ==
  /\ conn[n] \in Others \ {n}
  /\ Known(conn[n])
  /\ leaderID[n] = conn[n]
  /\ leaderAddr[n] = conn[n]
  /\ ~isLeader[n]
  /\ step[n] \in {"beat", "adopt"}
  /\ n \in nodes[n]

Leader(n) ==
  /\ conn[n] = Bootstrap
  /\ leaderID[n] = n
  /\ leaderAddr[n] = n
  /\ isLeader[n]
  /\ step[n] = "lead"

Undecided(n) ==
  /\ conn[n] = Bootstrap
  /\ leaderID[n] = Nobody
  /\ leaderAddr[n] = Bootstrap
  /\ ~isLeader[n]
  /\ lock[n] = Nobody
  /\ step[n] \notin {"named", "addressed", "lead"}
  /\ n \in nodes[n] \/ (nodes[n] = {} /\ ~Deciding(n))

\* LeaderID is set, and what it takes to lead or to follow is not yet.
Decided(n) ==
  /\ conn[n] = Bootstrap
  /\ votes[n] = {leaderID[n]}
  /\ ~isLeader[n]
  /\ \/ step[n] = "named" /\ leaderAddr[n] = Bootstrap
     \/ step[n] = "addressed" /\ leaderAddr[n] = leaderID[n]
  /\ n \in nodes[n]

Roles ==
  \A n \in Others : Follower(n) \/ Leader(n) \/ Undecided(n) \/ Decided(n)

(***************************************************************************)
(* The node elected is in the list, and in its own: it heard from itself   *)
(* when it was asked, and what the handler of n gets from it says so.      *)
(***************************************************************************)
Decides(n, e) ==
  /\ votes[n] = {e}
  /\ todo[n] = {}
  /\ e \in nodes[n]
  /\ e \in nodes[e]
  /\ step[n] = "confirm" => e \in resp[n]
  /\ lock[n] # Nobody /\ probe[n].done => e \in probe[n].list

Confirming == \A n \in Others : Deciding(n) => \E e \in Others : Decides(n, e)

(***************************************************************************)
(* A node that holds its VoteLock for another answers a call of that one.  *)
(* It calls its leader, or still the one that is down.                     *)
(***************************************************************************)
Locks ==
  /\ lock[Bootstrap] = Nobody
  /\ \A t \in Others : lock[t] # Nobody =>
       /\ lock[t] \in Others
       /\ step[lock[t]] = "wait"
       /\ \A u \in Others : lock[u] = lock[t] => u = t
       /\ probe[t].leader \in {Bootstrap, leaderAddr[t]}
       /\ probe[t].leader = Bootstrap => t \in nodes[t]
       /\ probe[t].done => probe[t].leader \notin {Bootstrap, t}

\* Those who heartbeat another node follow it, so are no candidates.
Heartbeats ==
  /\ late \subseteq Others \X Others
  /\ \A a, b \in Others : <<a, b>> \in late =>
       Known(a) /\ Known(b) /\ (a = b \/ ~Candidate(a))
  /\ \A l \in Others : \A d \in heard[l] :
       d \in Others /\ (d = l \/ ~Candidate(d))

(***************************************************************************)
(* The vote that a candidate b gave n is for nobody above b, for n only if *)
(* b knows n; and b has itself in its list until n is through.             *)
(***************************************************************************)
Answered(n, b) ==
  /\ \E v \in votes[n] : v <= b /\ (v = n => n \in List(b))
  /\ b \in nodes[b] \/ <<b, b>> \in late

Asked ==
  \A n, b \in Others :
    /\ Candidate(n) /\ Candidate(b) /\ n # b
    /\ step[n] \in {"ask", "wait"}
    /\ b \in nodes[n] \ todo[n]
    /\ lock[b] # n
    => Answered(n, b)

\* A node elected itself because every candidate it knows voted for it.
Elections ==
  \A n, b \in Others :
    Won(n) /\ Candidate(b) /\ n # b /\ b \in List(n)
      => n < b /\ n \in List(b)

AfterFailure ==
  /\ alive = Others
  /\ Waiting => AllIdle
  /\ ListsAreKnown
  /\ Acquainted
  /\ NothingForgotten
  /\ Roles
  /\ Confirming
  /\ Locks
  /\ Heartbeats
  /\ Asked
  /\ Elections

OneFailureInv == BeforeFailure \/ AfterFailure
-----------------------------------------------------------------------------
(***************************************************************************)
(* What every step after the failure keeps: who may still be elected, who  *)
(* is known, and which candidate knows which.                              *)
(***************************************************************************)
Steady ==
  /\ alive' = alive
  /\ \A n \in Others : Candidate(n)' => Candidate(n)
  /\ \A n \in Others : Known(n)' <=> Known(n)
  /\ \A a, b \in Others :
       a # b /\ Candidate(a)' /\ Candidate(b)'
         => (b \in List(a)' <=> b \in List(a))

LEMMA SteadyAcquainted ==
  ASSUME Acquainted, Steady
  PROVE  Acquainted'
  BY DEF Acquainted, Steady, Others

LEMMA SteadyElections ==
  ASSUME Elections, Steady,
         \A n \in Others : Won(n)' => Won(n) /\ Candidate(n)'
  PROVE  Elections'
  BY DEF Elections, Steady, Others

\* An election goes on as it was, and no node loses its own entry.
LEMMA StillConfirming ==
  ASSUME Confirming,
         \A k \in Others : Deciding(k)' =>
           /\ Deciding(k)
           /\ votes'[k] = votes[k] /\ todo'[k] = todo[k]
           /\ nodes[k] \subseteq nodes'[k]
           /\ step'[k] = "confirm" => step[k] = "confirm" /\ resp'[k] = resp[k]
           /\ lock'[k] # Nobody /\ probe'[k].done =>
                lock[k] # Nobody /\ probe'[k] = probe[k],
         \A k \in Others : k \in nodes[k] => k \in nodes'[k]
  PROVE  Confirming'
<1>1. ASSUME NEW k \in Others, NEW e \in Others, Deciding(k)', Decides(k, e)
      PROVE  Decides(k, e)'
  BY <1>1 DEF Decides
<1> QED
  BY <1>1 DEF Confirming

\* A node that is not idle has waited for all responses of the dead leader.
LEMMA NotWaiting ==
  ASSUME AfterFailure, NEW n \in Others, ~Idle(n)
  PROVE  ~Waiting
  BY DEF AfterFailure, AllIdle

(***************************************************************************)
(* Nobody waits his deadline out in a queue: among four nodes one of which *)
(* is down, a node that is called has at most one other to hold its lock.  *)
(***************************************************************************)
LEMMA NotCrowded ==
  ASSUME OneFailure, NEW a \in Node, NEW b \in Others, NEW x \in Others, b # x
  PROVE  ~(<<a, b>> \in Queueing /\ Crowded(b, x))
<1> SUFFICES ASSUME <<a, b>> \in Queueing, Crowded(b, x) PROVE FALSE
  OBVIOUS
<1>1. /\ IsFiniteSet(Node) /\ Cardinality(Node) \in Nat
      /\ Cardinality(Node) <= 4
  BY ElectionAssumption, FS_CardinalityType DEF OneFailure
<1> DEFINE A == Node \ {Bootstrap}
           B == A \ {b}
           C == B \ {x}
<1>2. IsFiniteSet(A) /\ Cardinality(A) = Cardinality(Node) - 1
  BY <1>1, ElectionAssumption, FS_RemoveElement
<1>3. IsFiniteSet(B) /\ Cardinality(B) = Cardinality(A) - 1
  BY <1>2, FS_RemoveElement DEF Others
<1>4. IsFiniteSet(C) /\ Cardinality(C) = Cardinality(B) - 1
  <2>1. x \in B
    BY DEF Others
  <2> QED
    BY <1>3, <2>1, FS_RemoveElement
<1>5. Askers(b, x) \subseteq C
  BY DEF Askers
<1>6. /\ Cardinality(Askers(b, x)) \in Nat
      /\ Cardinality(Askers(b, x)) <= Cardinality(C)
  BY <1>4, <1>5, FS_Subset, FS_CardinalityType
<1> HIDE DEF A, B, C
<1> QED
  BY <1>1, <1>2, <1>3, <1>4, <1>6 DEF Crowded

LEMMA NoQueue ==
  ASSUME OneFailure, AfterFailure, NEW n \in Others
  PROVE  ~InQueue(n, conn[n], n)
<1>1. conn[n] = Bootstrap \/ conn[n] \in Others \ {n}
  BY DEF AfterFailure, Roles, Follower, Leader, Undecided, Decided
<1>2. Bootstrap \notin alive /\ n \in Node
  BY DEF AfterFailure, Others
<1> QED
  BY <1>1, <1>2, NotCrowded DEF InQueue

LEMMA AfterSend ==
  ASSUME Typed, AfterFailure, NEW n \in Node, SendHeartbeat(n)
  PROVE  AfterFailure'
<1> USE DEF AfterFailure
<1> DEFINE m == conn[n]
<1>a. /\ n \in Others /\ m \in Others /\ m # n
      /\ Follower(n) /\ ~Candidate(n) /\ Known(n) /\ Known(m)
  BY ElectionAssumption DEF SendHeartbeat, Serves, Roles, Leader, Follower,
                            Undecided, Decided, Others,
         Candidate, Known
<1>b. /\ step[n] = "beat"
      /\ Heartbeat(n, m)
      /\ resp' = [resp EXCEPT ![n] = nodes[m] \cup {n}]
      /\ step' = [step EXCEPT ![n] = "adopt"]
      /\ UNCHANGED <<alive, leaderID, leaderAddr, isLeader, handler,
                     conn, stale, votes>>
  BY DEF SendHeartbeat, Response
<1>c. ~Waiting
  BY <1>a, NotWaiting, NobodyIsNoNode DEF Idle, Follower, Others
<1> HIDE DEF m
<1>d. /\ heard' = [heard EXCEPT ![m] = @ \cup {n}]
      /\ nodes' = [nodes EXCEPT ![m] = @ \cup {n}]
      /\ \/ UNCHANGED todo
         \/ todo' = [todo EXCEPT ![m] = @ \cup {n}]
  BY <1>b DEF Heartbeat
<1>1. Steady
  BY <1>a, <1>b, <1>c, <1>d
     DEF Steady, Candidate, Deciding, Known, List, Typed, TypeOK, Others,
         handler
<1>2. Acquainted'
  BY <1>1, SteadyAcquainted
<1>3. (Waiting => AllIdle)'
  BY <1>a, <1>b, <1>c DEF Waiting, Candidate, Deciding, Typed, TypeOK, Others
<1>4. ListsAreKnown'
  BY <1>a, <1>b, <1>c, <1>d, <1>1
     DEF ListsAreKnown, Steady, Typed, TypeOK, Others, handler
<1>5. NothingForgotten'
  <2>1. \A k \in Others : Candidate(k) => k # n /\ step[k] # "adopt"
    BY <1>a, <1>c DEF Candidate, Waiting
  <2>2. \A k \in Others : Candidate(k)' => Candidate(k)
    BY <1>1 DEF Steady
  <2>3. \A k \in Others : k # n => step'[k] = step[k] /\ resp'[k] = resp[k]
    BY <1>b DEF Typed, TypeOK, Others
  <2>4. \A k \in Others : nodes'[k] \subseteq nodes[k] \cup {n}
    BY <1>d DEF Typed, TypeOK, Others
  <2>5. \A k \in Others : nodes[k] \subseteq Others
    BY DEF ListsAreKnown
  <2> QED
    BY <1>a, <2>1, <2>2, <2>3, <2>4, <2>5 DEF NothingForgotten
<1>6. Roles'
  BY <1>a, <1>b, <1>c, <1>d, <1>1
     DEF Roles, Follower, Leader, Undecided, Decided, Deciding, Steady,
         Waiting, Known,
         Typed, TypeOK, Others, handler
<1>7. Confirming'
  BY <1>a, <1>b, <1>d, StillConfirming
     DEF Heartbeat, Deciding, Typed, TypeOK, Others, handler
<1>8. Locks'
  BY <1>a, <1>b, <1>c, <1>d, <1>1 DEF Locks, Typed, TypeOK, Others, handler
<1>9. Heartbeats'
  BY <1>a, <1>b, <1>c, <1>d, <1>1
     DEF Heartbeats, Steady, Typed, TypeOK, Others, handler
<1>10. Asked'
  BY <1>a, <1>b, <1>c, <1>d, <1>1
     DEF Asked, Answered, Steady, Typed, TypeOK, Others, handler
<1>11. Elections'
  <2>1. \A k \in Others : Won(k)' => Won(k) /\ Candidate(k)'
    BY <1>a, <1>b, <1>c, <1>d
       DEF Won, Candidate, Deciding, Roles, Leader, Follower, Undecided,
           Decided, Typed, TypeOK,
           Others, handler
  <2> QED
    BY <1>1, <2>1, SteadyElections
<1> QED
  BY <1>1, <1>2, <1>3, <1>4, <1>5, <1>6, <1>7, <1>8, <1>9, <1>10, <1>11
     DEF Steady

LEMMA AfterSetNodes ==
  ASSUME Typed, AfterFailure, NEW n \in Node, SetNodes(n)
  PROVE  AfterFailure'
<1> USE DEF AfterFailure
<1>a. /\ n \in Others
      /\ step[n] = "adopt"
      /\ nodes' = [nodes EXCEPT ![n] = resp[n]]
      /\ stale' = [stale EXCEPT ![n] = FALSE]
      /\ step' = [step EXCEPT ![n] = "beat"]
      /\ resp' = [resp EXCEPT ![n] = {}]
      /\ UNCHANGED <<alive, leaderID, leaderAddr, isLeader, heard, handler,
                     conn, todo, votes>>
  BY DEF SetNodes
<1>b. n \in resp[n]
  BY <1>a DEF ListsAreKnown
<1>c. Candidate(n) => nodes[n] \subseteq resp[n]
  BY <1>a DEF NothingForgotten
<1>1. Steady
  BY <1>a, <1>b, <1>c
     DEF Steady, Candidate, Deciding, Known, List, Typed, TypeOK, Others,
         handler
<1>2. Acquainted'
  BY <1>1, SteadyAcquainted
<1>3. (Waiting => AllIdle)'
  BY <1>a, <1>b, <1>c, <1>1
     DEF Waiting, AllIdle, Idle, Typed, TypeOK, Others, handler
<1>4. ListsAreKnown'
  BY <1>a, <1>b, <1>c, <1>1
     DEF ListsAreKnown, Steady, Typed, TypeOK, Others, handler
<1>5. NothingForgotten'
  BY <1>a, <1>b, <1>c, <1>1
     DEF NothingForgotten, ListsAreKnown, Steady, Typed, TypeOK, Others,
         handler
<1>6. Roles'
  BY <1>a, <1>b, <1>c, <1>1
     DEF Roles, Follower, Leader, Undecided, Decided, Deciding, Steady, Typed,
         TypeOK, Others,
         handler
<1>7. Confirming'
  BY <1>a, <1>b, StillConfirming
     DEF Deciding, Typed, TypeOK, Others, handler
<1>8. Locks'
  BY <1>a, <1>b, <1>c, <1>1 DEF Locks, Typed, TypeOK, Others, handler
<1>9. Heartbeats'
  BY <1>a, <1>b, <1>c, <1>1
     DEF Heartbeats, Steady, Typed, TypeOK, Others, handler
<1>10. Asked'
  BY <1>a, <1>b, <1>c, <1>1
     DEF Asked, Answered, Steady, Typed, TypeOK, Others, handler
<1>11. Elections'
  <2>1. \A k \in Others : Won(k)' => Won(k) /\ Candidate(k)'
    BY <1>a, <1>b, <1>c
       DEF Won, Candidate, Deciding, Roles, Leader, Follower, Undecided,
           Decided, Typed, TypeOK,
           Others, handler
  <2> QED
    BY <1>1, <2>1, SteadyElections
<1> QED
  BY <1>1, <1>2, <1>3, <1>4, <1>5, <1>6, <1>7, <1>8, <1>9, <1>10, <1>11
     DEF Steady

LEMMA AfterHeartbeatFails ==
  ASSUME OneFailure, Typed, AfterFailure, NEW n \in Node, HeartbeatFails(n)
  PROVE  AfterFailure'
<1> USE DEF AfterFailure
<1>a. /\ n \in Others
      /\ step[n] = "beat"
      /\ step' = [step EXCEPT ![n] = IF stale[n] THEN "elect" ELSE @]
      /\ UNCHANGED <<alive, cluster, lock, probe, conn, stale, todo, votes,
                     resp>>
  BY DEF HeartbeatFails
<1>b. conn[n] \notin alive /\ UNCHANGED late
  BY <1>a, NoQueue DEF HeartbeatFails, Fails, TimesOut, OneFailure
<1>c. conn[n] = Bootstrap
  BY <1>a, <1>b DEF Roles, Follower, Leader, Undecided, Decided
<1>1. Steady
  BY <1>a, <1>b, <1>c
     DEF Steady, Candidate, Deciding, Known, List, Typed, TypeOK, Others,
         cluster
<1>2. Acquainted'
  BY <1>1, SteadyAcquainted
<1>3. (Waiting => AllIdle)'
  BY <1>a, <1>b, <1>c, <1>1
     DEF Waiting, AllIdle, Idle, Typed, TypeOK, Others, cluster
<1>4. ListsAreKnown'
  BY <1>a, <1>b, <1>c, <1>1
     DEF ListsAreKnown, Steady, Typed, TypeOK, Others, cluster
<1>5. NothingForgotten'
  BY <1>a, <1>b, <1>c, <1>1
     DEF NothingForgotten, ListsAreKnown, Steady, Typed, TypeOK, Others,
         cluster
<1>6. Roles'
  BY <1>a, <1>b, <1>c, <1>1
     DEF Roles, Follower, Leader, Undecided, Decided, Deciding, Steady, Typed,
         TypeOK, Others,
         cluster
<1>7. Confirming'
  BY <1>a, <1>b, <1>c, <1>1 DEF Confirming, Decides, Deciding, Typed, TypeOK,
                                Others, cluster
<1>8. Locks'
  BY <1>a, <1>b, <1>c, <1>1 DEF Locks, Typed, TypeOK, Others, cluster
<1>9. Heartbeats'
  BY <1>a, <1>b, <1>c, <1>1
     DEF Heartbeats, Steady, Typed, TypeOK, Others, cluster
<1>10. Asked'
  BY <1>a, <1>b, <1>c, <1>1
     DEF Asked, Answered, Steady, Typed, TypeOK, Others, cluster
<1>11. Elections'
  <2>1. \A k \in Others : Won(k)' => Won(k) /\ Candidate(k)'
    BY <1>a, <1>b, <1>c
       DEF Won, Candidate, Deciding, Roles, Leader, Follower, Undecided,
           Decided, Typed, TypeOK,
           Others, cluster
  <2> QED
    BY <1>1, <2>1, SteadyElections
<1> QED
  BY <1>1, <1>2, <1>3, <1>4, <1>5, <1>6, <1>7, <1>8, <1>9, <1>10, <1>11
     DEF Steady

LEMMA AfterSilence ==
  ASSUME OneFailure, Typed, AfterFailure, NEW n \in Node, Silence(n)
  PROVE  AfterFailure'
<1> USE DEF AfterFailure
<1>a. /\ n \in Others
      /\ step[n] = "beat"
      /\ stale' = [stale EXCEPT ![n] = TRUE]
      /\ UNCHANGED <<alive, cluster, handler, step, conn, todo, votes, resp>>
  BY DEF Silence
<1>b. ~Waiting
  <2>1. conn[n] \notin alive
    BY <1>a, NoQueue DEF Silence, OneFailure
  <2>2. conn[n] = Bootstrap
    BY <1>a, <2>1 DEF Roles, Follower, Leader, Undecided, Decided
  <2> QED
    BY <2>2 DEF Silence, Waiting
<1>1. Steady
  BY <1>a, <1>b
     DEF Steady, Candidate, Deciding, Known, List, Typed, TypeOK, Others,
         cluster,
         handler
<1>2. Acquainted'
  BY <1>1, SteadyAcquainted
<1>3. (Waiting => AllIdle)'
  BY <1>a, <1>b, <1>1
     DEF Waiting, AllIdle, Idle, Typed, TypeOK, Others, cluster, handler
<1>4. ListsAreKnown'
  BY <1>a, <1>b, <1>1
     DEF ListsAreKnown, Steady, Typed, TypeOK, Others, cluster, handler
<1>5. NothingForgotten'
  BY <1>a, <1>b, <1>1
     DEF NothingForgotten, ListsAreKnown, Steady, Typed, TypeOK, Others,
         cluster, handler
<1>6. Roles'
  BY <1>a, <1>b, <1>1
     DEF Roles, Follower, Leader, Undecided, Decided, Deciding, Steady, Typed,
         TypeOK, Others,
         cluster, handler
<1>7. Confirming'
  BY <1>a, <1>b, <1>1 DEF Confirming, Decides, Deciding, Typed, TypeOK,
                          Others, cluster, handler
<1>8. Locks'
  BY <1>a, <1>b, <1>1 DEF Locks, Typed, TypeOK, Others, cluster, handler
<1>9. Heartbeats'
  BY <1>a, <1>b, <1>1
     DEF Heartbeats, Steady, Typed, TypeOK, Others, cluster, handler
<1>10. Asked'
  BY <1>a, <1>b, <1>1
     DEF Asked, Answered, Steady, Typed, TypeOK, Others, cluster, handler
<1>11. Elections'
  <2>1. \A k \in Others : Won(k)' => Won(k) /\ Candidate(k)'
    BY <1>a, <1>b
       DEF Won, Candidate, Deciding, Roles, Leader, Follower, Undecided,
           Decided, Typed, TypeOK,
           Others, cluster, handler
  <2> QED
    BY <1>1, <2>1, SteadyElections
<1> QED
  BY <1>1, <1>2, <1>3, <1>4, <1>5, <1>6, <1>7, <1>8, <1>9, <1>10, <1>11
     DEF Steady

LEMMA AfterStart ==
  ASSUME Typed, AfterFailure, NEW n \in Node, StartLeaderElection(n)
  PROVE  AfterFailure'
<1> USE DEF AfterFailure
<1>a. /\ n \in Others
      /\ step[n] = "elect"
      /\ isLeader' = [isLeader EXCEPT ![n] = FALSE]
      /\ todo' = [todo EXCEPT ![n] = nodes[n] \ {n}]
      /\ votes' = [votes EXCEPT ![n] = {}]
      /\ step' = [step EXCEPT ![n] = "ask"]
      /\ UNCHANGED <<alive, nodes, leaderID, leaderAddr, heard, handler,
                     conn, stale, resp>>
  BY DEF StartLeaderElection
<1>1. Steady
  BY <1>a DEF Steady, Candidate, Deciding, Known, List, Typed, TypeOK, Others,
              handler
<1>2. Acquainted'
  BY <1>1, SteadyAcquainted
<1>3. (Waiting => AllIdle)'
  BY <1>a, <1>1 DEF Waiting, AllIdle, Idle, Typed, TypeOK, Others, handler
<1>4. ListsAreKnown'
  BY <1>a, <1>1 DEF ListsAreKnown, Steady, Typed, TypeOK, Others, handler
<1>5. NothingForgotten'
  BY <1>a, <1>1
     DEF NothingForgotten, ListsAreKnown, Steady, Typed, TypeOK, Others,
         handler
<1>6. Roles'
  BY <1>a, <1>1
     DEF Roles, Follower, Leader, Undecided, Decided, Deciding, Steady, Typed,
         TypeOK, Others,
         handler
<1>7. Confirming'
  BY <1>a, <1>1 DEF Confirming, Decides, Deciding, Typed, TypeOK, Others,
                    handler
<1>8. Locks'
  BY <1>a, <1>1 DEF Locks, Typed, TypeOK, Others, handler
<1>9. Heartbeats'
  BY <1>a, <1>1 DEF Heartbeats, Steady, Typed, TypeOK, Others, handler
<1>10. Asked'
  BY <1>a, <1>1 DEF Asked, Answered, Steady, Typed, TypeOK, Others, handler
<1>11. Elections'
  <2>1. \A k \in Others : Won(k)' => Won(k) /\ Candidate(k)'
    BY <1>a
       DEF Won, Candidate, Deciding, Roles, Leader, Follower, Undecided,
           Decided, Typed, TypeOK,
           Others, handler
  <2> QED
    BY <1>1, <2>1, SteadyElections
<1> QED
  BY <1>1, <1>2, <1>3, <1>4, <1>5, <1>6, <1>7, <1>8, <1>9, <1>10, <1>11
     DEF Steady

LEMMA AfterVoteFails ==
  ASSUME OneFailure, Typed, AfterFailure, NEW n \in Node, NEW t \in Node,
         VoteFails(n, t)
  PROVE  AfterFailure'
<1> USE DEF AfterFailure
<1>a. /\ n \in Others
      /\ step[n] = "ask"
      /\ todo' = [todo EXCEPT ![n] = @ \ {t}]
      /\ UNCHANGED <<alive, cluster, handler, step, conn, stale, votes, resp>>
  BY DEF VoteFails
<1>b. t = Bootstrap
  BY DEF VoteFails, OneFailure, Others
<1>1. Steady
  BY <1>a, <1>b
     DEF Steady, Candidate, Deciding, Known, List, Typed, TypeOK, Others,
         cluster,
         handler
<1>2. Acquainted'
  BY <1>1, SteadyAcquainted
<1>3. (Waiting => AllIdle)'
  BY <1>a, <1>b, <1>1
     DEF Waiting, AllIdle, Idle, Typed, TypeOK, Others, cluster, handler
<1>4. ListsAreKnown'
  BY <1>a, <1>b, <1>1
     DEF ListsAreKnown, Steady, Typed, TypeOK, Others, cluster, handler
<1>5. NothingForgotten'
  BY <1>a, <1>b, <1>1
     DEF NothingForgotten, ListsAreKnown, Steady, Typed, TypeOK, Others,
         cluster, handler
<1>6. Roles'
  BY <1>a, <1>b, <1>1
     DEF Roles, Follower, Leader, Undecided, Decided, Deciding, Steady, Typed,
         TypeOK, Others,
         cluster, handler
<1>7. Confirming'
  BY <1>a, <1>b, <1>1 DEF Confirming, Decides, Deciding, Typed, TypeOK,
                          Others, cluster, handler
<1>8. Locks'
  BY <1>a, <1>b, <1>1 DEF Locks, Typed, TypeOK, Others, cluster, handler
<1>9. Heartbeats'
  BY <1>a, <1>b, <1>1
     DEF Heartbeats, Steady, Typed, TypeOK, Others, cluster, handler
<1>10. Asked'
  BY <1>a, <1>b, <1>1
     DEF Asked, Answered, Steady, Typed, TypeOK, Others, cluster, handler
<1>11. Elections'
  <2>1. \A k \in Others : Won(k)' => Won(k) /\ Candidate(k)'
    BY <1>a, <1>b
       DEF Won, Candidate, Deciding, Roles, Leader, Follower, Undecided,
           Decided, Typed, TypeOK,
           Others, cluster, handler
  <2> QED
    BY <1>1, <2>1, SteadyElections
<1> QED
  BY <1>1, <1>2, <1>3, <1>4, <1>5, <1>6, <1>7, <1>8, <1>9, <1>10, <1>11
     DEF Steady

LEMMA AfterRequestVote ==
  ASSUME Typed, AfterFailure, NEW n \in Node, NEW t \in Node, RequestVote(n, t)
  PROVE  AfterFailure'
<1> USE DEF AfterFailure
<1>a. /\ n \in Others /\ t \in Others
      /\ step[n] = "ask"
      /\ ~HasLeader(t)
      /\ votes' = [votes EXCEPT ![n] = @ \cup {Smallest(t)}]
      /\ todo' = [todo EXCEPT ![n] = @ \ {t}]
      /\ UNCHANGED <<alive, cluster, handler, step, conn, stale, resp>>
  BY DEF RequestVote, Serves
<1>b. /\ Smallest(t) \in Node /\ Smallest(t) <= t
      /\ Smallest(t) = t \/ Smallest(t) \in nodes[t]
  BY SmallestVote DEF Typed
<1>w. ~Waiting
  <2>1. step[n] = "ask" /\ t \in todo[n]
    BY DEF RequestVote
  <2>2. ~Idle(n)
    BY <2>1 DEF Idle
  <2> QED
    BY <1>a, <2>2, NotWaiting
<1>1. Steady
  BY <1>a, <1>b
     DEF Steady, Candidate, Deciding, Known, List, Typed, TypeOK, Others,
         cluster,
         handler
<1>2. Acquainted'
  BY <1>1, SteadyAcquainted
<1>3. (Waiting => AllIdle)'
  BY <1>a, <1>w, <1>1
     DEF Waiting, AllIdle, Idle, Typed, TypeOK, Others, cluster, handler
<1>4. ListsAreKnown'
  BY <1>a, <1>b, <1>1
     DEF ListsAreKnown, Steady, Typed, TypeOK, Others, cluster, handler
<1>5. NothingForgotten'
  BY <1>a, <1>b, <1>1
     DEF NothingForgotten, ListsAreKnown, Steady, Typed, TypeOK, Others,
         cluster, handler
<1>6. Roles'
  BY <1>a, <1>b, <1>1
     DEF Roles, Follower, Leader, Undecided, Decided, Deciding, Steady, Typed,
         TypeOK, Others,
         cluster, handler
<1>7. Confirming'
  BY <1>a, <1>b, <1>1 DEF Confirming, Decides, Deciding, Typed, TypeOK,
                          Others, cluster, handler
<1>8. Locks'
  BY <1>a, <1>b, <1>1 DEF Locks, Typed, TypeOK, Others, cluster, handler
<1>9. Heartbeats'
  BY <1>a, <1>b, <1>1
     DEF Heartbeats, Steady, Typed, TypeOK, Others, cluster, handler
<1>v. Candidate(t) /\ t \in nodes[n] => t \in nodes[t]
  <2>1. Undecided(t)
    BY <1>a, NobodyIsNoNode, ElectionAssumption
       DEF Roles, Follower, Leader, Decided, Typed, TypeOK, HasLeader, Others
  <2> QED
    BY <1>a, <1>w, <2>1
       DEF Undecided, Deciding, ListsAreKnown, Known, Waiting, Candidate
<1>l. \A k \in Others : Candidate(t) /\ Candidate(k) /\ k \in nodes[t]
        => k \in List(t)
  BY <1>a DEF NothingForgotten, List
<1>10. Asked'
  BY <1>a, <1>b, <1>v, <1>l, <1>1
     DEF Asked, Answered, Steady, Typed, TypeOK, Others, cluster, handler
<1>11. Elections'
  <2>1. \A k \in Others : Won(k)' => Won(k) /\ Candidate(k)'
    BY <1>a, <1>b
       DEF Won, Candidate, Deciding, Roles, Leader, Follower, Undecided,
           Decided, Typed, TypeOK,
           Others, cluster, handler
  <2> QED
    BY <1>1, <2>1, SteadyElections
<1> QED
  BY <1>1, <1>2, <1>3, <1>4, <1>5, <1>6, <1>7, <1>8, <1>9, <1>10, <1>11
     DEF Steady

LEMMA AfterRequestVoteProbes ==
  ASSUME Typed, AfterFailure, NEW n \in Node, NEW t \in Node,
         RequestVoteProbes(n, t)
  PROVE  AfterFailure'
<1> USE DEF AfterFailure
<1>a. /\ n \in Others /\ t \in Others
      /\ step[n] = "ask"
      /\ HasLeader(t)
      /\ lock[t] = Nobody
      /\ lock' = [lock EXCEPT ![t] = n]
      /\ probe' = [probe EXCEPT
                     ![t] = [NoProbe EXCEPT !.leader = leaderAddr[t]]]
      /\ step' = [step EXCEPT ![n] = "wait"]
      /\ todo' = [todo EXCEPT ![n] = @ \ {t}]
      /\ UNCHANGED <<alive, cluster, late, conn, stale, votes, resp>>
  BY DEF RequestVoteProbes, Serves
<1>w. ~Waiting
  <2>1. step[n] = "ask" /\ t \in todo[n]
    BY DEF RequestVoteProbes
  <2>2. ~Idle(n)
    BY <2>1 DEF Idle
  <2> QED
    BY <1>a, <2>2, NotWaiting
<1>1. Steady
  BY <1>a
     DEF Steady, Candidate, Deciding, Known, List, Typed, TypeOK, Others,
         cluster,
         NoProbe
<1>2. Acquainted'
  BY <1>1, SteadyAcquainted
<1>3. (Waiting => AllIdle)'
  BY <1>a, <1>w, <1>1
     DEF Waiting, AllIdle, Idle, Typed, TypeOK, Others, cluster, NoProbe
<1>4. ListsAreKnown'
  BY <1>a, <1>1
     DEF ListsAreKnown, Steady, Typed, TypeOK, Others, cluster, NoProbe
<1>5. NothingForgotten'
  BY <1>a, <1>1
     DEF NothingForgotten, ListsAreKnown, Steady, Typed, TypeOK, Others,
         cluster, NoProbe
<1>6. Roles'
  <2>1. ~Undecided(t)
    BY <1>a DEF HasLeader, Undecided
  <2> QED
    BY <1>a, <1>1, <2>1
       DEF Roles, Follower, Leader, Undecided, Decided, Deciding, Steady,
           Typed, TypeOK, Others,
           cluster
<1>7. Confirming'
  <2>1. /\ \A k \in Others : k # t =>
             lock'[k] = lock[k] /\ probe'[k] = probe[k]
        /\ ~probe'[t].done
    BY <1>a DEF Typed, TypeOK, Others, NoProbe
  <2>2. \A k \in Others : Deciding(k)' =>
          Deciding(k) /\ todo'[k] = todo[k] /\ step'[k] = step[k]
    BY <1>a DEF Deciding, Typed, TypeOK, Others
  <2> QED
    BY <1>a, <2>1, <2>2, StillConfirming DEF cluster
<1>8. Locks'
  <2>1. /\ \A k \in Others : k # t =>
             lock'[k] = lock[k] /\ probe'[k] = probe[k]
        /\ lock'[t] = n /\ lock'[Bootstrap] = lock[Bootstrap]
        /\ probe'[t].leader = leaderAddr[t] /\ ~probe'[t].done
        /\ \A k \in Others : k # n => step'[k] = step[k]
        /\ step'[n] = "wait"
    BY <1>a, ElectionAssumption DEF Typed, TypeOK, Others, NoProbe
  <2>2. leaderAddr[t] = Bootstrap => t \in nodes[t]
    BY <1>a DEF Roles, Follower, Leader, Undecided, Decided, Others,
                HasLeader
  <2>3. n # Nobody /\ \A k \in Others : lock[k] # n
    BY <1>a, NobodyIsNoNode DEF Locks, Others
  <2>4. ASSUME NEW k \in Others, lock'[k] # Nobody
        PROVE  /\ lock'[k] \in Others
               /\ step'[lock'[k]] = "wait"
               /\ \A u \in Others : lock'[u] = lock'[k] => u = k
    BY <1>a, <2>1, <2>3, <2>4 DEF Locks
  <2>5. ASSUME NEW k \in Others, lock'[k] # Nobody
        PROVE  /\ probe'[k].leader \in {Bootstrap, leaderAddr'[k]}
               /\ probe'[k].leader = Bootstrap => k \in nodes'[k]
               /\ probe'[k].done => probe'[k].leader \notin {Bootstrap, k}
    BY <1>a, <2>1, <2>2, <2>5 DEF Locks, cluster
  <2> QED
    BY <2>1, <2>4, <2>5 DEF Locks
<1>9. Heartbeats'
  BY <1>a, <1>1 DEF Heartbeats, Steady, Typed, TypeOK, Others, cluster, NoProbe
<1>10. Asked'
  <2>1. \A k \in Others : k # n => step'[k] = step[k]
    BY <1>a DEF Typed, TypeOK, Others
  <2>2. \A k \in Others : k # t => lock'[k] = lock[k]
    BY <1>a DEF Typed, TypeOK, Others
  <2>3. \A k \in Others : k # n => todo'[k] = todo[k]
    BY <1>a DEF Typed, TypeOK, Others
  <2>4. todo'[n] = todo[n] \ {t} /\ lock'[t] = n
    BY <1>a DEF Typed, TypeOK, Others
  <2>5. ASSUME NEW m \in Others, NEW b \in Others,
               Candidate(m)', Candidate(b)', m # b,
               step'[m] \in {"ask", "wait"},
               b \in nodes'[m] \ todo'[m], lock'[b] # m
        PROVE  Answered(m, b)'
    <3>1. Candidate(m) /\ Candidate(b) /\ (m \in List(b)' <=> m \in List(b))
      BY <1>1, <2>5 DEF Steady
    <3>2. /\ step[m] \in {"ask", "wait"}
          /\ b \in nodes[m] \ todo[m]
          /\ lock[b] # m
      BY <1>a, <2>1, <2>2, <2>3, <2>4, <2>5, NobodyIsNoNode
         DEF cluster, Others
    <3>3. Answered(m, b)
      BY <2>5, <3>1, <3>2 DEF Asked
    <3> QED
      BY <1>a, <3>1, <3>3 DEF Answered, cluster
  <2> QED
    BY <2>5 DEF Asked
<1>11. Elections'
  <2>1. \A k \in Others : Won(k)' => Won(k) /\ Candidate(k)'
    BY <1>a
       DEF Won, Candidate, Deciding, Roles, Leader, Follower, Undecided,
           Decided, Typed, TypeOK,
           Others, cluster, NoProbe
  <2> QED
    BY <1>1, <2>1, SteadyElections
<1> QED
  BY <1>1, <1>2, <1>3, <1>4, <1>5, <1>6, <1>7, <1>8, <1>9, <1>10, <1>11
     DEF Steady

LEMMA AfterVoteLost ==
  ASSUME Typed, AfterFailure, NEW n \in Node, VoteLost(n)
  PROVE  AfterFailure'
<1> USE DEF AfterFailure
<1>a. /\ n \in Others
      /\ step[n] = "wait"
      /\ \A t \in Others : lock[t] # n
      /\ step' = [step EXCEPT ![n] = "ask"]
      /\ UNCHANGED <<alive, cluster, handler, conn, stale, todo, votes, resp>>
  BY DEF VoteLost
<1>1. Steady
  BY <1>a
     DEF Steady, Candidate, Deciding, Known, List, Typed, TypeOK, Others,
         cluster,
         handler
<1>2. Acquainted'
  BY <1>1, SteadyAcquainted
<1>3. (Waiting => AllIdle)'
  BY <1>a, <1>1
     DEF Waiting, AllIdle, Idle, Typed, TypeOK, Others, cluster, handler
<1>4. ListsAreKnown'
  BY <1>a, <1>1
     DEF ListsAreKnown, Steady, Typed, TypeOK, Others, cluster, handler
<1>5. NothingForgotten'
  BY <1>a, <1>1
     DEF NothingForgotten, ListsAreKnown, Steady, Typed, TypeOK, Others,
         cluster, handler
<1>6. Roles'
  BY <1>a, <1>1
     DEF Roles, Follower, Leader, Undecided, Decided, Deciding, Steady, Typed,
         TypeOK, Others,
         cluster, handler
<1>7. Confirming'
  BY <1>a, <1>1 DEF Confirming, Decides, Deciding, Typed, TypeOK, Others,
                    cluster, handler
<1>8. Locks'
  BY <1>a, <1>1 DEF Locks, Typed, TypeOK, Others, cluster, handler
<1>9. Heartbeats'
  BY <1>a, <1>1 DEF Heartbeats, Steady, Typed, TypeOK, Others, cluster, handler
<1>10. Asked'
  BY <1>a, <1>1
     DEF Asked, Answered, Steady, Typed, TypeOK, Others, cluster, handler
<1>11. Elections'
  <2>1. \A k \in Others : Won(k)' => Won(k) /\ Candidate(k)'
    BY <1>a
       DEF Won, Candidate, Deciding, Roles, Leader, Follower, Undecided,
           Decided, Typed, TypeOK,
           Others, cluster, handler
  <2> QED
    BY <1>1, <2>1, SteadyElections
<1> QED
  BY <1>1, <1>2, <1>3, <1>4, <1>5, <1>6, <1>7, <1>8, <1>9, <1>10, <1>11
     DEF Steady

LEMMA AfterRetry ==
  ASSUME Typed, AfterFailure, NEW n \in Node, Retry(n)
  PROVE  AfterFailure'
<1> USE DEF AfterFailure
<1>a. /\ n \in Others
      /\ step[n] = "ask"
      /\ step' = [step EXCEPT ![n] = "elect"]
      /\ UNCHANGED <<alive, cluster, handler, conn, stale, todo, votes, resp>>
  BY DEF Retry, Counted
<1>1. Steady
  BY <1>a
     DEF Steady, Candidate, Deciding, Known, List, Typed, TypeOK, Others,
         cluster,
         handler
<1>2. Acquainted'
  BY <1>1, SteadyAcquainted
<1>3. (Waiting => AllIdle)'
  BY <1>a, <1>1
     DEF Waiting, AllIdle, Idle, Typed, TypeOK, Others, cluster, handler
<1>4. ListsAreKnown'
  BY <1>a, <1>1
     DEF ListsAreKnown, Steady, Typed, TypeOK, Others, cluster, handler
<1>5. NothingForgotten'
  BY <1>a, <1>1
     DEF NothingForgotten, ListsAreKnown, Steady, Typed, TypeOK, Others,
         cluster, handler
<1>6. Roles'
  BY <1>a, <1>1
     DEF Roles, Follower, Leader, Undecided, Decided, Deciding, Steady, Typed,
         TypeOK, Others,
         cluster, handler
<1>7. Confirming'
  BY <1>a, <1>1 DEF Confirming, Decides, Deciding, Typed, TypeOK, Others,
                    cluster, handler
<1>8. Locks'
  BY <1>a, <1>1 DEF Locks, Typed, TypeOK, Others, cluster, handler
<1>9. Heartbeats'
  BY <1>a, <1>1 DEF Heartbeats, Steady, Typed, TypeOK, Others, cluster, handler
<1>10. Asked'
  BY <1>a, <1>1
     DEF Asked, Answered, Steady, Typed, TypeOK, Others, cluster, handler
<1>11. Elections'
  <2>1. \A k \in Others : Won(k)' => Won(k) /\ Candidate(k)'
    BY <1>a
       DEF Won, Candidate, Deciding, Roles, Leader, Follower, Undecided,
           Decided, Typed, TypeOK,
           Others, cluster, handler
  <2> QED
    BY <1>1, <2>1, SteadyElections
<1> QED
  BY <1>1, <1>2, <1>3, <1>4, <1>5, <1>6, <1>7, <1>8, <1>9, <1>10, <1>11
     DEF Steady

LEMMA AfterProbeSucceeds ==
  ASSUME Typed, AfterFailure, NEW t \in Node, ProbeSucceeds(t)
  PROVE  AfterFailure'
<1> USE DEF AfterFailure
<1> DEFINE m == probe[t].leader
<1>h. /\ t \in Others /\ lock[t] # Nobody
      /\ m \in Others /\ m # t /\ m = leaderAddr[t]
  BY DEF ProbeSucceeds, Serves, Locks, Others
<1>a. /\ t \in Others /\ m \in Others /\ m # t
      /\ ~Candidate(t) /\ Known(t) /\ Known(m)
      /\ Deciding(t) => Decides(t, m)
  <2>1. CASE Follower(t)
    BY <1>h, <2>1 DEF Follower, Others, Candidate, Known, Deciding
  <2>2. CASE Decided(t)
    <3>1. /\ Deciding(t) /\ votes[t] = {m} /\ t \in nodes[t]
      BY <1>h, <2>2 DEF Decided, Deciding, Others
    <3>2. PICK e \in Others : Decides(t, e)
      BY <1>h, <3>1 DEF Confirming
    <3>3. e = m
      BY <3>1, <3>2 DEF Decides
    <3> QED
      BY <1>h, <3>1, <3>2, <3>3
         DEF Decides, Candidate, Known, ListsAreKnown
  <2> QED
    BY <1>h, <2>1, <2>2 DEF Roles, Leader, Undecided
<1>b. /\ Heartbeat(t, m)
      /\ probe' = [probe EXCEPT ![t] = [leader |-> m, done |-> TRUE,
                                       list |-> nodes[m] \cup {t}]]
      /\ UNCHANGED <<alive, leaderID, leaderAddr, isLeader, lock, late,
                     step, conn, stale, votes, resp>>
  BY DEF ProbeSucceeds, Response
<1>w. ~Waiting
  BY <1>h, NotWaiting DEF Idle
<1> HIDE DEF m
<1>d. /\ heard' = [heard EXCEPT ![m] = @ \cup {t}]
      /\ nodes' = [nodes EXCEPT ![m] = @ \cup {t}]
      /\ \/ UNCHANGED todo
         \/ todo' = [todo EXCEPT ![m] = @ \cup {t}]
  BY <1>b DEF Heartbeat
<1>1. Steady
  BY <1>a, <1>b, <1>w, <1>d
     DEF Steady, Candidate, Deciding, Known, List, Typed, TypeOK, Others
<1>2. Acquainted'
  BY <1>1, SteadyAcquainted
<1>3. (Waiting => AllIdle)'
  BY <1>a, <1>b, <1>w, <1>d, <1>1
     DEF Waiting, AllIdle, Idle, Typed, TypeOK, Others
<1>4. ListsAreKnown'
  <2>1. \A k \in Others : nodes'[k] \subseteq nodes[k] \cup {t}
    BY <1>a, <1>d DEF Typed, TypeOK, Others
  <2>2. /\ probe'[t].list = nodes[m] \cup {t}
        /\ \A k \in Others : k # t => probe'[k] = probe[k]
    BY <1>a, <1>b DEF Typed, TypeOK, Others
  <2> QED
    BY <1>a, <1>b, <1>1, <2>1, <2>2 DEF ListsAreKnown, Steady
<1>5. NothingForgotten'
  <2>1. \A k \in Others : Candidate(k) => k # t /\ step[k] # "adopt"
    BY <1>a, <1>w DEF Candidate, Waiting
  <2>2. \A k \in Others : Candidate(k)' => Candidate(k)
    BY <1>1 DEF Steady
  <2>3. \A k \in Others : nodes'[k] \subseteq nodes[k] \cup {t}
    BY <1>d DEF Typed, TypeOK, Others
  <2>4. \A k \in Others : nodes[k] \subseteq Others
    BY DEF ListsAreKnown
  <2> QED
    BY <1>a, <1>b, <2>1, <2>2, <2>3, <2>4 DEF NothingForgotten
<1>6. Roles'
  BY <1>a, <1>b, <1>w, <1>d, <1>1
     DEF Roles, Follower, Leader, Undecided, Decided, Deciding, Steady,
         Waiting, Known,
         Typed, TypeOK, Others
<1>7. Confirming'
  <2>1. /\ \A k \in Others : nodes[k] \subseteq nodes'[k]
        /\ \A k \in Others : k # t => probe'[k] = probe[k]
        /\ probe'[t].list = nodes[m] \cup {t}
        /\ \A k \in Others : Deciding(k) => todo'[k] = todo[k]
    BY <1>a, <1>b, <1>d DEF Deciding, Typed, TypeOK, Others, Heartbeat
  <2>2. ASSUME NEW k \in Others, NEW e \in Others, Deciding(k), Decides(k, e)
        PROVE  Decides(k, e)'
    BY <1>a, <1>b, <2>1, <2>2 DEF Decides
  <2> QED
    BY <1>b, <2>2 DEF Confirming, Deciding
<1>8. Locks'
  <2>1. /\ probe'[t].leader = m
        /\ \A k \in Others : k # t => probe'[k] = probe[k]
    BY <1>a, <1>b DEF Typed, TypeOK, Others
  <2> QED
    BY <1>a, <1>b, <1>d, <1>h, <2>1 DEF Locks, Typed, TypeOK, Others
<1>9. Heartbeats'
  BY <1>a, <1>b, <1>w, <1>d, <1>1 DEF Heartbeats, Steady, Typed, TypeOK, Others
<1>10. Asked'
  BY <1>a, <1>b, <1>w, <1>d, <1>1
     DEF Asked, Answered, Steady, Typed, TypeOK, Others
<1>11. Elections'
  <2>1. \A k \in Others : Won(k)' => Won(k) /\ Candidate(k)'
    BY <1>a, <1>b, <1>w, <1>d
       DEF Won, Candidate, Deciding, Roles, Leader, Follower, Undecided,
           Decided, Typed, TypeOK,
           Others
  <2> QED
    BY <1>1, <2>1, SteadyElections
<1> QED
  BY <1>1, <1>2, <1>3, <1>4, <1>5, <1>6, <1>7, <1>8, <1>9, <1>10, <1>11
     DEF Steady

LEMMA AfterReturnLeader ==
  ASSUME Typed, AfterFailure, NEW t \in Node, ReturnLeader(t)
  PROVE  AfterFailure'
<1> USE DEF AfterFailure
<1> DEFINE n == lock[t]
           v == leaderID[t]
<1>h. /\ t \in Others /\ n # Nobody /\ probe[t].done
      /\ nodes' = [nodes EXCEPT ![t] = probe[t].list]
      /\ UNCHANGED late
      /\ ReturnVote(t, v)
  BY DEF ReturnLeader
<1>a. /\ n \in Others /\ n # t
      /\ step[n] = "wait"
      /\ ~Candidate(t) /\ Known(t)
      /\ t \in probe[t].list
      /\ \A u \in Others : lock[u] = n => u = t
      /\ Follower(t) \/ Decided(t)
  <2>1. /\ n \in Others /\ step[n] = "wait" /\ t \in probe[t].list
        /\ \A u \in Others : lock[u] = n => u = t
        /\ leaderAddr[t] \notin {Bootstrap, t}
    BY <1>h DEF Locks, ListsAreKnown
  <2>2. n # t
    BY <1>h DEF Typed, AsksOthers
  <2>3. Follower(t) \/ Decided(t)
    BY <1>h, <2>1 DEF Roles, Leader, Undecided
  <2>4. ~Candidate(t) /\ Known(t)
    BY <2>1, <2>3, NobodyIsNoNode, ElectionAssumption
       DEF Follower, Decided, Candidate, Deciding, Known, Others
  <2> QED
    BY <2>1, <2>2, <2>3, <2>4
<1>r. /\ t \in Others
      /\ lock' = [lock EXCEPT ![t] = Nobody]
      /\ probe' = [probe EXCEPT ![t] = NoProbe]
      /\ votes' = [votes EXCEPT ![n] = @ \cup {v}]
      /\ step' = [step EXCEPT ![n] = "ask"]
      /\ UNCHANGED <<alive, leaderID, leaderAddr, isLeader, heard,
                     conn, stale, todo, resp>>
  BY <1>h, <1>a DEF ReturnVote
<1>w. ~Waiting
  BY <1>h, NotWaiting DEF Idle
<1>k. lock[t] # Nobody /\ probe[t].done
  BY <1>h
<1> HIDE DEF n, v
<1>b. /\ nodes' = [nodes EXCEPT ![t] = probe[t].list]
      /\ UNCHANGED late
  BY <1>h
<1>1. Steady
  BY <1>a, <1>b, <1>r, <1>w
     DEF Steady, Candidate, Deciding, Known, List, Typed, TypeOK, Others,
         NoProbe
<1>2. Acquainted'
  BY <1>1, SteadyAcquainted
<1>3. (Waiting => AllIdle)'
  BY <1>a, <1>b, <1>r, <1>w, <1>1
     DEF Waiting, AllIdle, Idle, Typed, TypeOK, Others, NoProbe
<1>4. ListsAreKnown'
  BY <1>a, <1>b, <1>r, <1>w, <1>1
     DEF ListsAreKnown, Steady, Typed, TypeOK, Others, NoProbe
<1>5. NothingForgotten'
  BY <1>a, <1>b, <1>r, <1>w, <1>1
     DEF NothingForgotten, ListsAreKnown, Steady, Typed, TypeOK, Others,
         NoProbe
<1>6. Roles'
  BY <1>a, <1>b, <1>r, <1>w, <1>1
     DEF Roles, Follower, Leader, Undecided, Decided, Deciding, Steady, Typed,
         TypeOK, Others,
         NoProbe
<1>7. Confirming'
  <2>1. /\ \A k \in Others : k # t => nodes'[k] = nodes[k]
        /\ nodes'[t] = probe[t].list
        /\ \A k \in Others : k # t =>
             lock'[k] = lock[k] /\ probe'[k] = probe[k]
        /\ lock'[t] = Nobody
        /\ \A k \in Others : Deciding(k)' => /\ Deciding(k)
                                           /\ votes'[k] = votes[k]
                                           /\ step'[k] = step[k]
    BY <1>a, <1>b, <1>r DEF Deciding, Typed, TypeOK, Others
  <2>2. ASSUME NEW k \in Others, NEW e \in Others, Deciding(k)', Decides(k, e)
        PROVE  Decides(k, e)'
    BY <1>a, <1>k, <1>r, <2>1, <2>2 DEF Decides
  <2> QED
    BY <2>1, <2>2 DEF Confirming
<1>8. Locks'
  BY <1>a, <1>b, <1>r, <1>w, <1>1 DEF Locks, Typed, TypeOK, Others, NoProbe
<1>9. Heartbeats'
  BY <1>a, <1>b, <1>r, <1>w, <1>1
     DEF Heartbeats, Steady, Typed, TypeOK, Others, NoProbe
<1>10. Asked'
  <2>1. ASSUME NEW k \in Others, NEW b \in Others,
               Candidate(k)', Candidate(b)', k # b,
               step'[k] \in {"ask", "wait"},
               b \in nodes'[k] \ todo'[k], lock'[b] # k
        PROVE  Answered(k, b)'
    <3>1. Candidate(k) /\ Candidate(b) /\ (k \in List(b)' <=> k \in List(b))
      BY <1>1, <2>1 DEF Steady
    <3>2. /\ step[k] \in {"ask", "wait"}
          /\ votes[k] \subseteq votes'[k]
          /\ b \in nodes[k] \ todo[k]
      BY <1>a, <1>b, <1>r, <2>1, <3>1 DEF Typed, TypeOK, Others
    <3>3. lock[b] # k
      BY <1>a, <1>b, <1>r, <2>1, <3>1 DEF Typed, TypeOK, Others
    <3>4. Answered(k, b) /\ nodes'[b] = nodes[b]
      BY <1>a, <1>b, <2>1, <3>1, <3>2, <3>3 DEF Asked, Typed, TypeOK, Others
    <3> QED
      BY <1>b, <3>1, <3>2, <3>4 DEF Answered
  <2> QED
    BY <2>1 DEF Asked
<1>11. Elections'
  <2>1. \A k \in Others : Won(k)' => Won(k) /\ Candidate(k)'
    BY <1>a, <1>b, <1>r, <1>w
       DEF Won, Candidate, Deciding, Roles, Leader, Follower, Undecided,
           Decided, Typed, TypeOK,
           Others, NoProbe
  <2> QED
    BY <1>1, <2>1, SteadyElections
<1> QED
  BY <1>1, <1>2, <1>3, <1>4, <1>5, <1>6, <1>7, <1>8, <1>9, <1>10, <1>11
     DEF Steady

LEMMA AfterReturnSmallest ==
  ASSUME OneFailure, Typed, AfterFailure, NEW t \in Node, ReturnSmallest(t)
  PROVE  AfterFailure'
<1> USE DEF AfterFailure
<1> DEFINE n == lock[t]
           v == Smallest(t)
           l == probe[t].leader
<1>h. /\ t \in Others /\ n # Nobody
      /\ Fails(t, l) \/ Entangled(t) \/ TimesOut(t, l, n)
      /\ UNCHANGED nodes
      /\ ReturnVote(t, v)
  BY DEF ReturnSmallest
<1>a. /\ n = lock[t] /\ n \in Others /\ n # t
      /\ step[n] = "wait"
      /\ \A u \in Others : lock[u] = n => u = t
      /\ l \in {Bootstrap, leaderAddr[t]}
      /\ l = Bootstrap => t \in nodes[t]
  BY <1>h DEF Locks, Typed, AsksOthers
<1>c. Known(t) /\ (Candidate(t) => l \in {Bootstrap, t} /\ List(t) = nodes[t])
  <2>1. ~Undecided(t)
    BY <1>h DEF Undecided
  <2> QED
    BY <1>h, <1>a, <2>1
       DEF Roles, Leader, Follower, Decided, Others, Candidate, Deciding,
           Known,
           List
<1>d. l = Bootstrap \/ (l \in Others /\ Known(l))
  <2>1. CASE Decided(t) /\ l # Bootstrap
    <3>1. Deciding(t) /\ votes[t] = {l}
      BY <1>a, <2>1 DEF Decided, Deciding
    <3>2. PICK e \in Others : Decides(t, e)
      BY <1>h, <3>1 DEF Confirming
    <3>3. e = l /\ l \in nodes[t]
      BY <3>1, <3>2 DEF Decides
    <3> QED
      BY <1>h, <3>2, <3>3 DEF ListsAreKnown
  <2>2. CASE ~Decided(t)
    BY <1>h, <1>a, <2>2 DEF Roles, Leader, Follower, Undecided, Known
  <2> QED
    BY <2>1, <2>2
<1>b. /\ \/ l = Bootstrap /\ UNCHANGED late
         \/ l \in Others /\ late' = late \cup {<<t, l>>}
      /\ UNCHANGED nodes
  BY <1>h, <1>d, ElectionAssumption
     DEF OneFailure, Fails, Entangled, TimesOut, InQueue, Locks, Others
<1>s. /\ v \in Node /\ v <= t
      /\ v = t \/ v \in nodes[t]
  BY SmallestVote DEF Typed
<1>r. /\ t \in Others
      /\ lock' = [lock EXCEPT ![t] = Nobody]
      /\ probe' = [probe EXCEPT ![t] = NoProbe]
      /\ votes' = [votes EXCEPT ![n] = @ \cup {v}]
      /\ step' = [step EXCEPT ![n] = "ask"]
      /\ UNCHANGED <<alive, leaderID, leaderAddr, isLeader, heard,
                     conn, stale, todo, resp>>
  BY <1>h, <1>a DEF ReturnVote
<1>w. ~Waiting
  BY <1>h, NotWaiting DEF Idle
<1> HIDE DEF n, v, l
<1> USE <1>c, <1>d
<1>1. Steady
  BY <1>a, <1>b, <1>r, <1>w
     DEF Steady, Candidate, Deciding, Known, List, Typed, TypeOK, Others,
         NoProbe
<1>2. Acquainted'
  BY <1>1, SteadyAcquainted
<1>3. (Waiting => AllIdle)'
  BY <1>a, <1>b, <1>r, <1>w, <1>1
     DEF Waiting, AllIdle, Idle, Typed, TypeOK, Others, NoProbe
<1>4. ListsAreKnown'
  BY <1>a, <1>b, <1>r, <1>w, <1>1
     DEF ListsAreKnown, Steady, Typed, TypeOK, Others, NoProbe
<1>5. NothingForgotten'
  BY <1>a, <1>b, <1>r, <1>w, <1>1
     DEF NothingForgotten, ListsAreKnown, Steady, Typed, TypeOK, Others,
         NoProbe
<1>6. Roles'
  BY <1>a, <1>b, <1>r, <1>w, <1>1
     DEF Roles, Follower, Leader, Undecided, Decided, Deciding, Steady, Typed,
         TypeOK, Others,
         NoProbe
<1>7. Confirming'
  BY <1>a, <1>b, <1>r, StillConfirming
     DEF Deciding, Typed, TypeOK, Others, NoProbe
<1>8. Locks'
  BY <1>a, <1>b, <1>r, <1>w, <1>1 DEF Locks, Typed, TypeOK, Others, NoProbe
<1>9. Heartbeats'
  BY <1>a, <1>b, <1>r, <1>w, <1>1
     DEF Heartbeats, Steady, Typed, TypeOK, Others, NoProbe
<1>10. Asked'
  <2>1. ASSUME NEW k \in Others, NEW b \in Others,
               Candidate(k)', Candidate(b)', k # b,
               step'[k] \in {"ask", "wait"},
               b \in nodes'[k] \ todo'[k], lock'[b] # k
        PROVE  Answered(k, b)'
    <3>1. Candidate(k) /\ Candidate(b) /\ (k \in List(b)' <=> k \in List(b))
      BY <1>1, <2>1 DEF Steady
    <3>2. /\ step[k] \in {"ask", "wait"}
          /\ votes[k] \subseteq votes'[k]
          /\ b \in nodes[k] \ todo[k]
      BY <1>a, <1>b, <1>r, <2>1, <3>1 DEF Typed, TypeOK, Others
    <3>3. CASE lock[b] # k
      <4>1. Answered(k, b)
        BY <2>1, <3>1, <3>2, <3>3 DEF Asked
      <4> QED
        BY <1>b, <3>1, <3>2, <4>1 DEF Answered
    <3>4. CASE lock[b] = k
      <4>1. k = n /\ b = t /\ v \in votes'[n]
        BY <1>a, <1>r, <2>1, <3>4 DEF Typed, TypeOK, Others
      <4>2. l \in {Bootstrap, t} /\ List(t) = nodes[t]
        BY <3>1, <4>1
      <4>3. t \in nodes'[t] \/ <<t, t>> \in late'
        BY <1>a, <1>b, <4>2
      <4> QED
        BY <1>a, <1>s, <3>1, <4>1, <4>2, <4>3 DEF Answered
    <3> QED
      BY <3>3, <3>4
  <2> QED
    BY <2>1 DEF Asked
<1>11. Elections'
  <2>1. \A k \in Others : Won(k)' => Won(k) /\ Candidate(k)'
    BY <1>a, <1>b, <1>r, <1>w
       DEF Won, Candidate, Deciding, Roles, Leader, Follower, Undecided,
           Decided, Typed, TypeOK,
           Others, NoProbe
  <2> QED
    BY <1>1, <2>1, SteadyElections
<1> QED
  BY <1>1, <1>2, <1>3, <1>4, <1>5, <1>6, <1>7, <1>8, <1>9, <1>10, <1>11
     DEF Steady

LEMMA AfterRemoveElected ==
  ASSUME OneFailure, Typed, AfterFailure, NEW n \in Node, RemoveElected(n)
  PROVE  AfterFailure'
<1> USE DEF AfterFailure
<1>h. n \in Others /\ Elected(n) \notin nodes[n] /\ UNCHANGED late
  <2>1. n \in Others /\ Undecided(n)
    BY DEF RemoveElected, Counted, Roles, Follower, Leader, Decided
  <2>2. ASSUME Elected(n) \in nodes[n]
        PROVE  FALSE
    <3>1. Elected(n) \in alive /\ Elected(n) \in Others
      BY <2>1, <2>2 DEF ListsAreKnown
    <3>2. InQueue(n, Elected(n), n)
      BY <2>2, <3>1 DEF RemoveElected, Fails, TimesOut, OneFailure
    <3>3. CASE Elected(n) = n
      BY <2>1, <3>2, <3>3, NobodyIsNoNode DEF InQueue, Askers, Undecided
    <3>4. CASE Elected(n) # n
      BY <2>1, <3>1, <3>2, <3>4, NotCrowded DEF InQueue
    <3> QED
      BY <3>3, <3>4
  <2> QED
    BY <2>1, <2>2 DEF RemoveElected
<1>a. /\ n \in Others
      /\ step[n] = "ask"
      /\ step' = [step EXCEPT ![n] = "elect"]
      /\ UNCHANGED <<alive, leaderID, leaderAddr, isLeader, heard, handler,
                     conn, stale, todo, votes, resp>>
  BY <1>h DEF RemoveElected, Counted, handler
<1>b. UNCHANGED nodes
  <2>1. nodes' = [nodes EXCEPT ![n] = @ \ {Elected(n)}]
    BY DEF RemoveElected
  <2> QED
    BY <1>h, <2>1 DEF Typed, TypeOK
<1>1. Steady
  BY <1>a, <1>b
     DEF Steady, Candidate, Deciding, Known, List, Typed, TypeOK, Others,
         handler
<1>2. Acquainted'
  BY <1>1, SteadyAcquainted
<1>3. (Waiting => AllIdle)'
  BY <1>a, <1>b, <1>1
     DEF Waiting, AllIdle, Idle, Typed, TypeOK, Others, handler
<1>4. ListsAreKnown'
  BY <1>a, <1>b, <1>1 DEF ListsAreKnown, Steady, Typed, TypeOK, Others, handler
<1>5. NothingForgotten'
  BY <1>a, <1>b, <1>1
     DEF NothingForgotten, ListsAreKnown, Steady, Typed, TypeOK, Others,
         handler
<1>6. Roles'
  BY <1>a, <1>b, <1>1
     DEF Roles, Follower, Leader, Undecided, Decided, Deciding, Steady, Typed,
         TypeOK, Others,
         handler
<1>7. Confirming'
  BY <1>a, <1>b, <1>1 DEF Confirming, Decides, Deciding, Typed, TypeOK,
                          Others, handler
<1>8. Locks'
  BY <1>a, <1>b, <1>1 DEF Locks, Typed, TypeOK, Others, handler
<1>9. Heartbeats'
  BY <1>a, <1>b, <1>1 DEF Heartbeats, Steady, Typed, TypeOK, Others, handler
<1>10. Asked'
  BY <1>a, <1>b, <1>1
     DEF Asked, Answered, Steady, Typed, TypeOK, Others, handler
<1>11. Elections'
  <2>1. \A k \in Others : Won(k)' => Won(k) /\ Candidate(k)'
    BY <1>a, <1>b
       DEF Won, Candidate, Deciding, Roles, Leader, Follower, Undecided,
           Decided, Typed, TypeOK,
           Others, handler
  <2> QED
    BY <1>1, <2>1, SteadyElections
<1> QED
  BY <1>1, <1>2, <1>3, <1>4, <1>5, <1>6, <1>7, <1>8, <1>9, <1>10, <1>11
     DEF Steady

LEMMA AfterLateHeartbeat ==
  ASSUME Typed, AfterFailure, NEW a \in Node, NEW b \in Node,
         LateHeartbeat(a, b)
  PROVE  AfterFailure'
<1> USE DEF AfterFailure
<1>a. /\ a \in Others /\ b \in Others /\ Known(a) /\ Known(b)
      /\ a = b \/ ~Candidate(a)
      /\ <<a, b>> \in late
  BY DEF LateHeartbeat, Heartbeats
<1>b. /\ Heartbeat(a, b)
      /\ late' = late \ {<<a, b>>}
      /\ UNCHANGED <<alive, leaderID, leaderAddr, isLeader, lock, probe,
                     step, conn, stale, votes, resp>>
  BY DEF LateHeartbeat
<1>w. ~Waiting
  BY <1>a DEF AllIdle
<1>d. /\ heard' = [heard EXCEPT ![b] = @ \cup {a}]
      /\ nodes' = [nodes EXCEPT ![b] = @ \cup {a}]
      /\ \/ UNCHANGED todo
         \/ a # b /\ todo' = [todo EXCEPT ![b] = @ \cup {a}]
  BY <1>b DEF Heartbeat
<1>1. Steady
  BY <1>a, <1>b, <1>w, <1>d
     DEF Steady, Candidate, Deciding, Known, List, Typed, TypeOK, Others
<1>2. Acquainted'
  BY <1>1, SteadyAcquainted
<1>3. (Waiting => AllIdle)'
  BY <1>a, <1>b, <1>w, <1>d, <1>1
     DEF Waiting, AllIdle, Idle, Typed, TypeOK, Others
<1>4. ListsAreKnown'
  BY <1>a, <1>b, <1>w, <1>d, <1>1
     DEF ListsAreKnown, Steady, Typed, TypeOK, Others
<1>5. NothingForgotten'
  <2>1. \A k \in Others : Candidate(k) => step[k] # "adopt"
    BY <1>w DEF Candidate, Waiting
  <2>2. \A k \in Others : Candidate(k)' => Candidate(k)
    BY <1>1 DEF Steady
  <2>3. /\ \A k \in Others : k # b => nodes'[k] = nodes[k]
        /\ nodes'[b] = nodes[b] \cup {a}
    BY <1>a, <1>d DEF Typed, TypeOK, Others
  <2>4. /\ \A k \in Others : nodes[k] \subseteq Others
        /\ step[b] = "confirm" => b \in resp[b]
    BY <1>a DEF ListsAreKnown
  <2> QED
    BY <1>a, <1>b, <2>1, <2>2, <2>3, <2>4 DEF NothingForgotten
<1>6. Roles'
  BY <1>a, <1>b, <1>w, <1>d, <1>1
     DEF Roles, Follower, Leader, Undecided, Decided, Deciding, Steady,
         Waiting, Known,
         Typed, TypeOK, Others
<1>7. Confirming'
  BY <1>a, <1>b, <1>d, StillConfirming
     DEF Deciding, Heartbeat, Typed, TypeOK, Others
<1>8. Locks'
  BY <1>a, <1>b, <1>w, <1>d, <1>1 DEF Locks, Typed, TypeOK, Others
<1>9. Heartbeats'
  BY <1>a, <1>b, <1>w, <1>d, <1>1 DEF Heartbeats, Steady, Typed, TypeOK, Others
<1>10. Asked'
  BY <1>a, <1>b, <1>w, <1>d, <1>1
     DEF Asked, Answered, Steady, Typed, TypeOK, Others
<1>11. Elections'
  <2>1. \A k \in Others : Won(k)' => Won(k) /\ Candidate(k)'
    BY <1>a, <1>b, <1>w, <1>d
       DEF Won, Candidate, Deciding, Roles, Leader, Follower, Undecided,
           Decided, Typed, TypeOK,
           Others
  <2> QED
    BY <1>1, <2>1, SteadyElections
<1> QED
  BY <1>1, <1>2, <1>3, <1>4, <1>5, <1>6, <1>7, <1>8, <1>9, <1>10, <1>11
     DEF Steady

LEMMA AfterCleanup ==
  ASSUME OneFailure, Typed, AfterFailure, NEW l \in Node, NEW d \in Node,
         CleanupInactiveNodes(l, d)
  PROVE  AfterFailure'
<1> USE DEF AfterFailure
<1>a. /\ l \in Others /\ Leader(l)
      /\ d = l \/ ~Candidate(d)
      /\ d \in Others
      /\ heard' = [heard EXCEPT ![l] = @ \ {d}]
      /\ nodes' = [nodes EXCEPT ![l] = @ \ {d}]
      /\ UNCHANGED <<alive, leaderID, leaderAddr, isLeader, handler, client>>
  BY DEF CleanupInactiveNodes, Roles, Follower, Undecided, Decided,
         Leader, Heartbeats
<1>b. ASSUME NEW n \in Others, n # l, d = l
      PROVE  ~HasAsked(n, l)
  <2>1. HasAsked(n, l) => <<n, l>> \in Queueing /\ Crowded(l, n)
    BY <1>a, <1>b DEF CleanupInactiveNodes, Quiet, OneFailure
  <2> QED
    BY <1>a, <1>b, <2>1, NotCrowded DEF Others
<1>c. lock[l] = Nobody /\ (d # l => ~Candidate(d))
  BY <1>a DEF CleanupInactiveNodes, Serves
<1>d. /\ \A k \in Others : k # l => nodes'[k] = nodes[k]
      /\ nodes'[l] = nodes[l] \ {d}
      /\ UNCHANGED <<step, conn, stale, todo, votes, resp, lock, probe, late>>
  BY <1>a DEF Typed, TypeOK, Others, client, handler
<1>1. Steady
  <2>1. \A k \in Others : List(k)' = IF k = l THEN List(k) \ {d} ELSE List(k)
    BY <1>a DEF List, Leader, Typed, TypeOK, Others, client
  <2>2. \A k \in Others : Candidate(k)' <=> Candidate(k)
    BY <1>a DEF Candidate, Deciding, client
  <2>3. \A k \in Others : Known(k)' <=> Known(k)
    BY <1>a DEF Known, Leader, Typed, TypeOK, Others, client
  <2> QED
    BY <1>a, <2>1, <2>2, <2>3 DEF Steady
<1>2. Acquainted'
  BY <1>1, SteadyAcquainted
<1>3. (Waiting => AllIdle)'
  BY <1>a, <1>b, <1>1
     DEF Waiting, AllIdle, Idle, Typed, TypeOK, Others, handler, client
<1>4. ListsAreKnown'
  BY <1>a, <1>b, <1>1
     DEF ListsAreKnown, Steady, Typed, TypeOK, Others, handler, client
<1>5. NothingForgotten'
  BY <1>a, <1>b, <1>1
     DEF NothingForgotten, ListsAreKnown, Steady, Typed, TypeOK, Others,
         handler, client
<1>6. Roles'
  BY <1>a, <1>b, <1>1
     DEF Roles, Follower, Leader, Undecided, Decided, Deciding, Steady, Typed,
         TypeOK, Others,
         handler, client
<1>7. Confirming'
  <2>1. ASSUME NEW n \in Others, NEW e \in Others, Deciding(n), Decides(n, e)
        PROVE  Decides(n, e)'
    <3>1. n # l
      BY <1>a, <2>1 DEF Leader, Deciding
    <3>2. e = l => d # l
      BY <1>b, <2>1, <3>1 DEF HasAsked, Decides
    <3> QED
      BY <1>d, <2>1, <3>1, <3>2 DEF Decides
  <2> QED
    BY <1>d, <2>1 DEF Confirming, Deciding
<1>8. Locks'
  BY <1>a, <1>c, <1>d DEF Locks
<1>9. Heartbeats'
  BY <1>a, <1>b, <1>1
     DEF Heartbeats, Steady, Typed, TypeOK, Others, handler, client
<1>10. Asked'
  <2>1. ASSUME NEW n \in Others, NEW b \in Others,
               Candidate(n)', Candidate(b)', n # b,
               step'[n] \in {"ask", "wait"},
               b \in nodes'[n] \ todo'[n], lock'[b] # n
        PROVE  Answered(n, b)'
    <3>1. Candidate(n) /\ Candidate(b) /\ (n \in List(b)' <=> n \in List(b))
      BY <1>1, <2>1 DEF Steady
    <3>2. n # l /\ b \in nodes[n] \ todo[n]
      BY <1>a, <1>d, <2>1 DEF Leader
    <3>3. b = l => d # l
      BY <1>b, <1>d, <2>1, <3>2 DEF HasAsked
    <3>4. Answered(n, b)
      BY <1>d, <2>1, <3>1, <3>2 DEF Asked
    <3> QED
      BY <1>d, <3>1, <3>3, <3>4 DEF Answered
  <2> QED
    BY <2>1 DEF Asked
<1>11. Elections'
  <2>1. \A k \in Others : Won(k)' => Won(k) /\ Candidate(k)'
    BY <1>a, <1>b
       DEF Won, Candidate, Deciding, Roles, Leader, Follower, Undecided,
           Decided, Typed, TypeOK,
           Others, handler, client
  <2> QED
    BY <1>1, <2>1, SteadyElections
<1> QED
  BY <1>1, <1>2, <1>3, <1>4, <1>5, <1>6, <1>7, <1>8, <1>9, <1>10, <1>11
     DEF Steady

LEMMA AfterConfirmSucceeds ==
  ASSUME Typed, AfterFailure, NEW n \in Node, ConfirmSucceeds(n)
  PROVE  AfterFailure'
<1> USE DEF AfterFailure
<1>h. n \in Others /\ step[n] = "confirm"
  BY DEF ConfirmSucceeds
<1>e. PICK e \in Others : Decides(n, e)
  BY <1>h DEF Confirming, Deciding
<1>a. /\ n \in Others /\ step[n] = "confirm"
      /\ n \in resp[n] /\ e \in resp[n]
      /\ Undecided(n) /\ Decides(n, e)
  BY <1>h, <1>e
     DEF ListsAreKnown, Roles, Follower, Leader, Decided, Decides
<1>b. /\ nodes' = [nodes EXCEPT ![n] = resp[n]]
      /\ step' = [step EXCEPT ![n] = "elected"]
      /\ resp' = [resp EXCEPT ![n] = {}]
      /\ UNCHANGED <<alive, leaderID, leaderAddr, isLeader, heard, handler,
                     conn, stale, todo, votes>>
  BY DEF ConfirmSucceeds
<1>w. ~Waiting
  BY <1>a, NotWaiting DEF Idle
<1>1. Steady
  BY <1>a, <1>b, <1>w
     DEF Steady, Candidate, Deciding, Known, List, Decided, Decides, Typed,
         TypeOK, Others, handler
<1>2. Acquainted'
  BY <1>1, SteadyAcquainted
<1>3. (Waiting => AllIdle)'
  BY <1>a, <1>b, <1>w DEF Waiting, Typed, TypeOK, Others
<1>4. ListsAreKnown'
  BY <1>a, <1>b, <1>w, <1>1
     DEF ListsAreKnown, Steady, Typed, TypeOK, Others, handler
<1>5. NothingForgotten'
  BY <1>a, <1>b, <1>w, <1>1
     DEF NothingForgotten, ListsAreKnown, Steady, Typed, TypeOK, Others,
         handler
<1>6. Roles'
  BY <1>a, <1>b, <1>w, <1>1
     DEF Roles, Follower, Leader, Undecided, Decided, Deciding, Steady,
         Decides, Typed, TypeOK, Others, handler
<1>7. Confirming'
  <2>1. /\ \A k \in Others : k # n => step'[k] = step[k] /\ resp'[k] = resp[k]
        /\ \A k \in Others : k # n => nodes'[k] = nodes[k]
        /\ nodes'[n] = resp[n]
        /\ step'[n] = "elected"
    BY <1>a, <1>b DEF Typed, TypeOK, Others
  <2>2. Decides(n, e)'
    BY <1>a, <1>b, <2>1 DEF Decides, Undecided, handler
  <2>3. ASSUME NEW k \in Others, k # n, NEW f \in Others, Decides(k, f)
        PROVE  Decides(k, f)'
    BY <1>a, <1>b, <2>1, <2>3 DEF Decides, handler
  <2> QED
    BY <1>a, <2>1, <2>2, <2>3 DEF Confirming, Deciding
<1>8. Locks'
  BY <1>a, <1>b, <1>w, <1>1
     DEF Locks, Decided, Undecided, Typed, TypeOK, Others, handler
<1>9. Heartbeats'
  BY <1>a, <1>b, <1>w, <1>1
     DEF Heartbeats, Steady, Typed, TypeOK, Others, handler
<1>10. Asked'
  BY <1>a, <1>b, <1>w, <1>1
     DEF Asked, Answered, Steady, Typed, TypeOK, Others, handler
<1>11. Elections'
  <2>1. \A k \in Others : Won(k)' => Won(k) /\ Candidate(k)'
    BY <1>a, <1>b, <1>w
       DEF Won, Candidate, Deciding, Roles, Leader, Follower, Undecided,
           Decided, Decides, Typed, TypeOK, Others, handler
  <2> QED
    BY <1>1, <2>1, SteadyElections
<1> QED
  BY <1>1, <1>2, <1>3, <1>4, <1>5, <1>6, <1>7, <1>8, <1>9, <1>10, <1>11
     DEF Steady

LEMMA AfterSetLeaderID ==
  ASSUME Typed, AfterFailure, NEW n \in Node, SetLeaderID(n)
  PROVE  AfterFailure'
<1> USE DEF AfterFailure
<1>h. n \in Others /\ step[n] = "elected"
  BY DEF SetLeaderID
<1>e. PICK e \in Others : Decides(n, e)
  BY <1>h DEF Confirming, Deciding
<1>a. /\ n \in Others /\ step[n] = "elected"
      /\ Undecided(n) /\ Decides(n, e) /\ n \in nodes[n]
  BY <1>h, <1>e
     DEF Roles, Follower, Leader, Undecided, Decided, Decides
<1>b. /\ leaderID' = [leaderID EXCEPT ![n] = e]
      /\ step' = [step EXCEPT ![n] = "named"]
      /\ UNCHANGED <<alive, nodes, leaderAddr, isLeader, heard, handler,
                     conn, stale, todo, votes, resp>>
  BY <1>e, ElectedOne DEF SetLeaderID, Decides
<1>w. ~Waiting
  BY <1>a, NotWaiting DEF Idle
<1>1. Steady
  BY <1>a, <1>b, <1>w
     DEF Steady, Candidate, Deciding, Known, List, Decided, Decides, Typed,
         TypeOK, Others, handler
<1>2. Acquainted'
  BY <1>1, SteadyAcquainted
<1>3. (Waiting => AllIdle)'
  BY <1>a, <1>b, <1>w DEF Waiting, Typed, TypeOK, Others
<1>4. ListsAreKnown'
  BY <1>a, <1>b, <1>w, <1>1
     DEF ListsAreKnown, Steady, Typed, TypeOK, Others, handler
<1>5. NothingForgotten'
  BY <1>a, <1>b, <1>w, <1>1
     DEF NothingForgotten, ListsAreKnown, Steady, Typed, TypeOK, Others,
         handler
<1>6. Roles'
  BY <1>a, <1>b, <1>w, <1>1
     DEF Roles, Follower, Leader, Undecided, Decided, Deciding, Steady,
         Decides, Typed, TypeOK, Others, handler
<1>7. Confirming'
  BY <1>a, <1>b, StillConfirming
     DEF Deciding, Typed, TypeOK, Others, handler
<1>8. Locks'
  BY <1>a, <1>b, <1>w, <1>1
     DEF Locks, Decided, Undecided, Typed, TypeOK, Others, handler
<1>9. Heartbeats'
  BY <1>a, <1>b, <1>w, <1>1
     DEF Heartbeats, Steady, Typed, TypeOK, Others, handler
<1>10. Asked'
  BY <1>a, <1>b, <1>w, <1>1
     DEF Asked, Answered, Steady, Typed, TypeOK, Others, handler
<1>11. Elections'
  <2>1. \A k \in Others : Won(k)' => Won(k) /\ Candidate(k)'
    BY <1>a, <1>b, <1>w
       DEF Won, Candidate, Deciding, Roles, Leader, Follower, Undecided,
           Decided, Decides, Typed, TypeOK, Others, handler
  <2> QED
    BY <1>1, <2>1, SteadyElections
<1> QED
  BY <1>1, <1>2, <1>3, <1>4, <1>5, <1>6, <1>7, <1>8, <1>9, <1>10, <1>11
     DEF Steady

LEMMA AfterSetLeaderAddress ==
  ASSUME Typed, AfterFailure, NEW n \in Node, SetLeaderAddress(n)
  PROVE  AfterFailure'
<1> USE DEF AfterFailure
<1>h. n \in Others /\ step[n] = "named"
  BY DEF SetLeaderAddress
<1>e. PICK e \in Others : Decides(n, e)
  BY <1>h DEF Confirming, Deciding
<1>a. /\ n \in Others /\ step[n] = "named"
      /\ Decided(n) /\ Decides(n, e) /\ leaderID[n] = e
  BY <1>h, <1>e DEF Roles, Follower, Leader, Undecided, Decided, Decides
<1>b. /\ leaderAddr' = [leaderAddr EXCEPT ![n] = e]
      /\ step' = [step EXCEPT ![n] = "addressed"]
      /\ UNCHANGED <<alive, nodes, leaderID, isLeader, heard, handler,
                     conn, stale, todo, votes, resp>>
  BY <1>e, ElectedOne DEF SetLeaderAddress, Decides
<1>w. ~Waiting
  BY <1>a, NotWaiting DEF Idle
<1>1. Steady
  BY <1>a, <1>b, <1>w
     DEF Steady, Candidate, Deciding, Known, List, Decided, Decides, Typed,
         TypeOK, Others, handler
<1>2. Acquainted'
  BY <1>1, SteadyAcquainted
<1>3. (Waiting => AllIdle)'
  BY <1>a, <1>b, <1>w DEF Waiting, Typed, TypeOK, Others
<1>4. ListsAreKnown'
  BY <1>a, <1>b, <1>w, <1>1
     DEF ListsAreKnown, Steady, Typed, TypeOK, Others, handler
<1>5. NothingForgotten'
  BY <1>a, <1>b, <1>w, <1>1
     DEF NothingForgotten, ListsAreKnown, Steady, Typed, TypeOK, Others,
         handler
<1>6. Roles'
  BY <1>a, <1>b, <1>w, <1>1
     DEF Roles, Follower, Leader, Undecided, Decided, Deciding, Steady,
         Decides, Typed, TypeOK, Others, handler
<1>7. Confirming'
  BY <1>a, <1>b, <1>w, <1>1
     DEF Confirming, Decides, Deciding, Typed, TypeOK, Others, handler
<1>8. Locks'
  BY <1>a, <1>b, <1>w, <1>1
     DEF Locks, Decided, Undecided, Typed, TypeOK, Others, handler
<1>9. Heartbeats'
  BY <1>a, <1>b, <1>w, <1>1
     DEF Heartbeats, Steady, Typed, TypeOK, Others, handler
<1>10. Asked'
  BY <1>a, <1>b, <1>w, <1>1
     DEF Asked, Answered, Steady, Typed, TypeOK, Others, handler
<1>11. Elections'
  <2>1. \A k \in Others : Won(k)' => Won(k) /\ Candidate(k)'
    BY <1>a, <1>b, <1>w
       DEF Won, Candidate, Deciding, Roles, Leader, Follower, Undecided,
           Decided, Decides, Typed, TypeOK, Others, handler
  <2> QED
    BY <1>1, <2>1, SteadyElections
<1> QED
  BY <1>1, <1>2, <1>3, <1>4, <1>5, <1>6, <1>7, <1>8, <1>9, <1>10, <1>11
     DEF Steady

LEMMA AfterBecomeLeader ==
  ASSUME Typed, AfterFailure, NEW n \in Node, BecomeLeader(n)
  PROVE  AfterFailure'
<1> USE DEF AfterFailure
<1>h. n \in Others /\ step[n] = "addressed"
  BY DEF BecomeLeader
<1>e. PICK e \in Others : Decides(n, e)
  BY <1>h DEF Confirming, Deciding
<1>a. /\ n \in Others /\ step[n] = "addressed"
      /\ Decided(n) /\ leaderID[n] = n /\ votes[n] = {n}
  <2>1. Elected(n) = e /\ e = n /\ votes[n] = {n}
    BY <1>e, ElectedOne DEF Decides, BecomeLeader
  <2> QED
    BY <1>h, <2>1 DEF Roles, Follower, Leader, Undecided, Decided
<1>b. /\ isLeader' = [isLeader EXCEPT ![n] = TRUE]
      /\ step' = [step EXCEPT ![n] = "lead"]
      /\ votes' = [votes EXCEPT ![n] = {}]
      /\ UNCHANGED <<alive, nodes, leaderID, leaderAddr, heard, handler,
                     conn, stale, todo, resp>>
  BY DEF BecomeLeader
<1>w. ~Waiting
  BY <1>a, NotWaiting DEF Idle
<1>1. Steady
  BY <1>a, <1>b, <1>w
     DEF Steady, Candidate, Deciding, Known, List, Decided, Decides, Typed,
         TypeOK, Others, handler
<1>2. Acquainted'
  BY <1>1, SteadyAcquainted
<1>3. (Waiting => AllIdle)'
  BY <1>a, <1>b, <1>w DEF Waiting, Typed, TypeOK, Others
<1>4. ListsAreKnown'
  BY <1>a, <1>b, <1>w, <1>1
     DEF ListsAreKnown, Steady, Typed, TypeOK, Others, handler
<1>5. NothingForgotten'
  BY <1>a, <1>b, <1>w, <1>1
     DEF NothingForgotten, ListsAreKnown, Steady, Typed, TypeOK, Others,
         handler
<1>6. Roles'
  BY <1>a, <1>b, <1>w, <1>1
     DEF Roles, Follower, Leader, Undecided, Decided, Deciding, Steady,
         Decides, Typed, TypeOK, Others, handler
<1>7. Confirming'
  BY <1>a, <1>b, <1>w, <1>1
     DEF Confirming, Decides, Deciding, Typed, TypeOK, Others, handler
<1>8. Locks'
  BY <1>a, <1>b, <1>w, <1>1
     DEF Locks, Decided, Undecided, Typed, TypeOK, Others, handler
<1>9. Heartbeats'
  BY <1>a, <1>b, <1>w, <1>1
     DEF Heartbeats, Steady, Typed, TypeOK, Others, handler
<1>10. Asked'
  BY <1>a, <1>b, <1>w, <1>1
     DEF Asked, Answered, Steady, Typed, TypeOK, Others, handler
<1>11. Elections'
  <2>1. \A k \in Others : Won(k)' => Won(k) /\ Candidate(k)'
    BY <1>a, <1>b, <1>w
       DEF Won, Candidate, Deciding, Roles, Leader, Follower, Undecided,
           Decided, Decides, Typed, TypeOK, Others, handler
  <2> QED
    BY <1>1, <2>1, SteadyElections
<1> QED
  BY <1>1, <1>2, <1>3, <1>4, <1>5, <1>6, <1>7, <1>8, <1>9, <1>10, <1>11
     DEF Steady

LEMMA AfterFollowLeader ==
  ASSUME Typed, AfterFailure, NEW n \in Node, FollowLeader(n)
  PROVE  AfterFailure'
<1> USE DEF AfterFailure
<1>h. n \in Others /\ step[n] = "addressed"
  BY DEF FollowLeader
<1>e. PICK e \in Others : Decides(n, e)
  BY <1>h DEF Confirming, Deciding
<1>a. /\ n \in Others /\ step[n] = "addressed"
      /\ Decided(n) /\ leaderID[n] = e /\ votes[n] = {e} /\ e # n
      /\ e \in Others /\ Known(e)
  BY <1>h, <1>e, ElectedOne
     DEF Roles, Follower, Leader, Undecided, Decided, Decides, FollowLeader,
         ListsAreKnown
<1>b. /\ conn' = [conn EXCEPT ![n] = e]
      /\ step' = [step EXCEPT ![n] = "beat"]
      /\ votes' = [votes EXCEPT ![n] = {}]
      /\ UNCHANGED <<alive, cluster, handler, stale, todo, resp>>
  BY <1>e, ElectedOne DEF FollowLeader, Decides
<1> USE DEF cluster
<1>w. ~Waiting
  BY <1>a, NotWaiting DEF Idle
<1>1. Steady
  BY <1>a, <1>b, <1>w
     DEF Steady, Candidate, Deciding, Known, List, Decided, Decides, Typed,
         TypeOK, Others, handler
<1>2. Acquainted'
  BY <1>1, SteadyAcquainted
<1>3. (Waiting => AllIdle)'
  BY <1>a, <1>b, <1>w DEF Waiting, Typed, TypeOK, Others
<1>4. ListsAreKnown'
  BY <1>a, <1>b, <1>w, <1>1
     DEF ListsAreKnown, Steady, Typed, TypeOK, Others, handler
<1>5. NothingForgotten'
  BY <1>a, <1>b, <1>w, <1>1
     DEF NothingForgotten, ListsAreKnown, Steady, Typed, TypeOK, Others,
         handler
<1>6. Roles'
  BY <1>a, <1>b, <1>w, <1>1
     DEF Roles, Follower, Leader, Undecided, Decided, Deciding, Steady,
         Decides, Typed, TypeOK, Others, handler
<1>7. Confirming'
  BY <1>a, <1>b, <1>w, <1>1
     DEF Confirming, Decides, Deciding, Typed, TypeOK, Others, handler
<1>8. Locks'
  BY <1>a, <1>b, <1>w, <1>1
     DEF Locks, Decided, Undecided, Typed, TypeOK, Others, handler
<1>9. Heartbeats'
  BY <1>a, <1>b, <1>w, <1>1
     DEF Heartbeats, Steady, Typed, TypeOK, Others, handler
<1>10. Asked'
  BY <1>a, <1>b, <1>w, <1>1
     DEF Asked, Answered, Steady, Typed, TypeOK, Others, handler
<1>11. Elections'
  <2>1. \A k \in Others : Won(k)' => Won(k) /\ Candidate(k)'
    BY <1>a, <1>b, <1>w
       DEF Won, Candidate, Deciding, Roles, Leader, Follower, Undecided,
           Decided, Decides, Typed, TypeOK, Others, handler
  <2> QED
    BY <1>1, <2>1, SteadyElections
<1> QED
  BY <1>1, <1>2, <1>3, <1>4, <1>5, <1>6, <1>7, <1>8, <1>9, <1>10, <1>11
     DEF Steady

LEMMA OneVote ==
  ASSUME NEW S \in SUBSET Node, Cardinality(S) = 1
  PROVE  \E e \in Node : S = {e}
<1>1. IsFiniteSet(S)
  BY FS_Subset, ElectionAssumption
<1> QED
  BY <1>1, FS_Singleton

LEMMA AfterConfirmLeader ==
  ASSUME Typed, AfterFailure, NEW n \in Node, ConfirmLeader(n)
  PROVE  AfterFailure'
<1> USE DEF AfterFailure
<1>e. PICK e \in Node : votes[n] = {e}
  BY OneVote DEF ConfirmLeader, Typed, TypeOK
<1>b. /\ Counted(n)
      /\ e \in nodes[n]
      /\ Serves(e)
      /\ Heartbeat(n, e)
      /\ resp' = [resp EXCEPT ![n] = nodes[e] \cup {n}]
      /\ step' = [step EXCEPT ![n] = "confirm"]
      /\ UNCHANGED <<alive, leaderID, leaderAddr, isLeader, handler,
                     conn, stale, votes>>
  <2>1. Elected(n) = e
    BY <1>e, ElectedOne
  <2> QED
    BY <2>1 DEF ConfirmLeader, Response
<1>a. /\ n \in Others /\ e \in Others
      /\ step[n] = "ask" /\ todo[n] = {}
      /\ e \in nodes[n] /\ Known(n) /\ Known(e)
      /\ lock[e] = Nobody /\ <<e, e>> \notin late
      /\ Undecided(n) /\ Candidate(n) /\ lock[n] = Nobody
  BY <1>b DEF Counted, Serves, ListsAreKnown, Known, Roles, Leader, Follower,
              Undecided, Decided, Deciding, Candidate
<1>w. ~Waiting
  BY <1>a, NotWaiting DEF Idle
<1>d. /\ heard' = [heard EXCEPT ![e] = @ \cup {n}]
      /\ nodes' = [nodes EXCEPT ![e] = @ \cup {n}]
      /\ \/ UNCHANGED todo
         \/ e # n /\ todo' = [todo EXCEPT ![e] = @ \cup {n}]
  BY <1>b DEF Heartbeat
<1>f. \A k \in Others : lock[k] # n
  BY <1>a, NobodyIsNoNode DEF Locks, Others
<1>k. \A b \in Others :
        Candidate(b) /\ b # n /\ b \in nodes[n] => Answered(n, b)
  BY <1>a, <1>f DEF Asked
<1>g. e \in nodes[e]
  <2>1. CASE Leader(e) /\ e # n
    BY <1>a, <1>k, <2>1 DEF Leader, Candidate, Deciding, Answered
  <2>2. CASE ~Leader(e)
    BY <1>a, <1>w, <2>2
       DEF Roles, Follower, Undecided, Decided, Deciding, Known, Waiting,
           Candidate
  <2> QED
    BY <1>a, <2>1, <2>2
<1>1. Steady
  <2>1. \A k \in Others : Candidate(k)' <=> Candidate(k) /\ (k = n => e = n)
    BY <1>a, <1>b, <1>e DEF Candidate, Deciding, Typed, TypeOK, Others
  <2>2. /\ \A k \in Others : k # n =>
             step'[k] = step[k] /\ resp'[k] = resp[k]
        /\ step'[n] = "confirm"
        /\ resp'[n] = nodes[e] \cup {n}
        /\ \A k \in Others : k # e => nodes'[k] = nodes[k]
        /\ nodes'[e] = nodes[e] \cup {n}
    BY <1>a, <1>b, <1>d DEF Typed, TypeOK, Others
  <2>3. \A k \in Others : Known(k)' <=> Known(k)
    BY <1>a, <2>2 DEF Known
  <2>4. \A k \in Others : k # n => List(k) \subseteq List(k)'
                                  /\ List(k)' \subseteq List(k) \cup {n}
    BY <2>2 DEF List
  <2>5. e = n => List(n)' = List(n) \cup {n}
    BY <1>a, <2>2 DEF List
  <2>6. \A k \in Others : k # n /\ e = n => List(k)' = List(k)
    BY <2>2 DEF List
  <2> QED
    BY <1>b, <2>1, <2>3, <2>4, <2>5, <2>6 DEF Steady
<1>2. Acquainted'
  BY <1>1, SteadyAcquainted
<1>3. (Waiting => AllIdle)'
  BY <1>a, <1>b, <1>d, <1>e, <1>w, <1>1
     DEF Waiting, AllIdle, Idle, Typed, TypeOK, Others, handler
<1>4. ListsAreKnown'
  BY <1>a, <1>b, <1>d, <1>e, <1>w, <1>1
     DEF ListsAreKnown, Steady, Typed, TypeOK, Others, handler
<1>5. NothingForgotten'
  <2>1. \A k \in Others : Candidate(k) => step[k] # "adopt"
    BY <1>w DEF Candidate, Waiting
  <2>2. \A k \in Others : Candidate(k)' => Candidate(k)
    BY <1>1 DEF Steady
  <2>3. Candidate(n)' => e = n
    BY <1>a, <1>b, <1>e DEF Candidate, Deciding, Typed, TypeOK, Others
  <2>4. /\ \A k \in Others : k # e => nodes'[k] = nodes[k]
        /\ nodes'[e] = nodes[e] \cup {n}
        /\ resp'[n] = nodes[e] \cup {n}
        /\ step'[n] = "confirm"
        /\ \A k \in Others : k # n =>
             step'[k] = step[k] /\ resp'[k] = resp[k]
    BY <1>a, <1>b, <1>d DEF Typed, TypeOK, Others
  <2>5. \A k \in Others : nodes[k] \subseteq Others
    BY DEF ListsAreKnown
  <2> QED
    BY <1>a, <2>1, <2>2, <2>3, <2>4, <2>5 DEF NothingForgotten
<1>6. Roles'
  BY <1>a, <1>b, <1>d, <1>w, <1>1
     DEF Roles, Follower, Leader, Undecided, Decided, Deciding, Steady,
         Waiting, Known,
         Typed, TypeOK, Others, handler
<1>7. Confirming'
  <2>1. /\ \A k \in Others : k # n => step'[k] = step[k] /\ resp'[k] = resp[k]
        /\ \A k \in Others : nodes[k] \subseteq nodes'[k]
        /\ \A k \in Others : Deciding(k) \/ k = n => todo'[k] = todo[k]
        /\ resp'[n] = nodes[e] \cup {n}
        /\ step'[n] = "confirm"
    BY <1>a, <1>b, <1>d DEF Deciding, Heartbeat, Typed, TypeOK, Others
  <2>2. Decides(n, e)'
    BY <1>a, <1>b, <1>e, <1>g, <2>1 DEF Decides, handler
  <2>3. ASSUME NEW k \in Others, k # n, NEW f \in Others, Deciding(k),
               Decides(k, f)
        PROVE  Decides(k, f)'
    BY <1>b, <2>1, <2>3 DEF Decides, handler
  <2> QED
    BY <1>a, <2>1, <2>2, <2>3 DEF Confirming, Deciding
<1>8. Locks'
  BY <1>a, <1>b, <1>d, <1>e, <1>w, <1>1
     DEF Locks, Typed, TypeOK, Others, handler
<1>9. Heartbeats'
  <2>1. n = e \/ ~Candidate(n)'
    BY <1>a, <1>b, <1>e DEF Candidate, Deciding, Typed, TypeOK, Others
  <2>2. /\ \A k \in Others : k # e => heard'[k] = heard[k]
        /\ heard'[e] = heard[e] \cup {n}
    BY <1>a, <1>d DEF Typed, TypeOK, Others
  <2> QED
    BY <1>a, <1>b, <1>1, <2>1, <2>2 DEF Heartbeats, Steady, handler
<1>10. Asked'
  <2>1. /\ \A k \in Others : k # n => step'[k] = step[k]
        /\ step'[n] = "confirm"
        /\ \A k \in Others : k # e =>
             nodes'[k] = nodes[k] /\ todo'[k] = todo[k]
        /\ nodes'[e] = nodes[e] \cup {n}
        /\ todo[e] \subseteq todo'[e]
    BY <1>a, <1>b, <1>d DEF Typed, TypeOK, Others
  <2>2. ASSUME NEW k \in Others, NEW b \in Others,
               Candidate(k)', Candidate(b)', k # b,
               step'[k] \in {"ask", "wait"},
               b \in nodes'[k] \ todo'[k], lock'[b] # k
        PROVE  Answered(k, b)'
    <3>1. Candidate(k) /\ Candidate(b) /\ (k \in List(b)' <=> k \in List(b))
      BY <1>1, <2>2 DEF Steady
    <3>2. k # n /\ (b = n => e = n)
      BY <1>a, <1>b, <1>e, <2>1, <2>2
         DEF Candidate, Deciding, Typed, TypeOK, Others
    <3>3. b \in nodes[k] \ todo[k] /\ step[k] \in {"ask", "wait"}
      BY <2>1, <2>2, <3>2
    <3>4. Answered(k, b)
      BY <1>b, <2>2, <3>1, <3>3 DEF Asked, handler
    <3> QED
      BY <1>b, <2>1, <3>1, <3>4 DEF Answered, handler
  <2> QED
    BY <2>2 DEF Asked
<1>11. Elections'
  <2>1. \A k \in Others : k # n /\ Won(k)' => Won(k) /\ Candidate(k)'
    BY <1>a, <1>b, <1>e
       DEF Won, Candidate, Deciding, Roles, Leader, Follower, Undecided,
           Decided, Typed, TypeOK,
           Others
  <2>2. Won(n)' => Candidate(n)' /\ e = n
    BY <1>a, <1>b, <1>e DEF Won, Candidate, Deciding, Typed, TypeOK, Others
  <2>3. ASSUME NEW b \in Others, e = n, Candidate(b)', Candidate(n)', n # b,
               b \in List(n)'
        PROVE  n < b /\ n \in List(b)'
    <3>1. Candidate(b) /\ b \in List(n) /\ (n \in List(b)' <=> n \in List(b))
      BY <1>a, <1>1, <2>3 DEF Steady
    <3>2. Answered(n, b)
      BY <1>a, <1>k, <2>3, <3>1 DEF List
    <3>3. n <= b /\ n \in List(b)
      BY <1>e, <2>3, <3>2 DEF Answered
    <3> QED
      BY <2>3, <3>1, <3>3, ElectionAssumption DEF Others
  <2>4. ASSUME NEW k \in Others, NEW b \in Others, k # n,
               Won(k)', Candidate(b)', k # b, b \in List(k)'
        PROVE  k < b /\ k \in List(b)'
    BY <1>1, <2>1, <2>4 DEF Elections, Steady
  <2> QED
    BY <2>2, <2>3, <2>4 DEF Elections
<1> QED
  BY <1>1, <1>2, <1>3, <1>4, <1>5, <1>6, <1>7, <1>8, <1>9, <1>10, <1>11
     DEF Steady

\* The bootstrap node is the one that failed: nobody else does.
LEMMA AfterCrash ==
  ASSUME OneFailure, AfterFailure, NEW n \in Node
  PROVE  ~Crash(n)
<1>1. Node \ alive = {Bootstrap}
  BY ElectionAssumption DEF AfterFailure, Others
<1>2. Cardinality(Node \ alive) = 1
  BY <1>1, FS_Singleton
<1> QED
  BY <1>2, ElectionAssumption DEF Crash, OneFailure

LEMMA AfterStutter ==
  ASSUME AfterFailure, UNCHANGED vars
  PROVE  AfterFailure'
<1> USE DEF vars, cluster, handler, client
<1>1. UNCHANGED <<alive, nodes, leaderID, leaderAddr, isLeader, heard, lock,
                  probe, late, step, conn, stale, todo, votes, resp>>
  OBVIOUS
<1>2. /\ Acquainted' /\ NothingForgotten' /\ ListsAreKnown'
      /\ (Waiting => AllIdle)'
  BY <1>1
     DEF AfterFailure, Acquainted, NothingForgotten, ListsAreKnown, Waiting,
         AllIdle, Candidate, Deciding, Known, List, Idle
<1>3. Roles' /\ Confirming' /\ Locks' /\ Heartbeats'
  BY <1>1
     DEF AfterFailure, Roles, Follower, Leader, Undecided, Decided, Deciding,
         Decides, Confirming, Locks,
         Heartbeats, Candidate, Known
<1>4. Asked' /\ Elections'
  BY <1>1
     DEF AfterFailure, Asked, Answered, Elections, Won, Candidate, Deciding,
         List
<1> QED
  BY <1>1, <1>2, <1>3, <1>4 DEF AfterFailure

LEMMA NextAfterFailure ==
  ASSUME OneFailure, Typed, AfterFailure, [Next]_vars
  PROVE  AfterFailure'
<1>1. ASSUME NEW n \in Node,
             \/ SendHeartbeat(n) \/ SetNodes(n) \/ HeartbeatFails(n)
             \/ Silence(n) \/ StartLeaderElection(n) \/ VoteLost(n)
             \/ Retry(n)
      PROVE  AfterFailure'
  BY <1>1, AfterSend, AfterSetNodes, AfterHeartbeatFails, AfterSilence,
     AfterStart, AfterVoteLost, AfterRetry
<1>2. ASSUME NEW n \in Node,
             \/ ConfirmLeader(n) \/ RemoveElected(n)
             \/ ProbeSucceeds(n) \/ ReturnLeader(n) \/ ReturnSmallest(n)
             \/ Crash(n)
      PROVE  AfterFailure'
  BY <1>2, AfterConfirmLeader, AfterRemoveElected,
     AfterProbeSucceeds, AfterReturnLeader, AfterReturnSmallest, AfterCrash
<1>4. ASSUME NEW n \in Node,
             \/ ConfirmSucceeds(n) \/ SetLeaderID(n) \/ SetLeaderAddress(n)
             \/ BecomeLeader(n) \/ FollowLeader(n)
      PROVE  AfterFailure'
  BY <1>4, AfterConfirmSucceeds, AfterSetLeaderID, AfterSetLeaderAddress,
     AfterBecomeLeader, AfterFollowLeader
<1>3. ASSUME NEW n \in Node, NEW t \in Node,
             \/ VoteFails(n, t) \/ RequestVote(n, t)
             \/ RequestVoteProbes(n, t) \/ LateHeartbeat(n, t)
             \/ CleanupInactiveNodes(n, t)
      PROVE  AfterFailure'
  BY <1>3, AfterVoteFails, AfterRequestVote, AfterRequestVoteProbes,
     AfterLateHeartbeat, AfterCleanup
<1> QED
  BY <1>1, <1>2, <1>3, <1>4, AfterStutter DEF Next

-----------------------------------------------------------------------------
(***************************************************************************)
(* Before the failure: heartbeats to the bootstrap node, their responses,  *)
(* and the removal of a follower that went down.                           *)
(***************************************************************************)
LEMMA InitBeforeFailure == Init => BeforeFailure
<1> SUFFICES ASSUME Init PROVE BeforeFailure
  OBVIOUS
<1> USE ElectionAssumption, NobodyIsNoNode DEF Init
<1>1. Bootstrap \in alive /\ BootstrapLeads
  BY DEF BootstrapLeads
<1>2. AllIdle /\ NoElections
  BY DEF AllIdle, Idle, NoElections, NoProbe, Others
<1>3. Copies /\ ListsAreKnown /\ Acquainted /\ NothingForgotten
  BY DEF Copies, ListsAreKnown, Acquainted, NothingForgotten, Known, List,
         Deciding, NoProbe, Others
<1> QED
  BY <1>1, <1>2, <1>3 DEF BeforeFailure

LEMMA BeforeSend ==
  ASSUME Typed, BeforeFailure, NEW n \in Node, SendHeartbeat(n)
  PROVE  BeforeFailure'
<1> USE DEF BeforeFailure
<1>a. /\ n \in Others /\ Bootstrap \in Node /\ Bootstrap \notin Others
      /\ step[n] = "beat" /\ conn[n] = Bootstrap
  BY ElectionAssumption
     DEF SendHeartbeat, BootstrapLeads, AllIdle, Idle, Others
<1>b. /\ heard' = [heard EXCEPT ![Bootstrap] = @ \cup {n}]
      /\ nodes' = [nodes EXCEPT ![Bootstrap] = @ \cup {n}]
      /\ UNCHANGED todo
      /\ resp' = [resp EXCEPT ![n] = nodes[Bootstrap] \cup {n}]
      /\ step' = [step EXCEPT ![n] = "adopt"]
      /\ UNCHANGED <<alive, leaderID, leaderAddr, isLeader, handler,
                     conn, stale, votes>>
  BY <1>a DEF SendHeartbeat, Heartbeat, Response, BootstrapLeads
<1>c. /\ \A k \in Others : nodes'[k] = nodes[k] /\ heard'[k] = heard[k]
      /\ nodes'[Bootstrap] = nodes[Bootstrap] \cup {n}
      /\ heard'[Bootstrap] = heard[Bootstrap] \cup {n}
      /\ resp'[n] = nodes[Bootstrap] \cup {n} /\ step'[n] = "adopt"
      /\ step'[Bootstrap] = step[Bootstrap]
      /\ \A k \in Others : k # n => resp'[k] = resp[k] /\ step'[k] = step[k]
  BY <1>a, <1>b DEF Typed, TypeOK, Others
<1>1. Bootstrap \in alive' /\ BootstrapLeads' /\ AllIdle' /\ NoElections'
  BY <1>a, <1>b, <1>c DEF BootstrapLeads, AllIdle, Idle, NoElections, handler
<1>2. ASSUME alive = Node
      PROVE  Copies' /\ ListsAreKnown' /\ Acquainted' /\ NothingForgotten'
  <2>1. \A k \in Others : Known(k)' <=> Known(k) \/ k = n
    BY <1>a, <1>c DEF Known
  <2>2. Copies'
    BY <1>2, <1>a, <1>c, <2>1 DEF Copies
  <2>3. ListsAreKnown'
    BY <1>2, <1>a, <1>b, <1>c, <2>1
       DEF ListsAreKnown, Copies, Typed, TypeOK, Others, BootstrapLeads,
           AllIdle, Idle, NoProbe, handler
  <2>4. Acquainted'
    <3>1. \A k \in Others : List(k)' = IF k = n THEN nodes[Bootstrap] \cup {n}
                                                ELSE List(k)
      BY <1>a, <1>c DEF List
    <3>2. \A k \in Others : Known(k) => k \in nodes[Bootstrap]
      BY <1>2 DEF Copies
    <3>3. \A k \in Others : Candidate(k)
      BY DEF AllIdle, Idle, NoElections, Candidate, Deciding
    <3> QED
      BY <1>2, <2>1, <3>1, <3>2, <3>3 DEF Acquainted
  <2>5. NothingForgotten'
    BY <1>2, <1>a, <1>c DEF NothingForgotten, Copies, NoElections, Candidate,
                            Deciding, AllIdle, Idle
  <2> QED
    BY <2>2, <2>3, <2>4, <2>5
<1> QED
  BY <1>1, <1>2, <1>b

LEMMA BeforeSetNodes ==
  ASSUME Typed, BeforeFailure, NEW n \in Node, SetNodes(n)
  PROVE  BeforeFailure'
<1> USE DEF BeforeFailure
<1>a. n \in Others /\ Bootstrap \notin Others /\ step[n] = "adopt"
  BY DEF SetNodes, BootstrapLeads, Others
<1>b. /\ nodes' = [nodes EXCEPT ![n] = resp[n]]
      /\ stale' = [stale EXCEPT ![n] = FALSE]
      /\ step' = [step EXCEPT ![n] = "beat"]
      /\ resp' = [resp EXCEPT ![n] = {}]
      /\ UNCHANGED <<alive, leaderID, leaderAddr, isLeader, heard, handler,
                     conn, todo, votes>>
  BY DEF SetNodes
<1>c. /\ nodes'[n] = resp[n] /\ resp'[n] = {} /\ step'[n] = "beat"
      /\ ~stale'[n]
      /\ \A k \in Node : k # n =>
           /\ nodes'[k] = nodes[k] /\ resp'[k] = resp[k]
           /\ step'[k] = step[k] /\ stale'[k] = stale[k]
  BY <1>a, <1>b DEF Typed, TypeOK, Others
<1>d. Bootstrap \in Node /\ Others \subseteq Node
  BY ElectionAssumption DEF Others
<1>1. Bootstrap \in alive' /\ BootstrapLeads' /\ AllIdle' /\ NoElections'
  BY <1>a, <1>b, <1>c, <1>d
     DEF BootstrapLeads, AllIdle, Idle, NoElections, handler
<1>2. ASSUME alive = Node
      PROVE  Copies' /\ ListsAreKnown' /\ Acquainted' /\ NothingForgotten'
  <2>1. n \in resp[n]
    BY <1>2, <1>a DEF ListsAreKnown
  <2>2. \A k \in Others : /\ Known(k)' <=> Known(k)
                          /\ List(k)' = List(k)
                          /\ Candidate(k)
    BY <1>a, <1>c, <1>d, <2>1
       DEF Known, List, AllIdle, Idle, NoElections, Candidate, Deciding
  <2>3. Copies'
    BY <1>2, <1>a, <1>c, <1>d, <2>1, <2>2 DEF Copies
  <2>4. ListsAreKnown'
    BY <1>2, <1>a, <1>b, <1>c, <1>d, <2>2 DEF ListsAreKnown, handler
  <2>5. Acquainted'
    BY <1>2, <2>2 DEF Acquainted
  <2>6. NothingForgotten'
    BY <1>2, <1>a, <1>c, <1>d, <2>2 DEF NothingForgotten, NoElections
  <2> QED
    BY <2>3, <2>4, <2>5, <2>6
<1> QED
  BY <1>1, <1>2, <1>b

LEMMA BeforeCleanup ==
  ASSUME OneFailure, Typed, BeforeFailure, NEW l \in Node, NEW d \in Node,
         CleanupInactiveNodes(l, d)
  PROVE  BeforeFailure'
<1> USE DEF BeforeFailure
<1>a. /\ l = Bootstrap /\ d \in Others /\ Bootstrap \notin Others
      /\ isLeader[Bootstrap]
  BY DEF CleanupInactiveNodes, BootstrapLeads, AllIdle, Idle, Others
<1>b. alive # Node
  BY <1>a DEF CleanupInactiveNodes, Quiet, OneFailure, AllIdle, Idle,
              NoElections
<1>c. /\ heard' = [heard EXCEPT ![l] = @ \ {d}]
      /\ nodes' = [nodes EXCEPT ![l] = @ \ {d}]
      /\ UNCHANGED <<alive, leaderID, leaderAddr, isLeader, handler, client>>
  BY DEF CleanupInactiveNodes
<1> QED
  BY <1>a, <1>b, <1>c
     DEF BootstrapLeads, AllIdle, Idle, NoElections, Typed, TypeOK, Others,
         handler, client

\* The failure.
LEMMA BeforeCrash ==
  ASSUME OneFailure, Typed, BeforeFailure, NEW n \in Node, Crash(n)
  PROVE  OneFailureInv'
<1> USE DEF BeforeFailure
<1>a. /\ n \in alive
      /\ alive' = alive \ {n}
      /\ lock' = [lock EXCEPT ![n] = Nobody]
      /\ probe' = [probe EXCEPT ![n] = NoProbe]
      /\ late' = {call \in late : call[2] # n}
      /\ UNCHANGED <<cluster, client>>
  BY DEF Crash
<1>b. late' = {} /\ AllIdle'
  BY <1>a DEF AllIdle, Idle, Typed, TypeOK, Others, cluster, client
<1>1. CASE n # Bootstrap
  <2>1. BootstrapLeads' /\ NoElections'
    BY <1>1, <1>a, ElectionAssumption
       DEF BootstrapLeads, NoElections, Typed, TypeOK, cluster, client
  <2> QED
    BY <1>1, <1>a, <1>b, <2>1 DEF OneFailureInv
<1>2. CASE n = Bootstrap
  <2>1. alive = Node
    <3>1. IsFiniteSet(Node \ alive)
      BY FS_Subset, ElectionAssumption
    <3>2. Cardinality(Node \ alive) \in Nat
      BY <3>1, FS_CardinalityType
    <3>3. Cardinality(Node \ alive) = 0
      BY <3>2, ElectionAssumption DEF Crash, OneFailure
    <3>4. Node \ alive = {}
      BY <3>1, <3>3, FS_EmptySet
    <3> QED
      BY <3>4 DEF Typed, TypeOK
  <2>2. \A k \in Others : lock'[k] = lock[k] /\ probe'[k] = probe[k]
    BY <1>2, <1>a DEF Typed, TypeOK, Others
  <2>3. alive' = Others
    BY <1>2, <1>a, <2>1 DEF Others
  <2>4. ListsAreKnown' /\ Acquainted' /\ NothingForgotten'
    BY <1>a, <2>1, <2>2
       DEF ListsAreKnown, Acquainted, NothingForgotten, Known, List, Candidate,
           Deciding,
           cluster, client
  <2>5. Roles'
    BY <1>a, <1>b, <2>1, NobodyIsNoNode
       DEF Roles, Undecided, Deciding, AllIdle, Idle, NoElections, Copies,
           cluster,
           client
  <2>6. Confirming' /\ Locks' /\ Heartbeats' /\ Asked' /\ Elections'
    BY <1>2, <1>a, <1>b, ElectionAssumption
       DEF Confirming, Deciding, Typed, TypeOK, Locks, Heartbeats, Asked,
           Elections, Won, AllIdle, Idle,
           NoElections, cluster, client
  <2> QED
    BY <1>b, <2>3, <2>4, <2>5, <2>6 DEF OneFailureInv, AfterFailure
<1> QED
  BY <1>1, <1>2

LEMMA BeforeStutter ==
  ASSUME BeforeFailure, UNCHANGED vars
  PROVE  BeforeFailure'
<1>1. UNCHANGED <<alive, nodes, leaderID, leaderAddr, isLeader, heard, lock,
                  probe, late, step, conn, stale, todo, votes, resp>>
  BY DEF vars, cluster, handler, client
<1>2. (BootstrapLeads /\ AllIdle /\ NoElections)'
  BY <1>1 DEF BeforeFailure, BootstrapLeads, AllIdle, Idle, NoElections
<1>3. alive = Node =>
        (Copies /\ ListsAreKnown /\ Acquainted /\ NothingForgotten)'
  BY <1>1 DEF BeforeFailure, Copies, ListsAreKnown, Acquainted,
              NothingForgotten, Known, List, Candidate, Deciding
<1> QED
  BY <1>1, <1>2, <1>3 DEF BeforeFailure

LEMMA NextBeforeFailure ==
  ASSUME OneFailure, Typed, BeforeFailure, [Next]_vars
  PROVE  OneFailureInv'
<1>a. /\ \A n \in Node : step[n] \in {"beat", "adopt", "lead"}
      /\ \A n \in Node : step[n] = "beat" => conn[n] = Bootstrap
      /\ \A n \in Node : lock[n] = Nobody
      /\ late = {} /\ Bootstrap \in alive
  BY DEF BeforeFailure, NoElections, BootstrapLeads, AllIdle, Idle, Others
<1>1. ASSUME NEW n \in Node,
             \/ SendHeartbeat(n) \/ SetNodes(n) \/ HeartbeatFails(n)
             \/ Silence(n) \/ StartLeaderElection(n) \/ VoteLost(n)
             \/ Retry(n)
      PROVE  OneFailureInv'
  <2>1. ~HeartbeatFails(n) /\ ~Silence(n)
    BY <1>a, NobodyIsNoNode, ElectionAssumption
       DEF HeartbeatFails, Fails, TimesOut, InQueue, Askers, Silence,
           OneFailure
  <2>2. ~StartLeaderElection(n) /\ ~VoteLost(n) /\ ~Retry(n)
    BY <1>a DEF StartLeaderElection, VoteLost, Retry, Counted
  <2> QED
    BY <1>1, <2>1, <2>2, BeforeSend, BeforeSetNodes DEF OneFailureInv
<1>2. ASSUME NEW n \in Node,
             \/ ConfirmLeader(n) \/ RemoveElected(n)
             \/ ConfirmSucceeds(n) \/ SetLeaderID(n) \/ SetLeaderAddress(n)
             \/ BecomeLeader(n) \/ FollowLeader(n)
             \/ ProbeSucceeds(n) \/ ReturnLeader(n) \/ ReturnSmallest(n)
             \/ Crash(n)
      PROVE  OneFailureInv'
  <2>1. ~ConfirmLeader(n) /\ ~RemoveElected(n)
    BY <1>a DEF ConfirmLeader, RemoveElected, Counted
  <2>3. /\ ~ConfirmSucceeds(n) /\ ~SetLeaderID(n) /\ ~SetLeaderAddress(n)
        /\ ~BecomeLeader(n) /\ ~FollowLeader(n)
    BY <1>a DEF ConfirmSucceeds, SetLeaderID, SetLeaderAddress, BecomeLeader,
                FollowLeader
  <2>2. ~ProbeSucceeds(n) /\ ~ReturnLeader(n) /\ ~ReturnSmallest(n)
    BY <1>a DEF ProbeSucceeds, ReturnLeader, ReturnSmallest
  <2> QED
    BY <1>2, <2>1, <2>2, <2>3, BeforeCrash
<1>3. ASSUME NEW n \in Node, NEW t \in Node,
             \/ VoteFails(n, t) \/ RequestVote(n, t)
             \/ RequestVoteProbes(n, t) \/ LateHeartbeat(n, t)
             \/ CleanupInactiveNodes(n, t)
      PROVE  OneFailureInv'
  <2>1. /\ ~VoteFails(n, t) /\ ~RequestVote(n, t)
        /\ ~RequestVoteProbes(n, t) /\ ~LateHeartbeat(n, t)
    BY <1>a DEF VoteFails, RequestVote, RequestVoteProbes, LateHeartbeat
  <2> QED
    BY <1>3, <2>1, BeforeCleanup DEF OneFailureInv
<1> QED
  BY <1>1, <1>2, <1>3, BeforeStutter DEF Next, OneFailureInv

LEMMA AlwaysOneFailureInv ==
  ASSUME OneFailure
  PROVE  Spec => [](Typed /\ OneFailureInv)
<1>1. Init => Typed /\ OneFailureInv
  BY InitTyped, InitBeforeFailure DEF OneFailureInv
<1>2. Typed /\ OneFailureInv /\ [Next]_vars => (Typed /\ OneFailureInv)'
  <2> SUFFICES ASSUME Typed, OneFailureInv, [Next]_vars
               PROVE  (Typed /\ OneFailureInv)'
    OBVIOUS
  <2>1. Typed'
    BY NextTyped
  <2>2. OneFailureInv'
    BY NextBeforeFailure, NextAfterFailure DEF OneFailureInv
  <2> QED
    BY <2>1, <2>2
<1> QED
  BY <1>1, <1>2, PTL DEF Spec

-----------------------------------------------------------------------------
(***************************************************************************)
(* With at most one failure, of whichever node, and no call that waits its *)
(* deadline out in a queue (among four nodes none can), there is never a   *)
(* second leader, however many nodes hold an election at once and with     *)
(* whatever lists they happen to have: of any two that could win one knows *)
(* the other, asks it, and gets its vote only if it is the smaller one and *)
(* known to it.                                                            *)
(***************************************************************************)
THEOREM OneLeader ==
  ASSUME OneFailure
  PROVE  Spec => []AtMostOneLeader
<1>1. Typed /\ OneFailureInv => AtMostOneLeader
  <2> SUFFICES ASSUME Typed, OneFailureInv PROVE AtMostOneLeader
    OBVIOUS
  <2>1. CASE BeforeFailure
    BY <2>1 DEF AtMostOneLeader, BeforeFailure, AllIdle, Idle, Others, Typed,
                TypeOK
  <2>2. CASE AfterFailure
    <3> SUFFICES ASSUME NEW a \in Others, NEW b \in Others, a # b,
                        isLeader[a], isLeader[b]
                 PROVE  FALSE
      BY <2>2 DEF AtMostOneLeader, AfterFailure
    <3>1. Leader(a) /\ Leader(b)
      BY <2>2 DEF AfterFailure, Roles, Follower, Undecided, Decided
    <3>2. /\ Won(a) /\ Candidate(a) /\ Known(a)
          /\ Won(b) /\ Candidate(b) /\ Known(b)
      BY <3>1 DEF Leader, Won, Candidate, Deciding, Known
    <3>3. b \in List(a) \/ a \in List(b)
      BY <2>2, <3>2 DEF AfterFailure, Acquainted
    <3>4. a < b /\ b < a
      BY <2>2, <3>2, <3>3 DEF AfterFailure, Elections
    <3> QED
      BY <3>4, ElectionAssumption DEF Others
  <2> QED
    BY <2>1, <2>2 DEF OneFailureInv
<1> QED
  BY <1>1, AlwaysOneFailureInv, PTL

(***************************************************************************)
(* With at most one failure, and no call that waits its deadline out in a  *)
(* queue, a follower's heartbeats go to the node it takes for the leader:  *)
(* the early return of StartLeaderElection, which sets LeaderID and leaves *)
(* the connection, is never taken.                                         *)
(***************************************************************************)
THEOREM FollowersFollowOne ==
  ASSUME OneFailure
  PROVE  Spec => []FollowersFollow
<1>1. Typed /\ OneFailureInv => FollowersFollow
  <2> SUFFICES ASSUME Typed, OneFailureInv PROVE FollowersFollow
    OBVIOUS
  <2>1. CASE BeforeFailure
    BY <2>1 DEF FollowersFollow, BeforeFailure, BootstrapLeads, AllIdle, Idle,
                Others, Typed, TypeOK
  <2>2. CASE AfterFailure
    BY <2>2 DEF FollowersFollow, AfterFailure, Roles, Follower, Leader,
                Undecided, Decided
  <2> QED
    BY <2>1, <2>2 DEF OneFailureInv
<1> QED
  BY <1>1, AlwaysOneFailureInv, PTL

-----------------------------------------------------------------------------
(***************************************************************************)
(* The refinement.  What a step does to the view is one step of Membership *)
(* or nothing at all.                                                      *)
(***************************************************************************)
Addresses == [n \in Node |-> IF n \in alive THEN Address(n) ELSE Nobody]
Lists == [n \in Node |-> IF n \in Leading THEN nodes[n] ELSE {}]
Backers == IF Leading = {} THEN {n \in alive : Backed(n)} ELSE {}

Seen == [View!MembershipNext]_(View!membership)

LEMMA LeadersLead ==
  ASSUME Typed, OneFailureInv, NEW n \in alive, isLeader[n]
  PROVE  step[n] = "lead"
<1>1. CASE BeforeFailure
  BY <1>1
     DEF BeforeFailure, BootstrapLeads, AllIdle, Idle, Others, Typed, TypeOK
<1>2. CASE AfterFailure
  BY <1>2 DEF AfterFailure, Roles, Follower, Leader, Undecided, Decided
<1> QED
  BY <1>1, <1>2 DEF OneFailureInv

(***************************************************************************)
(* A node asks those in its list.  One that has asked another, or decides, *)
(* has another in the list it will lead, or follow, with.                  *)
(***************************************************************************)
Polled(n) ==
  step[n] = "wait" \/ (step[n] = "ask" /\ votes[n] # {}) \/ Deciding(n)

Asking ==
  \A n \in Others :
    /\ step[n] \in {"ask", "wait"} => todo[n] \subseteq nodes[n]
    /\ Polled(n) => \E x \in nodes[n] : x # n
    /\ step[n] = "confirm" => \E x \in resp[n] : x # n

\* What a step may do to a node whose election goes on.
StillAsks(k) ==
  /\ step'[k] \in {"ask", "wait"} =>
       /\ step[k] \in {"ask", "wait"}
       /\ todo'[k] \subseteq todo[k] \cup nodes'[k]
  /\ Polled(k)' => Polled(k)
  /\ step'[k] \in {"ask", "wait"} \/ Polled(k)' => nodes[k] \subseteq nodes'[k]
  /\ step'[k] = "confirm" => step[k] = "confirm" /\ resp'[k] = resp[k]

LEMMA GoesOnAsking ==
  ASSUME Asking, \A k \in Others : StillAsks(k)
  PROVE  Asking'
  BY DEF Asking, StillAsks

LEMMA HeartbeatAsking ==
  ASSUME Typed, Asking, NEW a \in Node, NEW b \in Node, Heartbeat(a, b),
         UNCHANGED votes,
         \A k \in Others : \/ step'[k] = step[k] /\ resp'[k] = resp[k]
                           \/ step'[k] \in {"beat", "adopt", "elect", "lead"}
  PROVE  Asking'
<1>1. ASSUME NEW k \in Others PROVE StillAsks(k)
  <2>1. /\ nodes[k] \subseteq nodes'[k]
        /\ todo'[k] \subseteq todo[k] \cup nodes'[k]
    BY <1>1 DEF Heartbeat, Typed, TypeOK, Others
  <2>2. CASE step'[k] = step[k] /\ resp'[k] = resp[k]
    BY <2>1, <2>2 DEF StillAsks, Polled, Deciding
  <2>3. CASE step'[k] \in {"beat", "adopt", "elect", "lead"}
    BY <2>3 DEF StillAsks, Polled, Deciding
  <2> QED
    BY <1>1, <2>2, <2>3
<1> QED
  BY <1>1, GoesOnAsking

\* A vote comes back, and with it maybe the list of the leader.
LEMMA ReturnVoteAsking ==
  ASSUME Typed, OneFailureInv, Asking, NEW t \in Node, NEW v \in Node,
         ReturnVote(t, v), lock[t] # Nobody,
         \/ UNCHANGED nodes
         \/ /\ probe[t].done
            /\ nodes' = [nodes EXCEPT ![t] = probe[t].list]
  PROVE  Asking'
<1>1. AfterFailure /\ t \in Others
  BY DEF OneFailureInv, BeforeFailure, BootstrapLeads, AllIdle, Idle,
         AfterFailure, Locks, Others
<1>2. PICK n \in Others : n = lock[t]
  BY <1>1 DEF AfterFailure, Locks
<1>3. UNCHANGED <<todo, resp>>
  BY DEF ReturnVote
<1>4. \A k \in Others :
        \/ step'[k] = step[k] /\ votes'[k] = votes[k]
        \/ step[k] = "wait" /\ step'[k] = "ask"
  <2>1. CASE UNCHANGED <<votes, step>>
    BY <2>1
  <2>2. CASE /\ step[n] = "wait"
             /\ votes' = [votes EXCEPT ![n] = @ \cup {v}]
             /\ step' = [step EXCEPT ![n] = "ask"]
    BY <2>2 DEF Typed, TypeOK, Others
  <2> QED
    BY <1>2, <2>1, <2>2 DEF ReturnVote
<1>5. ASSUME NEW k \in Others, nodes'[k] = nodes[k]
      PROVE  StillAsks(k)
  BY <1>3, <1>4, <1>5 DEF StillAsks, Polled, Deciding
<1>6. CASE UNCHANGED nodes
  BY <1>5, <1>6, GoesOnAsking
<1>7. CASE /\ probe[t].done
           /\ nodes' = [nodes EXCEPT ![t] = probe[t].list]
  <2>1. /\ nodes'[t] = probe[t].list
        /\ \A k \in Others : k # t => nodes'[k] = nodes[k]
    BY <1>1, <1>7 DEF Typed, TypeOK, Others
  <2>2. step'[t] \notin {"ask", "wait", "confirm"}
    <3>1. ~Undecided(t)
      BY <1>1 DEF Undecided
    <3>2. step[t] \notin {"ask", "wait", "confirm"}
      BY <1>1, <3>1 DEF AfterFailure, Roles, Follower, Leader, Decided
    <3> QED
      BY <1>1, <1>4, <3>2
  <2>3. ASSUME Polled(t)' PROVE \E x \in nodes'[t] : x # t
    <3>1. step[t] = step'[t] /\ Deciding(t)
      BY <1>1, <1>4, <2>2, <2>3 DEF Polled, Deciding
    <3>2. PICK e \in Others : Decides(t, e)
      BY <1>1, <3>1 DEF AfterFailure, Confirming
    <3>3. e \in nodes'[t] /\ votes[t] = {e}
      BY <1>7, <2>1, <3>2 DEF Decides
    <3>4. leaderAddr[t] \notin {Bootstrap, t}
      BY <1>1, <1>7 DEF AfterFailure, Locks
    <3>5. Decided(t)
      BY <1>1, <3>1 DEF AfterFailure, Roles, Follower, Leader, Undecided,
                        Deciding
    <3>6. e # t
      BY <3>3, <3>4, <3>5 DEF Decided
    <3> QED
      BY <3>3, <3>6
  <2>4. ASSUME NEW k \in Others, k # t
        PROVE  /\ step'[k] \in {"ask", "wait"} => todo'[k] \subseteq nodes'[k]
               /\ Polled(k)' => \E x \in nodes'[k] : x # k
               /\ step'[k] = "confirm" => \E x \in resp'[k] : x # k
    BY <1>5, <2>1, <2>4 DEF Asking, StillAsks
  <2> QED
    BY <1>1, <2>2, <2>3, <2>4 DEF Asking
<1> QED
  BY <1>6, <1>7

LEMMA NextAsking ==
  ASSUME Typed, OneFailureInv, OneFailureInv', Asking, [Next]_vars
  PROVE  Asking'
<1> USE DEF cluster, handler, client
<1>1. ASSUME NEW n \in Node,
             \/ SetNodes(n) \/ HeartbeatFails(n) \/ Silence(n) \/ VoteLost(n)
             \/ Retry(n) \/ RemoveElected(n) \/ SetLeaderID(n)
             \/ SetLeaderAddress(n) \/ BecomeLeader(n) \/ FollowLeader(n)
             \/ Crash(n)
      PROVE  Asking'
  <2>1. ASSUME NEW k \in Others, k # n PROVE StillAsks(k)
    <3>1. /\ nodes'[k] = nodes[k] /\ todo'[k] = todo[k] /\ resp'[k] = resp[k]
          /\ step'[k] = step[k] /\ votes'[k] = votes[k]
      BY <1>1, <2>1
         DEF SetNodes, HeartbeatFails, Silence, VoteLost, Retry, RemoveElected,
             SetLeaderID, SetLeaderAddress, BecomeLeader, FollowLeader, Crash,
             Typed, TypeOK, Others
    <3> QED
      BY <3>1 DEF StillAsks, Polled, Deciding
  <2>2. ASSUME n \in Others PROVE StillAsks(n)
    <3>1. CASE SetNodes(n) \/ HeartbeatFails(n) \/ Retry(n)
               \/ RemoveElected(n) \/ BecomeLeader(n) \/ FollowLeader(n)
      <4>1. step'[n] \in {"beat", "elect", "lead"}
        BY <3>1 DEF SetNodes, HeartbeatFails, Retry, RemoveElected,
                    BecomeLeader, FollowLeader, Typed, TypeOK
      <4> QED
        BY <4>1 DEF StillAsks, Polled, Deciding
    <3>2. CASE Silence(n) \/ Crash(n)
      BY <3>2 DEF Silence, Crash, StillAsks, Polled, Deciding
    <3>3. CASE VoteLost(n) \/ SetLeaderID(n) \/ SetLeaderAddress(n)
      BY <3>3 DEF VoteLost, SetLeaderID, SetLeaderAddress, StillAsks, Polled,
                  Deciding, Typed, TypeOK
    <3> QED
      BY <1>1, <3>1, <3>2, <3>3
  <2> QED
    BY <2>1, <2>2, GoesOnAsking
<1>2. ASSUME NEW n \in Node, StartLeaderElection(n)
      PROVE  Asking'
  <2>1. /\ todo'[n] = nodes[n] \ {n} /\ nodes' = nodes /\ resp' = resp
        /\ step'[n] = "ask" /\ votes'[n] = {}
        /\ \A k \in Node : k # n => /\ todo'[k] = todo[k]
                                   /\ step'[k] = step[k]
                                   /\ votes'[k] = votes[k]
    BY <1>2 DEF StartLeaderElection, Typed, TypeOK
  <2> QED
    BY <2>1 DEF Asking, Polled, Deciding, Others
<1>3. ASSUME NEW n \in Node, NEW t \in Node, VoteFails(n, t)
      PROVE  Asking'
  <2>1. /\ UNCHANGED <<nodes, resp, step, votes>>
        /\ \A k \in Others : todo'[k] \subseteq todo[k]
    BY <1>3 DEF VoteFails, Typed, TypeOK, Others
  <2>2. \A k \in Others : StillAsks(k)
    BY <2>1 DEF StillAsks, Polled, Deciding
  <2> QED
    BY <2>2, GoesOnAsking
<1>4. ASSUME NEW n \in Node, NEW t \in Node,
             RequestVote(n, t) \/ RequestVoteProbes(n, t)
      PROVE  Asking'
  <2>1. /\ UNCHANGED <<nodes, resp>>
        /\ step[n] = "ask" /\ step'[n] \in {"ask", "wait"}
        /\ t \in todo[n] /\ todo'[n] \subseteq todo[n]
        /\ \A k \in Node : k # n => /\ todo'[k] = todo[k]
                                   /\ step'[k] = step[k]
                                   /\ votes'[k] = votes[k]
    BY <1>4 DEF RequestVote, RequestVoteProbes, Typed, TypeOK
  <2>2. t # n
    BY <2>1 DEF Typed, AsksOthers
  <2>3. ASSUME n \in Others
        PROVE  todo'[n] \subseteq nodes'[n] /\ \E x \in nodes'[n] : x # n
    BY <2>1, <2>2, <2>3 DEF Asking
  <2> QED
    BY <2>1, <2>3 DEF Asking, Polled, Deciding, Others
<1>5. ASSUME NEW n \in Node, SendHeartbeat(n)
      PROVE  Asking'
  <2>1. conn[n] \in Node /\ Heartbeat(n, conn[n]) /\ UNCHANGED votes
    BY <1>5 DEF SendHeartbeat, Typed, TypeOK
  <2>2. \A k \in Others : \/ step'[k] = step[k] /\ resp'[k] = resp[k]
                          \/ step'[k] = "adopt"
    BY <1>5 DEF SendHeartbeat, Typed, TypeOK, Others
  <2> QED
    BY <2>1, <2>2, HeartbeatAsking
<1>6. ASSUME NEW a \in Node, NEW b \in Node, LateHeartbeat(a, b)
      PROVE  Asking'
  BY <1>6, HeartbeatAsking DEF LateHeartbeat
<1>7. ASSUME NEW t \in Node, ProbeSucceeds(t)
      PROVE  Asking'
  <2>1. probe[t].leader \in Node
    BY <1>7 DEF ProbeSucceeds, Typed, ProbesHaveLeaders
  <2> QED
    BY <1>7, <2>1, HeartbeatAsking DEF ProbeSucceeds
<1>8. ASSUME NEW n \in Node, ConfirmLeader(n)
      PROVE  Asking'
  <2>1. PICK e \in Node : votes[n] = {e}
    BY <1>8, OneVote DEF ConfirmLeader, Typed, TypeOK
  <2>2. Elected(n) = e
    BY <2>1, ElectedOne
  <2>3. /\ Heartbeat(n, e) /\ step[n] = "ask"
        /\ resp' = [resp EXCEPT ![n] = nodes[e] \cup {n}]
        /\ step' = [step EXCEPT ![n] = "confirm"]
        /\ UNCHANGED votes
    BY <1>8, <2>2 DEF ConfirmLeader, Counted, Response
  <2>4. \A k \in Others : /\ nodes[k] \subseteq nodes'[k]
                           /\ todo'[k] \subseteq todo[k] \cup nodes'[k]
    BY <2>3 DEF Heartbeat, Typed, TypeOK, Others
  <2>5. /\ step'[n] = "confirm" /\ resp'[n] = nodes[e] \cup {n}
        /\ \A k \in Others : k # n => step'[k] = step[k] /\ resp'[k] = resp[k]
    BY <1>8, <2>3 DEF Typed, TypeOK, Others
  <2>6. ASSUME NEW k \in Others, k # n
        PROVE  /\ step'[k] \in {"ask", "wait"} => todo'[k] \subseteq nodes'[k]
               /\ Polled(k)' => \E x \in nodes'[k] : x # k
               /\ step'[k] = "confirm" => \E x \in resp'[k] : x # k
    BY <2>3, <2>4, <2>5, <2>6 DEF Asking, Polled, Deciding
  <2>7. ASSUME n \in Others
        PROVE  /\ \E x \in nodes'[n] : x # n
               /\ \E x \in resp'[n] : x # n
    <3>1. PICK x \in nodes[n] : x # n
      BY <2>1, <2>3, <2>7 DEF Asking, Polled
    <3>2. CASE e = n
      BY <2>4, <2>5, <2>7, <3>1, <3>2
    <3>3. CASE e # n
      <4>1. AfterFailure'
        BY <2>5, <2>7 DEF OneFailureInv, BeforeFailure, NoElections
      <4>2. PICK f \in Others : Decides(n, f)'
        BY <2>5, <2>7, <4>1 DEF AfterFailure, Confirming, Deciding
      <4>3. f = e /\ f \in resp'[n]
        BY <2>1, <2>3, <2>5, <4>2 DEF Decides
      <4> QED
        BY <2>4, <2>7, <3>1, <3>3, <4>3
    <3> QED
      BY <3>2, <3>3
  <2> QED
    BY <2>5, <2>6, <2>7 DEF Asking
<1>9. ASSUME NEW n \in Node, ConfirmSucceeds(n)
      PROVE  Asking'
  <2>1. /\ nodes'[n] = resp[n] /\ step[n] = "confirm" /\ step'[n] = "elected"
        /\ \A k \in Node : k # n => /\ nodes'[k] = nodes[k]
                                   /\ step'[k] = step[k]
                                   /\ resp'[k] = resp[k]
        /\ UNCHANGED <<todo, votes>>
    BY <1>9 DEF ConfirmSucceeds, Typed, TypeOK
  <2> QED
    BY <2>1 DEF Asking, Polled, Deciding, Others
<1>10. ASSUME NEW t \in Node, ReturnLeader(t)
       PROVE  Asking'
  <2>1. leaderID[t] \in Node
    BY <1>10 DEF ReturnLeader, Typed, ProbesHaveLeaders
  <2> QED
    BY <1>10, <2>1, ReturnVoteAsking DEF ReturnLeader
<1>11. ASSUME NEW t \in Node, ReturnSmallest(t)
       PROVE  Asking'
  <2>1. Smallest(t) \in Node
    BY SmallestVote DEF Typed
  <2> QED
    BY <1>11, <2>1, ReturnVoteAsking DEF ReturnSmallest
<1>12. ASSUME NEW l \in Node, NEW d \in Node, CleanupInactiveNodes(l, d)
       PROVE  Asking'
  <2>1. step[l] = "lead"
    BY <1>12, LeadersLead DEF CleanupInactiveNodes
  <2>2. /\ UNCHANGED <<todo, resp, step, votes>>
        /\ \A k \in Node : k # l => nodes'[k] = nodes[k]
    BY <1>12 DEF CleanupInactiveNodes, Typed, TypeOK
  <2>3. \A k \in Others : StillAsks(k)
    BY <2>1, <2>2 DEF StillAsks, Polled, Deciding, Others
  <2> QED
    BY <2>3, GoesOnAsking
<1>13. ASSUME UNCHANGED vars
       PROVE  Asking'
  BY <1>13 DEF vars, Asking, Polled, Deciding
<1> QED
  BY <1>1, <1>2, <1>3, <1>4, <1>5, <1>6, <1>7, <1>8, <1>9, <1>10, <1>11,
     <1>12, <1>13 DEF Next

LEMMA AlwaysAsking ==
  ASSUME OneFailure
  PROVE  Spec => []Asking
<1>1. Init => Asking
  BY DEF Init, Asking, Polled, Deciding, Others
<1>2. /\ Typed /\ OneFailureInv
      /\ (Typed /\ OneFailureInv)'
      /\ Asking /\ [Next]_vars
      => Asking'
  BY NextAsking
<1> QED
  BY <1>1, <1>2, AlwaysOneFailureInv, PTL DEF Spec

LEMMA Unseen ==
  ASSUME UNCHANGED <<alive, Leading, Addresses, Lists, Backers>>
  PROVE  Seen
  BY DEF Seen, View!membership, Addresses, Lists, Backers

\* What the view shows of a node, but for the lists of leaders, is unchanged.
SameNodes ==
  /\ UNCHANGED <<alive, leaderAddr, isLeader, votes>>
  /\ \A n \in Node : step'[n] = "addressed" <=> step[n] = "addressed"

LEMMA SameView ==
  ASSUME Typed, SameNodes
  PROVE  UNCHANGED <<Leading, Addresses, Backers>>
<1>1. Leading' = Leading
  BY DEF SameNodes, Leading
<1>2. Addresses' = Addresses
  BY DEF SameNodes, Addresses, Address
<1>3. \A n \in alive : Backed(n)' <=> Backed(n)
  BY DEF SameNodes, Backed, Elected, Typed, TypeOK
<1> QED
  BY <1>1, <1>2, <1>3 DEF SameNodes, Backers

\* Nothing is seen of a step that changes none of that and no leader's list.
LEMMA NothingSeen ==
  ASSUME Typed, SameNodes, \A n \in Leading : nodes'[n] = nodes[n]
  PROVE  Seen
<1>1. UNCHANGED <<Leading, Addresses, Backers>>
  BY SameView
<1>2. Lists' = Lists
  BY <1>1 DEF Lists
<1> QED
  BY <1>1, <1>2, Unseen DEF SameNodes

\* A heartbeat that reaches the leader is seen, another is not.
LEMMA HeartbeatSeen ==
  ASSUME Typed, NEW a \in Others, NEW b \in Node, Heartbeat(a, b), SameNodes
  PROVE  Seen
<1>1. nodes' = [nodes EXCEPT ![b] = @ \cup {a}]
  BY DEF Heartbeat
<1>2. UNCHANGED <<Leading, Addresses, Backers>>
  BY SameView
<1>3. CASE b \in Leading
  <2>1. Lists' = [Lists EXCEPT ![b] = @ \cup {a}]
    BY <1>1, <1>2, <1>3 DEF Lists, Typed, TypeOK
  <2>2. View!Enters(b, a)
    BY <1>2, <1>3, <2>1
       DEF View!Enters, Lists, Addresses, Backers, SameNodes, Others
  <2> QED
    BY <2>2 DEF Seen, View!MembershipNext, Others
<1>4. CASE b \notin Leading
  BY <1>1, <1>4, NothingSeen DEF Leading, Typed, TypeOK
<1> QED
  BY <1>3, <1>4

\* A node that asks for votes has lost its leader.
LEMMA AskersLost ==
  ASSUME Typed, OneFailureInv, NEW n \in alive,
         step[n] \notin {"beat", "adopt", "lead"}
  PROVE  /\ AfterFailure /\ n \in Others
         /\ Undecided(n) \/ Decided(n)
<1>1. AfterFailure
  BY DEF OneFailureInv, BeforeFailure, BootstrapLeads, NoElections, Others,
         Typed, TypeOK
<1> QED
  BY <1>1 DEF AfterFailure, Roles, Follower, Leader

\* The vote of t for v, which n gets.
LEMMA VoteSeen ==
  ASSUME Typed, OneFailureInv, NEW n \in alive, NEW t \in alive \ {n},
         NEW v \in Node,
         step[n] \in {"ask", "wait"},
         votes' = [votes EXCEPT ![n] = @ \cup {v}],
         UNCHANGED <<alive, leaderAddr, isLeader>>,
         \A k \in Node : step'[k] = "addressed" <=> step[k] = "addressed",
         \A k \in Leading : nodes'[k] = nodes[k]
  PROVE  Seen
<1>1. n \in Node /\ t \in Node
  BY DEF Typed, TypeOK
<1>2. AfterFailure /\ Undecided(n)
  BY AskersLost DEF Decided
<1>3. Address(n) = Bootstrap /\ Bootstrap \notin alive
  BY <1>2, ElectionAssumption DEF Address, Undecided, AfterFailure, Others
<1>4. Leading' = Leading /\ Addresses' = Addresses
  BY DEF Leading, Addresses, Address
<1>5. Lists' = Lists
  BY <1>4 DEF Lists
<1>6. CASE Leading = {}
  <2>1. \A k \in alive : Backed(k)' <=> Backed(k) \/ k = n
    <3>1. /\ votes'[n] # {} /\ step'[n] # "addressed"
          /\ \A k \in alive : k # n => votes'[k] = votes[k]
      BY <1>1 DEF Typed, TypeOK
    <3>2. \A k \in alive : k # n => Elected(k)' = Elected(k)
      BY <3>1 DEF Elected
    <3> QED
      BY <3>1, <3>2 DEF Backed, Typed, TypeOK
  <2>2. Backers' = Backers \cup {n}
    BY <1>4, <1>6, <2>1 DEF Backers
  <2>3. View!Votes(t, n)
    BY <1>1, <1>3, <1>4, <1>5, <1>6, <2>2
       DEF View!Votes, Addresses, Lists, Backers
  <2> QED
    BY <1>1, <2>3 DEF Seen, View!MembershipNext
<1>7. CASE Leading # {}
  <2>1. Backers' = Backers
    BY <1>4, <1>7 DEF Backers
  <2> QED
    BY <1>4, <1>5, <2>1, Unseen
<1> QED
  BY <1>6, <1>7

LEMMA ReturnVoteSeen ==
  ASSUME Typed, OneFailureInv, NEW t \in alive, lock[t] # Nobody,
         NEW v \in Node, ReturnVote(t, v),
         \A k \in Leading : nodes'[k] = nodes[k]
  PROVE  Seen
<1> DEFINE n == lock[t]
<1>1. t \in Node
  BY DEF Typed, TypeOK
<1>2. AfterFailure
  BY <1>1 DEF OneFailureInv, BeforeFailure, BootstrapLeads, AllIdle, Idle,
              Others
<1>3. n \in Others /\ n \in alive /\ step[n] = "wait" /\ n # t
  BY <1>1, <1>2 DEF AfterFailure, Locks, Typed, AsksOthers
<1>4. /\ votes' = [votes EXCEPT ![n] = @ \cup {v}]
      /\ step' = [step EXCEPT ![n] = "ask"]
      /\ UNCHANGED <<alive, leaderAddr, isLeader>>
  BY <1>3 DEF ReturnVote
<1> HIDE DEF n
<1>5. \A k \in Node : step'[k] = "addressed" <=> step[k] = "addressed"
  BY <1>3, <1>4 DEF Typed, TypeOK, Others
<1> QED
  BY <1>3, <1>4, <1>5, VoteSeen

\* An election begins, or begins again.
LEMMA StartSeen ==
  ASSUME Typed, OneFailureInv, NEW n \in Node, StartLeaderElection(n)
  PROVE  Seen
<1>1. /\ n \in alive /\ step[n] = "elect"
      /\ isLeader' = [isLeader EXCEPT ![n] = FALSE]
      /\ votes' = [votes EXCEPT ![n] = {}]
      /\ step' = [step EXCEPT ![n] = "ask"]
      /\ UNCHANGED <<alive, nodes, leaderAddr>>
  BY DEF StartLeaderElection
<1>2. ~isLeader[n]
  BY <1>1, LeadersLead
<1>3. isLeader' = isLeader
  BY <1>1, <1>2 DEF Typed, TypeOK
<1>4. Leading' = Leading /\ Addresses' = Addresses
  BY <1>1, <1>3 DEF Leading, Addresses, Address
<1>5. Lists' = Lists
  BY <1>1, <1>4 DEF Lists
<1>6. \A k \in alive : Backed(k)' <=> Backed(k) /\ k # n
  BY <1>1 DEF Backed, Elected, Typed, TypeOK
<1>7. Backers' = Backers \ {n}
  BY <1>1, <1>4, <1>6 DEF Backers
<1>8. View!Forgets(n)
  BY <1>1, <1>4, <1>5, <1>7 DEF View!Forgets, Addresses, Lists, Backers
<1> QED
  BY <1>8 DEF Seen, View!MembershipNext

\* The node elected is another: n follows it.  If it is n, nothing is seen yet.
LEMMA AddressSeen ==
  ASSUME Typed, OneFailureInv, NEW n \in Node, SetLeaderAddress(n)
  PROVE  Seen
<1>1. n \in alive /\ step[n] = "named"
  BY DEF SetLeaderAddress
<1>2. AfterFailure /\ n \in Others /\ Decided(n) /\ Bootstrap \notin alive
  BY <1>1, AskersLost DEF Undecided, AfterFailure, Others
<1>3. PICK e \in Others : Decides(n, e) /\ Elected(n) = e
  <2>1. PICK e \in Others : Decides(n, e)
    BY <1>1, <1>2 DEF AfterFailure, Confirming, Deciding
  <2> QED
    BY <2>1, ElectedOne DEF Decides
<1>4. /\ leaderAddr' = [leaderAddr EXCEPT ![n] = e]
      /\ step' = [step EXCEPT ![n] = "addressed"]
      /\ UNCHANGED <<alive, nodes, isLeader, votes>>
      /\ leaderAddr[n] = Bootstrap /\ ~isLeader[n] /\ votes[n] = {e}
  BY <1>1, <1>2, <1>3 DEF SetLeaderAddress, Decides, Decided
<1>5. Leading' = Leading /\ Lists' = Lists /\ n \notin Leading
  BY <1>4 DEF Leading, Lists
<1>6. Address(n) = Bootstrap
  BY <1>4 DEF Address
<1>7. \A k \in alive : k # n => /\ Address(k)' = Address(k)
                                /\ Backed(k)' <=> Backed(k)
  BY <1>4 DEF Address, Backed, Elected, Typed, TypeOK
<1>8. CASE e = n
  <2>1. Address(n)' = Bootstrap /\ Backed(n)' /\ Backed(n)
    <3>1. Elected(n)' = n
      BY <1>3, <1>4, <1>8 DEF Elected
    <3> QED
      BY <1>1, <1>4, <1>8, <3>1 DEF Address, Backed, Typed, TypeOK
  <2>2. Addresses' = Addresses /\ Backers' = Backers
    BY <1>4, <1>5, <1>6, <1>7, <2>1 DEF Addresses, Backers
  <2> QED
    BY <1>4, <1>5, <2>2, Unseen
<1>9. CASE e # n
  <2>1. Address(n)' = e /\ ~Backed(n)'
    <3>1. Elected(n)' = e
      BY <1>3, <1>4 DEF Elected
    <3>2. e # Nobody /\ leaderAddr'[n] = e /\ step'[n] = "addressed"
      BY <1>4, NobodyIsNoNode DEF Typed, TypeOK, Others
    <3> QED
      BY <1>9, <3>1, <3>2 DEF Address, Backed
  <2>2. Addresses' = [Addresses EXCEPT ![n] = e]
    BY <1>1, <1>4, <1>7, <2>1 DEF Addresses
  <2>3. Backers' = Backers \ {n}
    BY <1>4, <1>5, <1>7, <2>1 DEF Backers
  <2>4. Addresses[n] \notin alive
    BY <1>1, <1>2, <1>6 DEF Addresses
  <2>5. View!Follows(n, e)
    BY <1>1, <1>4, <1>5, <1>9, <2>2, <2>3, <2>4
       DEF View!Follows, Addresses, Lists, Backers
  <2> QED
    BY <2>5 DEF Seen, View!MembershipNext, Others
<1> QED
  BY <1>8, <1>9

LEMMA BecomeSeen ==
  ASSUME Typed, OneFailureInv, Asking, AtMostOneLeader', NEW n \in Node,
         BecomeLeader(n)
  PROVE  Seen
<1>1. n \in alive /\ step[n] = "addressed" /\ Elected(n) = n
  BY DEF BecomeLeader
<1>2. AfterFailure /\ n \in Others /\ Decided(n) /\ Bootstrap \notin alive
  BY <1>1, AskersLost DEF Undecided, AfterFailure, Others
<1>3. votes[n] = {n} /\ leaderAddr[n] = n /\ n \in nodes[n] /\ ~isLeader[n]
  BY <1>1, <1>2, ElectedOne DEF Decided
<1>12. nodes[n] # {n} /\ Bootstrap \notin nodes[n]
  BY <1>1, <1>2
     DEF Asking, Polled, Deciding, AfterFailure, ListsAreKnown, Others
<1>4. /\ isLeader' = [isLeader EXCEPT ![n] = TRUE]
      /\ UNCHANGED <<alive, nodes, leaderAddr>>
  BY DEF BecomeLeader
<1>5. isLeader'[n] /\ \A k \in alive \ {n} : isLeader'[k] = isLeader[k]
  BY <1>4 DEF Typed, TypeOK
<1>6. Leading = {} /\ Leading' = {n}
  BY <1>1, <1>3, <1>4, <1>5 DEF AtMostOneLeader, Leading
<1>7. Lists' = [Lists EXCEPT ![n] = nodes[n]]
  BY <1>4, <1>6 DEF Lists
<1>8. /\ Addresses' = [Addresses EXCEPT ![n] = n]
      /\ Addresses[n] = Bootstrap
  <2>1. Address(n) = Bootstrap /\ Address(n)' = n
    BY <1>3, <1>4, <1>5 DEF Address
  <2>2. \A k \in alive \ {n} : Address(k)' = Address(k)
    BY <1>4, <1>5 DEF Address
  <2> QED
    BY <1>1, <1>4, <2>1, <2>2 DEF Addresses
<1>9. n \in Backers /\ Backers' = {}
  BY <1>1, <1>3, <1>6 DEF Backers, Backed
<1>10. PICK k \in SUBSET Node : k = nodes[n]
  BY DEF Typed, TypeOK
<1>11. View!Leads(n, k)
  BY <1>1, <1>2, <1>3, <1>4, <1>6, <1>7, <1>8, <1>9, <1>10, <1>12
     DEF View!Leads, Addresses, Lists, Backers
<1> QED
  BY <1>11 DEF Seen, View!MembershipNext

\* The connection of a node that follows is not seen.
LEMMA FollowSeen ==
  ASSUME Typed, OneFailureInv, NEW n \in Node, FollowLeader(n)
  PROVE  Seen
<1>1. /\ n \in alive /\ step[n] = "addressed" /\ Elected(n) # n
      /\ step' = [step EXCEPT ![n] = "beat"]
      /\ votes' = [votes EXCEPT ![n] = {}]
      /\ UNCHANGED <<alive, cluster>>
  BY DEF FollowLeader
<1>2. UNCHANGED <<Leading, Addresses, Lists>>
  BY <1>1 DEF Leading, Addresses, Address, Lists, cluster
<1>3. \A k \in alive : Backed(k)' <=> Backed(k)
  BY <1>1 DEF Backed, Elected, Typed, TypeOK
<1>4. Backers' = Backers
  BY <1>1, <1>2, <1>3 DEF Backers
<1> QED
  BY <1>1, <1>2, <1>4, Unseen

LEMMA CleanupSeen ==
  ASSUME OneFailure, Typed, OneFailureInv, NEW l \in Node, NEW d \in Node,
         CleanupInactiveNodes(l, d)
  PROVE  Seen
<1>1. /\ l \in Leading /\ Quiet(l, d)
      /\ nodes' = [nodes EXCEPT ![l] = @ \ {d}]
      /\ SameNodes
  BY DEF CleanupInactiveNodes, Leading, SameNodes, client
<1>2. d \notin alive \/ d = l \/ Address(d) # l
  <2>1. CASE BeforeFailure
    BY <1>1, <2>1 DEF BeforeFailure, AllIdle, Idle, NoElections, Others,
                      Leading, Quiet, OneFailure
  <2>2. CASE AfterFailure /\ d \in alive /\ d # l
    <3>1. d \in Others /\ l \in Others /\ Bootstrap \notin Others
      BY <1>1, <2>2 DEF AfterFailure, Leading, Others
    <3>2. /\ conn[d] # l \/ step[d] \notin {"beat", "adopt"}
          /\ ~(Deciding(d) /\ l \in votes[d])
      BY <1>1, <2>2 DEF Quiet, OneFailure
    <3>3. CASE Follower(d)
      BY <3>1, <3>2, <3>3, NobodyIsNoNode DEF Follower, Address, Others
    <3>4. CASE Leader(d)
      BY <2>2, <3>4 DEF Leader, Address
    <3>5. CASE Undecided(d)
      BY <3>1, <3>5 DEF Undecided, Address
    <3>6. CASE Decided(d)
      BY <2>2, <3>1, <3>2, <3>6 DEF Decided, Deciding, Address
    <3> QED
      BY <2>2, <3>1, <3>3, <3>4, <3>5, <3>6 DEF AfterFailure, Roles
  <2> QED
    BY <2>1, <2>2 DEF OneFailureInv
<1>3. UNCHANGED <<Leading, Addresses, Backers>>
  BY <1>1, SameView
<1>4. Lists' = [Lists EXCEPT ![l] = @ \ {d}]
  BY <1>1, <1>3 DEF Lists, Typed, TypeOK
<1>5. View!Leaves(l, d)
  BY <1>1, <1>2, <1>3, <1>4
     DEF View!Leaves, Lists, Addresses, Backers, SameNodes
<1> QED
  BY <1>5 DEF Seen, View!MembershipNext

\* No election is under way when a node fails, for it is the first that does.
LEMMA CrashSeen ==
  ASSUME OneFailure, Typed, OneFailureInv, NEW n \in Node, Crash(n)
  PROVE  Seen
<1>1. /\ n \in alive /\ alive' = alive \ {n}
      /\ UNCHANGED <<nodes, leaderAddr, isLeader, step, votes>>
  BY DEF Crash, cluster, client
<1>2. BeforeFailure
  BY AfterCrash DEF OneFailureInv
<1>3. Leading' = Leading \ {n}
  BY <1>1 DEF Leading
<1>4. /\ Addresses' = [Addresses EXCEPT ![n] = Nobody]
      /\ Lists' = [Lists EXCEPT ![n] = {}]
  BY <1>1, <1>3 DEF Addresses, Address, Lists
<1>5. Backers = {} /\ Backers' = {}
  <2>1. Bootstrap \in Leading
    BY <1>2 DEF BeforeFailure, BootstrapLeads, Leading
  <2>2. \A k \in Others : ~Backed(k)'
    BY <1>1, <1>2 DEF BeforeFailure, AllIdle, Idle, Backed
  <2> QED
    BY <1>1, <1>3, <2>1, <2>2 DEF Backers, Typed, TypeOK, Others
<1>6. View!Fails(n)
  <2>1. Backers' = (Backers \cup {}) \ {n}
    BY <1>5
  <2> QED
    BY <1>1, <1>3, <1>4, <2>1
       DEF View!Fails, Addresses, Lists, Backers, View!Nobody, Nobody
<1> QED
  BY <1>6 DEF Seen, View!MembershipNext

LEMMA InitSeen == Init => View!MembershipInit
<1> SUFFICES ASSUME Init PROVE View!MembershipInit
  OBVIOUS
<1>1. Leading = {Bootstrap}
  BY ElectionAssumption DEF Init, Leading
<1>2. Addresses = [n \in Node |-> IF n \in alive \ {Bootstrap} THEN Bootstrap
                                                             ELSE Nobody]
  <2>1. /\ Address(Bootstrap) = Nobody
        /\ \A n \in Node \ {Bootstrap} : Address(n) = Bootstrap
    BY ElectionAssumption, NobodyIsNoNode DEF Init, Address
  <2> QED
    BY <2>1 DEF Init, Addresses
<1>3. Lists \in [Node -> SUBSET Node] /\ \A n \in Node : Lists[n] = {}
  BY DEF Init, Lists
<1>4. Backers = {}
  BY <1>1 DEF Backers
<1> QED
  BY <1>1, <1>2, <1>3, <1>4, ElectionAssumption
     DEF Init, View!MembershipInit, Addresses, Lists, Backers, View!Nobody,
         Nobody

LEMMA NextSeen ==
  ASSUME OneFailure, Typed, OneFailureInv, Asking, AtMostOneLeader',
         [Next]_vars
  PROVE  Seen
<1> USE DEF cluster, handler, client
<1>l. \A n \in Leading : n \in alive /\ isLeader[n] /\ step[n] = "lead"
  BY LeadersLead DEF Leading
<1>b. Bootstrap \in alive =>
        step[Bootstrap] = "lead" /\ lock[Bootstrap] = Nobody
  BY DEF OneFailureInv, BeforeFailure, BootstrapLeads, AfterFailure, Others
<1>1. ASSUME NEW n \in Node,
             \/ HeartbeatFails(n) \/ Silence(n) \/ VoteLost(n) \/ Retry(n)
             \/ SetLeaderID(n)
      PROVE  Seen
  <2>1. SameNodes /\ UNCHANGED nodes
    BY <1>1 DEF HeartbeatFails, Silence, VoteLost, Retry, Counted,
                SetLeaderID, SameNodes, Typed, TypeOK
  <2> QED
    BY <2>1, NothingSeen
<1>2. ASSUME NEW n \in Node, NEW t \in Node,
             VoteFails(n, t) \/ RequestVoteProbes(n, t)
      PROVE  Seen
  <2>1. SameNodes /\ UNCHANGED nodes
    BY <1>2 DEF VoteFails, RequestVoteProbes, SameNodes, Typed, TypeOK
  <2> QED
    BY <2>1, NothingSeen
<1>3. ASSUME NEW n \in Node, NEW t \in Node, RequestVote(n, t)
      PROVE  Seen
  <2>1. t \in alive \ {n} /\ n \in alive /\ Smallest(t) \in Node
    BY <1>3, SmallestVote
       DEF RequestVote, Serves, Typed, AsksOthers
  <2> QED
    BY <1>3, <2>1, VoteSeen DEF RequestVote
<1>4. ASSUME NEW a \in Node, NEW b \in Node, LateHeartbeat(a, b)
      PROVE  Seen
  <2>1. a \in Others
    BY <1>4 DEF LateHeartbeat, OneFailureInv, BeforeFailure, AllIdle,
                AfterFailure, Heartbeats
  <2> QED
    BY <1>4, <2>1, HeartbeatSeen DEF LateHeartbeat, SameNodes
<1>5. ASSUME NEW t \in Node, ProbeSucceeds(t)
      PROVE  Seen
  <2>1. probe[t].leader \in Node
    BY <1>5 DEF ProbeSucceeds, Typed, ProbesHaveLeaders
  <2> QED
    BY <1>5, <1>b, <2>1, HeartbeatSeen DEF ProbeSucceeds, SameNodes, Others
<1>6. ASSUME NEW n \in Node, ConfirmLeader(n)
      PROVE  Seen
  <2>1. Elected(n) \in Node
    BY <1>6 DEF ConfirmLeader, Typed, TypeOK
  <2>2. SameNodes
    BY <1>6 DEF ConfirmLeader, Counted, SameNodes, Typed, TypeOK
  <2> QED
    BY <1>6, <1>b, <2>1, <2>2, HeartbeatSeen DEF ConfirmLeader, Counted, Others
<1>7. ASSUME NEW n \in Node, SendHeartbeat(n)
      PROVE  Seen
  <2>1. conn[n] \in Node
    BY DEF Typed, TypeOK
  <2>2. SameNodes
    BY <1>7 DEF SendHeartbeat, SameNodes, Typed, TypeOK
  <2> QED
    BY <1>7, <1>b, <2>1, <2>2, HeartbeatSeen DEF SendHeartbeat, Others
<1>8. ASSUME NEW n \in Node,
             SetNodes(n) \/ RemoveElected(n) \/ ConfirmSucceeds(n)
      PROVE  Seen
  <2>1. /\ SameNodes /\ step[n] # "lead"
        /\ \A k \in Node : k # n => nodes'[k] = nodes[k]
    BY <1>8 DEF SetNodes, RemoveElected, Counted, ConfirmSucceeds, SameNodes,
                Typed, TypeOK
  <2> QED
    BY <1>l, <2>1, NothingSeen DEF Leading, Typed, TypeOK
<1>9. ASSUME NEW n \in Node,
             \/ StartLeaderElection(n) \/ SetLeaderAddress(n)
             \/ BecomeLeader(n) \/ FollowLeader(n)
      PROVE  Seen
  BY <1>9, StartSeen, AddressSeen, BecomeSeen, FollowSeen
<1>11. ASSUME NEW t \in Node, ReturnLeader(t)
       PROVE  Seen
  <2>1. t \notin Leading
    <3>1. AfterFailure
      BY <1>11 DEF ReturnLeader, OneFailureInv, BeforeFailure, BootstrapLeads,
                   AllIdle, Idle, Others
    <3>2. leaderAddr[t] # t
      BY <1>11, <3>1 DEF ReturnLeader, AfterFailure, Locks
    <3> QED
      BY <1>11, <1>l, <3>1, <3>2
         DEF ReturnLeader, AfterFailure, Roles, Leader, Follower, Undecided,
             Decided
  <2>2. leaderID[t] \in Node
    BY <1>11 DEF ReturnLeader, Typed, ProbesHaveLeaders
  <2>3. \A k \in Leading : nodes'[k] = nodes[k]
    BY <1>11, <2>1 DEF ReturnLeader, Leading, Typed, TypeOK
  <2> QED
    BY <1>11, <2>2, <2>3, ReturnVoteSeen DEF ReturnLeader
<1>12. ASSUME NEW t \in Node, ReturnSmallest(t)
       PROVE  Seen
  <2>1. Smallest(t) \in Node
    BY SmallestVote DEF Typed
  <2> QED
    BY <1>12, <2>1, ReturnVoteSeen DEF ReturnSmallest
<1>13. ASSUME NEW n \in Node, Crash(n)
       PROVE  Seen
  BY <1>13, CrashSeen
<1>14. ASSUME NEW l \in Node, NEW d \in Node, CleanupInactiveNodes(l, d)
       PROVE  Seen
  BY <1>14, CleanupSeen
<1>15. ASSUME UNCHANGED vars
       PROVE  Seen
  <2>1. SameNodes /\ UNCHANGED nodes
    BY <1>15 DEF vars, SameNodes
  <2> QED
    BY <2>1, NothingSeen
<1> QED
  BY <1>1, <1>2, <1>3, <1>4, <1>5, <1>6, <1>7, <1>8, <1>9, <1>11, <1>12,
     <1>13, <1>14, <1>15 DEF Next

(***************************************************************************)
(* With at most one failure, and no call that waits its deadline out in a  *)
(* queue, the elections implement Membership, on which Replication is      *)
(* built: seen from outside a failover is one step, a node becomes leader  *)
(* only when there is none, with the vote of another node and with itself  *)
(* in its list, and the leader drops no follower that runs.                *)
(***************************************************************************)
THEOREM ElectionsAreMembership ==
  ASSUME OneFailure
  PROVE  Spec => ImplementsMembership /\ View!MembershipSpec
<1>1. Init => View!MembershipInit
  BY InitSeen
<1>2. /\ Typed /\ OneFailureInv
      /\ Asking
      /\ AtMostOneLeader'
      /\ [Next]_vars
      => [View!MembershipNext]_(View!membership)
  BY NextSeen DEF Seen
<1>3. [View!MembershipNext]_(View!membership)
      => [Cardinality(Node \ alive) <= 1 => View!MembershipNext]_
           (View!membership)
  OBVIOUS
<1> QED
  BY <1>1, <1>2, <1>3, AlwaysOneFailureInv, AlwaysAsking, OneLeader, PTL
     DEF Spec, ImplementsMembership, View!MembershipSpec
=============================================================================
