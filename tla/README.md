# Geomys in TLA+

A verification project for Geomys, a key-value store with a write-through log
and leader-follower clusters. It models the program under `src/` as it is, checks
small instances with TLC, and proves what it can for every instance with TLAPS.

- [Components](#components): the inventory
- [Modules](#modules): what models what
- [Runs](#runs): what is checked, with which bounds and fairness
- [What the code does not do](#what-the-code-does-not-do): the violations
- [Proofs](#proofs)
- [Left out](#left-out) and [What could follow](#what-could-follow)

## Components

| Component | State | Operations | What is hard, and what makes it right |
|---|---|---|---|
| Command handler, `internal/core/commands.go` | none of its own | `HandleCommand`: one command, which it logs, checks and runs | Logging and running are under two locks, one after the other; a refused command is logged already. Right: the log replayed gives the maps. |
| Database, `internal/core/database.go` | `store`, `expiry`, `lists` under `db.mu` | `Set`, `Get`, `Incr`, `Push`, `Lpop`, `Rpop`, `Clear`, the cleanup goroutine, `RebuildFromPersistence` | Deadlines against overwrites, clears and sweeps; wrap of `int`. Right: no deadline without a value, an expired key goes and stays gone. |
| Linked list, `internal/core/list.go` | `head`, `tail`, `length`, cells | pushes and pops at both ends, `Clear` | Empty, one, two elements; the other end's pointers. Right: it is a double-ended queue. |
| Log, `internal/persistence/wtd.go` | `binlog.dat`, the handle `p.file` | `LogRequest`, `LoadRequests`, `Clear` | Torn writes, a truncation that fails half-way, the tail a reader cannot parse. Right: what was answered is replayed. |
| Client connections, `internal/network/server.go` | a goroutine per connection | `HandleConnection`: read, forward or run, reply, replicate; `NewServer`: replay or sync | Interleavings of connections; a reply lost in a crash; the start-up race with the cluster. |
| Election, `internal/cluster/election` | `Heartbeats` under `VoteLock`; the monitor's client, `LastHeartbeat` | `Heartbeat`, `RequestVote`, `MonitorLeader`, `StartLeaderElection`, `ConfirmLeader`, `cleanupInactiveNodes` | Elections at once on several nodes with different lists, a lock held across a call, late heartbeats, crashes at any point. Right: one leader, in the end a leader, nobody waits for ever, the dead leave the list. |
| Membership, `internal/cluster/server.go` | `Nodes`, `LeaderID`, `LeaderAddress` | getters and setters under `c.mu` | The map itself escapes the lock. |
| Replication, `internal/cluster/replication` | none of its own | `ForwardRequest`, `ReplicateToFollowers`, `ReplicateRequest`, `SyncRequest` | Order of concurrent writes at the followers, copies lost, late or made twice, the race of a join with writes in flight, a leader that fails half-way through its followers. Right: what a follower answers OK is on every node in step; replicas in step agree. |
| Conversions, `internal/utils/conversions.go` | none | request to message and back | What a type or an empty field loses on the way. |
| Ring deque, `internal/datastructures/deque.go` | a ring buffer | pushes and pops | Nothing calls it; its header says it is kept as a reference. |
| Start-up, `cmd/server/main.go`; configuration, logger, clients, generated gRPC code | | | |

How they interact: a connection calls `HandleCommand`, which calls the log and then
the database. On a follower the connection forwards a write to the leader, whose
handler calls the same `HandleCommand` and then replicates to every node of `Nodes`.
Election keeps `Nodes`, `LeaderID`, `LeaderAddress` and `config.IsLeader`, which the
connections read. Nothing of the cluster is persisted; a node that fails is not
started again under its old role (`docs/Design.md`, "Cluster Management").

## Modules

**Commands** holds what has no state: the database as a record of three functions
(`store`, the remaining time `left` until `expiry`, `lists`), each operation as a
function from a database to the database it leaves and a reply, the log record of a
request (`RecordOf`) and one turn of the replay (`Replayed`). The conversions are what
they do: a record keeps the command name as it was sent, drops `exp`, and makes an
empty field and a missing one the same. Integers wrap at `Half`, 2^63 in the code.

**Storage** is one process and its disk. Connections are goroutines with a program
counter: `LogRequest` appends the record under the log's lock, `Execute` runs the
command under the database's, other goroutines in between; `ClearDisk` and
`ClearMemory` are the two halves of `FLUSHDB`. `LogRequestFails`, `ClearDiskFails` and
`CrashInWrite` are the disk's errors and torn writes (`DiskMayFail`, `TornWrites`),
`KeyMissing` and the `PANIC` reply the type assertions that end the process, `Crash` the
end at any other point. A restart is `Start`, a `Replay` per record, and `Serve`, and
may crash on its way. `handle` is `p.file`. Where the log cannot be opened or read
(`ReadMayFail`), `NewServer` only warns: `StartWithoutLog` and `ReadFails` go on to serve
with the maps as they are, and the next command opens the log (`OpenLog`) or is answered
with an error (`OpenLogFails`). `Tick` and `Cleanup` are the clock and the sweep, which removes
all expired keys under one lock. `at` and `acked` are history: the place of a record
in the log and the commands answered OK. A torn tail is the entry `Torn`, where
`LoadRequests` stops, because no end marker follows; bytes that would make a torn
record parse with what is written behind it are not modelled.

**DurableKV** is what one client may rely on: a store in which a command takes effect at
one instant, a crash loses at most the reply, and a refused command has no effect.
**Recovery** adds to Storage what a restart makes of the log
(`RebuildFromPersistence`, a fold of `Replayed` over `LoadRequests`), the properties
that compare it with memory, and the refinement of DurableKV: its store is the
rebuilt database, the reply it owes the one `HandleCommand` is about to give.

**LinkedList** is the list at the level of cells and pointers, **Deque** the double-ended
queue it implements. `chain` is history: the cells from left to right.

**Election** is a cluster: `nodes`, `leaderID`, `leaderAddr`, `isLeader` and `heard`
(`Heartbeats`) of each node; `lock` and `probe`, the handler `RequestVote` that holds
`VoteLock` while it heartbeats the leader; `late`, heartbeats past their deadline that
still wait for the lock; and the goroutine of `MonitorLeader` in `step`, `conn`,
`stale`, `todo`, `votes` and `resp`. Every call is two steps, so handlers and other nodes'
elections run between a response and its `SetNodes`; and so is every setter at the end of
`StartLeaderElection` a step (`ConfirmSucceeds`, `SetLeaderID`, `SetLeaderAddress`, then
`BecomeLeader` or `FollowLeader`). An address is the id of the
node. The recursion of `StartLeaderElection` is a return to `elect`. A heartbeat may
enter the map that the callee iterates over, hence the choice in `Heartbeat`.
`CurrentTerm` is never written and is left out.

Time in Election has three parts. `stale` is "15 seconds since `LastHeartbeat`"; it is
true at the start (the zero time) and stays true when a follower moves to a new
leader, since `ConfirmLeader` heartbeats through another client. `Silence` is the end of 15
seconds in which heartbeats fail, and `CleanupInactiveNodes` of 15 without one (`Quiet`).
A node that has just confirmed a leader, or been asked for its vote by one that still
counts, was heard within them (`Deciding`, `HasAsked`), unless it had to queue.

A heartbeat runs into its deadline of 3 seconds where nothing can answer it before. The callee
is down, or the link loses calls (`Lossy`), or the lock it waits for is held by a handler
that waits for it (`Entangled`: the node itself, or two handlers that call each other), or by
`RequestVote` handlers that queue for it (`TimesOut`): each holds `VoteLock` for up to the
3 seconds of its own heartbeat, so two of them, of two nodes that are silent long enough to
ask (`Askers`, `Crowded`), are enough. `Queueing` is the pairs of nodes between which
that may happen; all runs allow it for all. Five nodes are the least that have two
such askers, the node asked and the caller besides the bootstrap node, so four have no such
queue (`NotCrowded`, in the proofs). The 20 seconds of a `RequestVote` call outlast the
queue of five handlers, all that eight nodes can have in front of one
(`DeadlineAssumption`, the one bound on the number of nodes), so that deadline never comes.
A lost `RequestVote` is lost before it is handled.

**Membership** is what the rest of a node sees of the cluster: who runs, who leads,
the address each node forwards to, and the list a leader replicates to. An
election is one step of it. `backed` is the nodes that have the vote of another
while nobody leads; `Votes` and `Forgets` move it, and `Leads` needs it, since a node does
not ask itself. It is the abstract specification of Election (`View`, checked
as `ImplementsMembership`) and the foundation of Replication, which EXTENDS it: the
writes of a cluster are followed through failovers without the elections. What the
refinement promises Replication is that nobody changes its leader while that one
runs, that a node becomes leader only when there is none, with the vote of another, that
it is then in its own list together with another node, and that a leader drops no follower
that runs. The view hides one instant: between `SetLeaderAddress` and `IsLeader` a node
elected has its own address and would forward a write to itself; the view still shows
the address of the bootstrap node, to which a write is forwarded in vain. The refinement holds
while no call between nodes is lost or waits its deadline out in a queue and at most one
node fails (a theorem, and a run: the property of the run asks for it up to the
second failure). A second failure breaks it, and with more nodes the first can
(see [What the code does not do](#what-the-code-does-not-do)). What Replication says of
clusters in which several nodes fail has it as a premise.

**Conversions** is `internal/utils/conversions.go`: a request to the message
`proto.Command` and back. A missing field becomes the empty string and an empty one is
missing afterwards; `exp` comes as whatever integer msgpack chose, survives only from
the wide ones (`Long`) and then in 32 bits (`Int32`), and is dropped otherwise.
`Synced` is the request that the client of `SyncRequest` builds, with all fields.

**Replication** is a cluster of databases and logs. `writes` lists the writes the
clients sent, each with the node that takes it (`to`), how far it is (`stage`),
the nodes that `ReplicateToFollowers` has still to call (`todo`) and what the
client was told. The actions are the steps of the goroutine that has the write:

| Action | Code |
|---|---|
| `WriteOnLeader`, `WriteHere`, `Forward` | the three ways of `HandleConnection`: the leader answers and then replicates; a name in small letters runs where it is; a follower forwards |
| `ForwardRequest`, `ForwardFails`, `ForwardTimesOut` | the handler, and the client's error: nothing there, or 5 seconds over |
| `ReplicateRequest`, `CopyFails`, `CopyTimesOut`, `LateCopy`, `Replicated` | one turn of the loop of `ReplicateToFollowers` and the handler it calls; the end of the loop |
| `NodeEnters`, `NodeLeaves` | `AddNode` and the cleanup, which change the very map the loop ranges over |
| `NodeVotes`, `NodeForgets`, `LeaderChanges`, `BecomesLeader` | a node gets a vote, begins again, and an election ends |
| `Start`, `SyncRequest`, `SyncNext`, `Serve` | `main` and `NewServer` of a node that joins: the address of the leader, its log, one command of it after another, then clients |
| `Crash`, `Expire` | the process ends and its file stays; the cleanup goroutine |

Between `Start` and `Serve` a node is in the leader's list already (its monitor runs
before `NewServer`), so copies arrive before, while and after it replays the log.
`HandleCommand` is one step here; Storage has its two halves. `file` holds the numbers of
the writes a log has, since by `EveryNodeLogsTheSame` it does not matter in which form
a node logged them.

`apart` is a history variable, the nodes that are out of step: those that the code
itself leaves behind or ahead, so that nothing can be promised of them. A node enters
it when it is not in the leader's list while a write starts, when it is
replicated to before it serves, when a copy to it times out, when its leader
fails or drops it before its turn, when it runs a write of its own, when it leads and
replicates to itself, when it syncs from a log that has earlier lives of the
leader in it or from a node out of step, and, with everyone else, when a node that
does not lead replicates a forwarded write. It leaves when it ends: a restart and a
new sync put it in step again. Every entry is a departure listed below;
the properties are about the others.

**MCStorage**, **MCOwnKeys**, **MCOneClient**, **MCCommuting**, **MCLinkedList**,
**MCElection** and **MCReplication** define the values of the constants. Where a
theorem has a hypothesis about the requests (the operators at the head of Recovery), the
module of the run states it as an ASSUME, so that TLC evaluates it on the instance.
**CommandsProofs** holds the lemmas on the commands; **StorageProofs**,
**RecoveryProofs** and **CommutingProofs** on top of it, **LinkedListProofs**,
**ElectionProofs**, **ReplicationProofs** and **AgreementProofs** on top of that, the
theorems.

## Runs

| Run | Question | Instance |
|---|---|---|
| `durable` | Is what was answered OK in the log, does a deadline ever outlive its value? | 2 clients, 1 key, 2-bit ints, a log of 2, every kind of refusal and panic, failing and torn writes, a log that cannot be opened or read |
| `own_keys` | Does a restart at any instant give back what no command in flight touches? Does every key with a deadline go? | 2 clients with a key each, deadlines and overwrites without one, a log of 4 |
| `commute` | Do racing PUSHes and INCRs survive a replay in the other order? | 2 clients on one key, 3-bit ints so that sums wrap, a log that starts with a counter |
| `refine` | Is the server, to one client, a store no crash hurts? | 1 client, every command well-formed or refused, a log of 3 |
| `list` | Are the pointers right, and is it a queue? | 5 cells, 2 values, any number of pops |
| `crashes` | One leader? Do followers follow the leader they name? Is an election one step of Membership, up to the second failure? | 4 nodes, 2 crashes at any step |
| `failover` | Is there a leader in the end, does every vote return, do the dead leave? | 3 nodes, 2 crashes at any step, calls of node 2 to node 1 may get lost |
| `replicas` | Is a forwarded write that was answered OK everywhere? Do replicas in step agree? Can every write go on? | 3 nodes that serve, a client of the leader and one of a follower with a key each, 2 writes, 1 failure or timeout at any step |

Bounds. Two connections are enough for every race of the two locks, as each holds one
command in flight; one more only repeats a pair. `MaxFile` bounds the log, not the
length of a behaviour: `FLUSHDB` empties it and crashes and restarts are unbounded. The
list needs three elements to have a middle, and five pushes give it one after pops at
either end. Four nodes give three survivors with different lists; two crashes let the
successor fail as well, and, among three nodes, a follower that the new leader has heard.
The lost calls of `failover` are heartbeats that node 2 has under way when it dies. In `replicas`, a third node is one that copies reach before
or after the other follower; two writes, one of each client, are in flight together or on
either side of a failover, of a restart, or of a sync, and a PUSH makes a copy that is
missing or made twice visible. One fault is a node that fails (and may come back, sync
and serve) or a call that times out; the two together, and a sync whose leader fails,
do not happen in it; `ForwardedIsEverywhere` and `ReplicasAgree` are proved for them. `Expire` never
waits, so the clock of a node is as fast as it likes. The ids are ordered, so Election has no symmetry; the clients
of `durable` and `commute` send the same requests, and the cells are interchangeable,
and there symmetry is used for invariants and the step refinement only.

The instances also carry preconditions, as the next section shows that recovery and
leadership do not hold without them: `refine` and `own_keys` send no request that is
logged and then refused for a missing field, no lower-case name, and a key has one
client; only `durable` has torn writes and a log that cannot be read; `crashes` loses no calls. In
`replicas` the two clients share no key, as two goroutines of a leader replicate in
no order, and no PUSH is of nothing (`ReplicationAssumption`).

Deadlock is checked in the storage and list runs where something is always possible,
and off in Election and Replication, where a cluster whose nodes are all down stops, and in the runs whose
cfg says so.

Fairness. `FairSpec` of Storage has weak fairness of `Tick` and `Cleanup`: time passes,
and `StartCleanup` loops for ever. Clients, crashes and the disk are under no
obligation. A key whose deadline is renewed again and again would never go; the log
bound makes the SETs finite. `FairSpec` of Election has weak fairness of each
goroutine's own steps and of returns (calls end by an answer or a deadline), and strong
fairness where a lock must be free: Go's `sync.Mutex` hands a waiter the lock after
a millisecond of waiting, so nobody who asks again and again is passed over. The ends of 15
seconds are strongly fair, since what they wait for may come and go: `Silence` for responses
that are still to be adopted, the cleanup for a free lock. A pass of the
cleanup drops every node that is silent, so it is fair to the dead apart from those
that come back. Crashes are never
forced. Replication states no fairness: `NobodyWaits` is the invariant that a write which
is not through has a step of its own to take, whoever is down. Such a step calls one node
less or ends a call, so a write ends as soon as the list stops growing under it.

Properties that say little by their shape are kept to one `TypeOK` per module. In
Replication it carries that a leader serves and a node that serves has synchronized; in
Storage that `INCR` stays a machine int and no panic leaves a goroutine
behind; in Election that no vote is for a node that does not exist.

## What the code does not do

Four runs each check one property that the documentation states and TLC refutes.

| Run | What happens |
|---|---|
| `two_sets` | Two SETs of a key take the two locks in different orders; a restart gives back the one that lost (`commands.go:48`). |
| `circle` | Two survivors elect each other and follow each other: a leader fails just after node 2 joined and before node 3 heard of it, 3 votes for itself, 2 takes 3 for the leader, 3 asks 2 meanwhile and takes 2. Both heartbeats succeed, so no election starts again (`election_server.go:71`). |
| `lossy` | A follower whose calls to the leader are lost becomes a second leader, as the other follower's vote never consults the leader (`election_server.go:56`). |
| `doubled` | Of three nodes the first fails, and node 2 is elected with the vote of node 3. It is in its own list, by the heartbeat with which it confirmed itself, until the cleanup drops it: it runs a PUSH, replicates it to itself and runs it again (`replication_client.go:73`). |

The models have these departures from the documentation too. No run is kept for them;
the passing runs are set up, or their properties stated, so that they do not meet them.

- A key that expired is back for ever after a restart: the log has no `exp`
  (`database.go:227`). `QuietKeysAreRecovered` asks that live values come back, not
  that expired ones stay away.
- A refused command is in the log: a SET without a value makes each later start panic
  (`database.go:227`), a PUSH without one is replayed as a nil element
  (`commands.go:137`). `own_keys` and `refine` send neither.
- `set` runs, is logged as `set`, and is skipped by the replay (`database.go:225`). All
  runs send capitals.
- A SET between the halves of another client's FLUSHDB is gone from memory and back
  after a restart (`commands.go:195`). `own_keys` and `commute` have no FLUSHDB.
- A torn record is never cut off, and hides every later one from the replay
  (`wtd.go:194`). `AckedOnDisk` says that they are in the file, not that they are read.
- The only follower left never leads: it gets no votes and retries for ever
  (`election_client.go:147`).
- Two leaders without a lost call, with six nodes of which one fails. Node 1 is dead and 2
  leads. Nodes 3 and 4 do not know 5 and 6, which joined just before, and the four run
  elections with the lists they have. The `RequestVote` of 5 holds 2's `VoteLock` for the 3
  seconds in which 2 heartbeats itself, that of 6 for the next 3. The confirmations
  of 3 and 4, which elected 2, wait behind them and run into their deadlines: both delete 2
  from their lists, agree on 3, and 3 leads beside 2 (`election_server.go:50`,
  `election_client.go:167`). The model has this behaviour; its schedule of some sixty steps is
  too long for a run to find among six nodes. `OneLeader` excludes it by its
  hypothesis that no call waits its deadline out in a queue.
- Two leaders without a lost call or a queue, with six nodes of which two fail one after the other.
  Node 6 asks node 4 for its vote while leader 2 lives: the handler on 4 heartbeats 2, and
  holds 2's answer, which names node 3. Before it sets its list from it, 2 fails, and 4,
  whose list lacks 3 and whose `LastHeartbeat` is still that of the first leader,
  runs an election at once: 5, which knows 2 only, votes for 4. Now the handler's
  `SetNodes` runs: 4 confirms itself. 3 asks 4, whose handler waits for itself, gives up and
  answers from the new list: 3. So does 5, and 3 leads as well (`election_server.go:62`).
- After a second failure a follower may be left without its leader. A handler's `SetNodes` with
  an older answer may take the node elected out of the list between two of the setters:
  then LeaderID is set, the address is empty, and the early return leaves the
  connection with the node that failed, so that the follower runs elections against
  a leader that lives (`election_client.go:188`). `FollowersFollow` admits
  this one exception, and it is why `ImplementsMembership` stops at the second failure.
- A start that cannot open or read the log is only warned about (`server.go:53`): the
  server answers from empty or half-rebuilt maps, and logs behind records it has not read.
  `AckedOnDisk` and `NoOrphanDeadline` hold through it; recovery is stated for a log
  that can be read (`SoundLog`).
- A node that dies between the old leader and the new stays in the new leader's list,
  and every write waits for it (`election_server.go:130`): `DeadNodesLeave` is about
  the nodes the leader has heard.
- The leader answers its own clients before it replicates (`server.go:175`): a write
  answered OK is lost when it fails in between. `ForwardedIsEverywhere` is about the
  writes that come by way of a follower.
- A follower's copy that fails or times out is logged and not sent again
  (`replication_client.go:81`): the node stays behind until it restarts.
- `ForwardRequest` gives up after 5 seconds and the client is told ERROR, though the
  leader runs and replicates the write (`replication_client.go:41`); the leader
  calls its followers in turn with 5 seconds each, so one that hangs is enough.
- A forwarded `INCR` is answered without the new value: it is an `int`, and only a
  `string` is copied into the reply (`replication_server.go:57`).
- The handler of `ForwardRequest` does not look whether its node leads
  (`replication_server.go:46`).
- `isWriteCommand` knows capitals and five commands (`server.go:184`): `set` and `FLUSHDB`
  sent to a node change that node only.
- `exp` is lost between nodes unless it comes as an `int64`, and then has 32 bits
  (`conversions.go:24`); a node that syncs never has it. `ReplicasAgree` is about keys
  that are never written with one.
- A PUSH without a value, or of the empty string, is refused or run differently
  by the leader, by a follower and in a sync, where a missing field arrives as an
  empty one (`replication_client.go:108`, `conversions.go:42`).
- The commands of a sync are logged behind what the joining node has in its file
  (`replication_client.go:113`): a restarted node that comes to lead serves a log
  with its earlier life in it to those that sync from it.
- Goroutines of two connections replicate in no order (`replication_client.go:73`):
  two writes of one key may end differently on every node.
- A standalone node without `-node_id` has `IsLeader` set and `LeaderID` equal to `NodeID`,
  both 0, and no replication service: its first write is answered and then ends the process
  (`server.go:176`).

`Failover`, which holds, is the promise `circle` refutes with the precondition it
breaks: the survivors know one another before any of them starts an election. It asks for
nothing once all but one are down, as the last follower never leads. Two more
disagreements need no run: `README.md:40` and `docs/Design.md:211` say the highest id
becomes leader, `docs/Design.md:252` and the code say the smallest; and `docs/Usage.md:177`
says PUSH adds an element to the start of a list, while the code adds it at the end
(`database.go`, `Push`).

## Proofs

`tlapm` checks every leaf; the theorems hold for all values of the constants that meet
`CommandsAssumption`, `ConversionsAssumption`, `StorageAssumption`, `NodesAssumption`,
`ElectionAssumption`, `NodeAssumption` and `ReplicationAssumption`, which the runs also
evaluate. Hypotheses beyond these are in the statement of the theorem.

**Storage** (`StorageProofs`). `AckedOnDisk` is not inductive: `Execute` acknowledges a
record on the word of `at`, so the invariant must say that `at` of a connection is
where its record is (`LoggedOnDisk`). `IInv` is `TypeOK`, `LoggedOnDisk` and
`AckedOnDisk`; appends keep positions (`AppendKeeps`), a flush resets both histories, a
crash drops `at`. `TypeCorrect` and `AckedStaysOnDisk` follow. The types of the
operations are lemmas of `CommandsProofs`, up to `HandleCommandType` and `ReplayedType`; the
type of `INCR` rests on `WrapType`. There too is what the agreement of replicas rests
on: a command reads and writes the entries of its own key only (`OtherKeysKept`,
`EffectOfCommand`), and a refused one changes nothing where no list holds the empty
string (`RefusedChangesNothing`; the pop of one is answered with an error, and takes
it). `NoDeadlineIsOrphaned` is inductive over
`TypeOK`: each operation keeps `NoOrphan` of a database, and a sweep drops the same
keys from both maps.

**Recovery** (`RecoveryProofs`, `CommutingProofs`). What a restart rebuilds is a fold over
the log. `RecoveryProofs` begins with what a fold over a sequence does when one element
more comes in, `CommutingProofs` with the same for a sum over a finite set; the
induction itself is over the subsets of Nat that hold zero and the successors of their
members, so no operator is a parameter.
`RebuildAppend` follows: a record more in the log is one `Replayed` more on what the log
rebuilds, and every invariant below compares the two sides of one step.

- `QuietKeysSurvive`: for clients that share no key (`NoSharedKey`), on a log that
  can be read and has no torn records (`SoundLog`), with FLUSHDB for a client alone. Of a key with a command between
  the locks, the rebuilt state is one `HandleCommand` ahead of memory
  (`HandledAsReplayed`); of any other it is memory itself, but for values that
  expired (`KeysRecovered`). During a restart the maps are the fold of the records read
  so far (`ReplaySoFar`).
- `OneClientSeesADurableStore`: the refinement of DurableKV, for one client and no deadlines
  (`AloneWithoutDeadlines`). Writing the record is the commit point, `Execute` the answer,
  a crash between them a lost reply.
- `CommutingNeverLostOrDoubled`: for any finite number of clients that send PUSHes and
  INCRs (`CommutingClients`). `Balanced` is the property itself with the types it needs;
  the proof counts occurrences and adds offsets modulo the width of an int.

**Linked list** (`LinkedListProofs`). `WellFormed` needs `Untouched`: the cells not yet
handed out point nowhere, so a push need not clear what `&node{}` has cleared.
`AlwaysWellFormed` and `TypesHold` are that invariant; `ListIsDeque` maps each operation to the one of
Deque under `items <- Contents`, using that the cells of the list are distinct, so
writing one cell changes no other element.

**Election** (`ElectionProofs`). `TypeCorrect` holds for any crashes and losses; it needs that
a node which confirms has one vote, and that a handler which holds a lock has a leader
to return. The other three theorems have the hypothesis `OneFailure`: no lost call, at
most one failure, and either at most four nodes, of which none can be crowded
(`NotCrowded`, a count), or no call that waits its deadline out in a queue. Without
any of the three they are false (above). Their invariant has two parts.

- `BeforeFailure`: the bootstrap node leads, nobody holds an election, and while all nodes
  live every list is a copy of the leader's, which only grows. Hence, of any two nodes that
  know anybody, the one that heartbeated later knows the other (`Acquainted`).
- `AfterFailure`: a node is a `Candidate` until it confirms another. A node that follows
  another has left its election for good, since that one lives; so no list loses a candidate
  (`Steady`, `NothingForgotten`), every node is a `Follower`, a `Leader`, `Undecided`, or
  `Decided` while its setters run (`Roles`), and a heartbeat, on time or late, tells its receiver of no candidate but
  itself (`Heartbeats`). The heart is `Asked` and `Elections`: a candidate's
  vote is for nobody above it, and for the one that asks only if it knows that one, so a node
  that elected itself is smaller than every candidate it knows, and known to it.
  Two leaders would each be smaller than the other. Between the setters a handler of the
  same node may replace the list: `Confirming` is why the node elected stays in it, for
  it heard from itself when it was asked, and so is in every answer it gives.

There is a lemma per action (`After...`, `Before...`), with a step per conjunct. A vote of
a leader is where the model is subtle: its handler calls itself, times out, and leaves
a late heartbeat, which `Asked` and `Locks` account for. `ElectionsAreMembership` adds a
lemma per kind of step that the view shows (`...Seen`), and `Asking`: a node that has a vote
has another node in its list. TLC checked the invariant
on all states of four nodes before it was proved.

**Replication** (`ReplicationProofs`). `ForwardedSurvives` is the guarantee of a
forwarded write for any number of nodes, faults and elections. `ForwardedIsEverywhere`
is not inductive: it speaks of writes that are over. `IInv` follows every
write from the moment a node has taken it:

- `Covered`: a node in step has run the write, or has it in the part of the
  leader's log it is still to run, or is still to be called for it. When the write is over
  nobody is still to be called, and a node that serves has no log left to run, so it
  has run it (`Sufficient`).
- `LeaderHas`: a leader in step has run every write, which is what makes the log it gives
  to a node that syncs complete. A node that becomes leader has run them all
  because of `Copiers`: a write that a node which leads no more still copies is due
  only to nodes that are gone or out of step.
- `Shape`: one leader, nothing left to sync on a node that serves, nobody to call for a
  write that is not being copied, and no OK for a forwarded write before it is over.

There is a lemma per action (`...Keeps`). What they share is `Carried`: a step keeps
`Covered`, `LeaderHas` and `Copiers` if it takes no run, no command due and no call
from a node in step without giving it the write. `EveryNodeLogsTheSame` is about the
conversions and is why a log can be followed by the numbers of its writes. The theorems
rest on Membership, that is on no call between the nodes being lost but by a crash or a
deadline of replication; `ElectionsAreMembership` gives it to them under its hypothesis.

**Agreement of replicas** (`AgreementProofs`). `ReplicasHoldTheSame` is `ReplicasAgree` for
any number of nodes, faults and elections. The property compares two nodes that serve, at
moments without a copy in flight; nothing in it says how a node that syncs, or one still
to be called, gets there. The invariant `AInv` is `IInv` with two parts more.

`KeyInv(k)` is about one key that is `Plain`, and speaks of its entries only (`At`). The nodes
run the writes in orders of their own; what they do to k is the same, so no order of
all writes is needed.

- `Converging`: there is one state F that every node in step is bound for. `BoundFor`: what
  it has of k, taken through the part of the log it is still to run (`Replays`) and then the
  copy it is still to get, is F. A leader that takes a write moves F on; a copy, a
  command of a sync or the end of a write leaves it where it is.
- `Retraced`: what a node has of k is what its runs, in their order, make of nothing.
  `Fallow`: a node that is yet to ask for the log has nothing of k. Together they are
  why a sync sends the node to the F of the others.
- `InTurn`: only the last write on k can be on its way, so there is at most one copy to
  await. It holds because one connection writes k and waits for each answer;
  its hypothesis, that no write of k is given up, is needed here.
- `NoDeadline`: nobody has a deadline for k, so no sweep touches it.

The three forms of a write, as a client sent it, through the message and back, and out of
a log, do the same to k without "exp" (`FormsDoTheSame`, `StepOfForm`).

`Order` holds for all keys: no copy is due to a node in step that does not serve (`Spared`), late
copies go to nodes out of step (`LateApart`), no list holds the empty string (`NoEmpties`),
and a client that waits has no answer before its write is through, and has it then
(`WellSent`). With it
each action is shown to take no write up again, change no request and send only when the
connection is free (`WritesAdvance`), which carries `InTurn` and `Plain` over a step. There are two
lemmas per action or group of actions, `...Order` and `...Agrees`. `Takes` (a leader takes a write:
nobody awaits another one), `ReplicateRequestAgrees`, `SyncRequestAgrees` and `SyncNextAgrees`
are the steps in which something happens to k on a node in step; the other lemmas say
that the step is on another key, on a node out of step, or does nothing (`Undisturbed`).
TLC checked `KeyInv` and `Order` on the states of the `replicas` instance first.

`NoWriteIsStuck` has from `WellSent` what of `NobodyWaits` can be stated without ENABLED: a
write that is not through meets one of the guards of `Advances` (`Open`), for any number
of nodes. That a step follows from its guard is left to TLC.

Model-checked only: the liveness properties `ExpiredKeysGo`, `Failover`,
`VotesReturn`, `DeadNodesLeave`, which are out of the provers' reach; `NobodyWaits` itself, which is
stated with ENABLED; and elections with two failures, or with a queue, of which the runs say
what four nodes do.

## Left out

- `FLUSHDB` in a cluster, which no node forwards or replicates: Storage has it on one
  node. `Replication` has the five commands `isWriteCommand` knows and their names in small
  letters.
- The reads of a cluster: any node answers them from its maps, as Storage has it.
- Data races on the live map `Nodes` (`GetNodes` returns it, gRPC encodes it after the
  lock is released): their outcome is the end of the process, which `Crash` covers.
- In Election a failed node does not come back: `docs/Design.md` has it join as a new
  one. In Replication it does, with its file.
- fsync: the code never calls it; a crash is the process's, and the file keeps what the
  system call took.
- The accept loop, a request that does not decode, a reply that is not delivered: nothing
  but the connection is lost by them.
- `PING`, `ECHO`, `Len`, `LPush` of the database (no command reaches it), the ring
  deque, which nothing calls, configuration, flags and ports, logging, the clients and
  generated code.

## What could follow

1. BinlogCodec: the reader of `LoadRequests` over the fields of a record, against the
   writer.
