# A verification of tinykeeper

tinykeeper is a single-node ZooKeeper server in Rust: a tree of znodes in memory
behind one lock, a write-ahead log (WAL) that every change goes through before
it is answered, sessions that own ephemeral nodes, and one-shot watches. This
directory holds TLA+ models of it, the TLC configurations that check them on
small instances, and TLAPS proofs that hold for every instance. Paths such as
`keeper_server.rs:272` are relative to the repository's own `src/`.

## The system

| Component | State | Operations |
|---|---|---|
| `protocol.rs` | none | the requests, their error codes, the wire format |
| `watch_state.rs` | path and kind to sessions, session to path and kind | `register`, `fire`, `clear` |
| `storage.rs` `KeeperStorage` | the map from path to node, `last_zxid` | `create`, `set`, `delete`, `next_zxid`, `set_last_zxid` |
| `storage.rs` `SessionState` | live sessions, the paths each owns, `next_session_id` | `create_session`, `touch_session`, `close_session`, `restore_session`, `add_ephemeral`, `remove_ephemeral` |
| `session_expiry_queue.rs` | a deadline bucket per session | `touch`, `remove`, `get_expired` |
| `changelog/` | the segments on disk, the active segment's buffer, `last_index` | `open`, `append`, `flush` (and `rotate`), `replay` |
| `keeper_server.rs` | the storage under a `RwLock`, the log under a `Mutex` | `new` (replay), `create_session`, `close_session`, `get_expired_sessions`, `apply` and its handlers |
| `dispatcher.rs` | a channel per connected session | the expiry task, `dispatch`, `handshake`, `remove_watch_sender` |
| `connection_handler.rs` | one socket, its session | frames in, responses and notifications out |

How they interact. A connection task reads a frame and calls `dispatch`, which
spawns `KeeperServer::apply`. `apply` touches the session under the storage's
write lock, then the handler takes that lock again and, for a change, the log's
mutex inside it: it checks, takes a zxid, appends and flushes a record, changes
the storage, fires watches and answers, all before it lets go. The answer and the
events it returns are delivered after the lock is gone, the events through a
bounded channel per session. A background task wakes every 500 ms, reads the
expired sessions under a read lock, and closes them one at a time under the write
lock. A restart builds an empty storage and applies the log to it through the
same storage operations the handlers use.

What is hard here:

* **Replay must agree with the handlers.** The log holds requests, not results.
  `KeeperServer::new` repeats by other code what the handlers did, and `expect`s
  each of them to work: where the two differ the server does not start.
* **One step of several fails.** A flush can fail before the write, after it, or
  after the sync (the rotation); the callers differ in what they make of it.
* **Three tables, one truth.** Which session owns a node is in the node, in the
  session's index and (as a child) in the parent; a watch is in two indexes.
* **A Multi works on a clone.** What it stages must be all there or all gone:
  nodes, counters, watches, the log and the events.
* **Sessions end in three ways.** Closed by the client, expired by the background
  task, or replayed; each has its own code.
* **Deadlines.** A deadline is moved by every request, with a clock that was read
  before the lock was waited for, while the sweep lists under one lock and closes
  under others; a restart brings sessions back without any.
* **The files under the log.** A flush is a write, a sync and perhaps a rotation; a
  crash can come between any two of them, leave part of a write, or find files the
  next start must still put in order.
* **Delivery.** Bounded channels, a lock held while one waits for them, and a read
  that is dropped half-way, between the storage and the socket.

What makes each component correct: the map is a tree and the stamps of its nodes
agree (`TreeShape`, `StampsAgree`); an owned node is an indexed leaf and an index
holds only owned nodes; versions identify data and sequential names sort by age;
the watch indexes agree, and whoever watches is told once; zxids and session ids
are never used twice; an acknowledged change is on disk, a refused one is nowhere;
a restart gives back the tree the crash found, and always succeeds; the two maps
of the expiry queue agree, the sweep finds the silent sessions and no other, and
what it has ended stays ended once the log knows of it; the changelog reads back
what it acknowledged, in order; every event reaches the socket of the session it
is for, once, and no task waits for ever.

## Modules

| Module | What it is |
|---|---|
| `Protocol` | paths, requests, error codes, log records |
| `WatchState` | the two watch indexes as a value, `Register`, `Fire`, `Clear` |
| `KeeperStorage` | one `KeeperStorage` as a record, and an operator per method |
| `KeeperServer` | the state machine: variables, `Init`, an action per handler, session event, crash and replay step, `Spec` |
| `KeeperProperties` | its type invariant and its properties |
| `MCKeeper` | paths and workloads for TLC |
| `SessionExpiry`, `MCSessionExpiry` | sessions, their deadlines and the clock; restarts; fairness |
| `Wal` | what a write-ahead log promises, without files |
| `Changelog`, `MCChangelog` | the segments, the flush step by step, crashes and power losses; implements `Wal` |
| `Delivery`, `MCDelivery` | the connections' tasks, the senders' lock, the channels; fairness |
| `KeeperProofs` | each operator of `WatchState` and `KeeperStorage` keeps its type; `KeeperServer` is type-correct |
| `LogProofs` | every step in one form; the log is ordered, and what is acknowledged is in it |
| `TreeProofs` | the trees in memory: shape, owners, index, stamps, numbers, versions |
| `WatchProofs` | the watch indexes agree, a watch fires once, watchers are told |
| `ReplayProofs` | a restart succeeds and restores the tree; refusals change nothing; session ids are fresh |
| `ExpiryProofs` | the queue's maps agree, the sweep is right, the dead stay dead |
| `DeliveryProofs` | nothing is lost between the storage and the socket |
| `ChangelogProofs` | the segments' names tell their ranges; `Changelog` implements `Wal` |

`KeeperServer` is where the components meet: it composes the storage, the watches
and the log, and leaves to chance what the three other machines spell out. Its
sweep may find any session that has a deadline, where `SessionExpiry` says which;
its `disk` is one sequence of whole records, where `Changelog` has files; it hands
`events` out in one step, where `Delivery` sends them one by one. Each of the
three has its own small picture of the rest: `SessionExpiry` of the log (the
records of sessions that are on disk, and those in the buffer), `Changelog` of its
caller (append under the next zxid, flush, apply), `Delivery` of the storage (a
request watches a path or fires the watches on some).

### How the state corresponds

A path is opaque. The code looks it up, splits it at its last `/`, and appends a
ten-digit counter to it, so a path is known by the constants `Parent`,
`ChildName` and `Suffixed`. `Proper` are the paths that split into a parent and a
non-empty name, `Prefix` those a sequential create may name. A path outside
`Proper`, other than `Root`, is one the code refuses as badly formed.

`st` is the storage behind the lock: `map`, `zxid`, `alive` (the keys of
`session_and_timeout`), `eph`, `next`, `queue` (the sessions with a deadline) and
`watch`. A missing key of a HashMap is `NoNode`, or the empty set. `multi` is the
Multi that holds the write lock, with its clone. `disk` is what the segments
hold, `buf` what is appended and not flushed. `conns` are the sessions with an
open connection, `doomed` what the background task has found expired and not yet
closed. `phase`, `pos` and `pend` drive the replay. `reply` and `events` are what
the last step answered and handed to the dispatcher; a Multi's error is in the
body of its reply, under a header that says Ok, and stands in `reply` all the
same. `lost` is history: the tree the last crash found.

A log record holds one zxid and a sequence of primitives: one of them, except for
a Multi. A delete in a Multi is a primitive of its own, because its replay takes
the path out of the owner's index and the replay of a plain delete does not.

In `SessionExpiry` a HashMap or BTreeMap is a function whose domain is its keys:
`timeout` is `session_and_timeout`, `queue.expiry` and `queue.buckets` are the two
maps of the `SessionExpiryQueue`. `now` is the clock; `scan` is the background
task's reading of it from when it wakes until it has the lock, `doomed` its list
of expired sessions. A request carries the reading of the clock it was served
with, which may be any earlier one, since the clock is read before the lock is
waited for. `disk` and `buf` are the records that open and close sessions, in
the segments and in the writer's buffer. A flush writes the buffer, or writes it
and keeps it (a failed sync), or does not write it; `create_session` and
`close_session` drop the answer (`keeper_server.rs:185`, `:199`), and any other
request's flush takes along what is there. A crash loses `buf`, and a start works
out both the sessions and `next` from `disk`. `touched` and `ended` are history.

In `Changelog`, `files` is the directory and `WalStore`'s map of it, from a segment's
first index to its cells. A cell is a whole record or a piece of one: `decode`
takes what follows a piece for the rest of it, stops quietly while bytes are
missing, and fails on the checksum once there are enough; `lack` is how many
cells that takes. `synced` is how much of the active segment a power loss leaves.
`stage` is how far the request has come. `acked`, `applied` and `sound` are history.
`sound` goes off for good when a record is written behind a piece or twice: what
the log promises after that is nothing, and `torn_log` shows it. A request whose
flush failed is not carried out; the opening or the end of a session is, so after a
failed flush the record may be in `applied` or not (`Unacknowledged`), and `Wal` has
the step of a user that goes on without its OK (`GoOn`).

In `Delivery` a connection and its session are one, as a handshake always opens a
new session. `pc` is what the connection's task is doing, `todo` the events it
still has to send, `senders` and `chan` the dispatcher's map and the channels,
`readers` and `waiters` the lock on that map, which is first come, first served.
`cut` are the connections that have dropped bytes of a frame in `select!`.
`stalled` are clients that have stopped reading, for good. `fired` and `told` count
what a session is owed and has been sent.

### Atomicity

A handler holds the storage's write lock from its first check to its answer, and
the log's mutex only inside it, so a request is one action. The lock is let go
once, between `apply`'s touch and the handler. What can happen there is a step of
somebody else, and the touch before it differs from the model's touch after it in
the deadline alone: if the session is closed in between, touching it again does
nothing. A crash in the middle of a handler leaves no record, and is a crash
before the step, or a complete one, and is a crash after it. (Torn records are
`Changelog`'s.) A Multi is an action per operation, since each reads what the ones
before it staged; nothing else can run then, but the process can crash. Replay is
an action per record and per primitive: the storage is nobody else's, yet each
`expect` may end it, and the process can crash again. A loop over a HashSet of
paths is one action with the set that goes chosen by `Reapable`, which allows
every outcome some order of the loop has.

A release build is modelled: i32 counters wrap. The node's `version` counts
without a bound (it would take 2^31 writes of one node).

In `Changelog` the log's mutex makes the requests one at a time; append, write,
sync, rotation and the answer are a step each, with a crash possible between any
two. In `Delivery` a step is what a task does between two awaits: one acquisition
of the lock, one send into a channel, one frame read in two halves. In
`SessionExpiry` it is one hold of the storage's lock.

## What the runs check

Runs of `MCKeeper` have a workload: a set of requests any connected session
may send at any time, any number of times. `Connect`, `Disconnect`, `Sweep`,
`CloseExpired` and `Crash` are always there, and so is the replay.

| Run | Bounds | What it shows |
|---|---|---|
| `tree` | `/a`, `/a/b`, a path that does not parse; 2 sessions, 7 zxids, a counter of 6 values | the tree stays a tree on the live map, on a clone and in every state of a replay; a restart gives back the tree the crash found, stamps included, and never panics; refused requests change nothing; versions identify data; a change of children is stamped |
| `sessions` | `/a`, `/a/b` and a sequential prefix; 2 sessions, 5 zxids, a counter that does not wrap | owned nodes are indexed leaves and the index holds nothing else; a session takes exactly its nodes; ids are fresh across restarts; sequential names sort by age across deletes, expiry and restarts; replay succeeds, brings back every persistent node and invents none |
| `watches` | `/a`, `/a/b`; 2 sessions, 4 zxids | the indexes agree, watchers are told, once, and of nothing that did not happen; what a list watch hears when its own node goes is left open |
| `faults` | writes and rotations that fail at any flush; 2 sessions, 5 zxids | an acknowledged change is on disk, zxids increase in the log, ids are fresh |
| `anything` | every kind of request, syncs that fail, a counter that wraps; 1 session, 4 zxids | the invariants of tree, index and watches need none of the restrictions above |
| `expiry` | buckets of 2 ticks, timeouts of 2 and 3, a clock of 5; 2 sessions | the queue's maps agree; the sweep lists all that are silent for their timeout and an interval, and none that is not silent for its timeout; what it has closed comes back only by a restart that finds its record unwritten; a silent session with a deadline loses it |
| `changelog` | segments of 2 cells, 4 records, pieces that lack 1 cell; every fault | `Changelog` implements `Wal`; the segments' names tell the ranges they cover |
| `delivery` | 2 connections, 2 paths, channels of 2, 2 requests each; one client may stall | no event is lost or doubled between the storage and the socket; only a session that is sent notifications can get out of step; nobody waits for ever |

The bounds. `MaxZxid` limits the transactions a behaviour has, `MaxSession` the
handshakes; both are guards, so at the bound the server only reads, disconnects
and restarts. Seven transactions (`tree`) are two handshakes and five changes: a
node is created, written and deleted by one session and, after a restart, created
and written by another, with a restart to follow. Five (`sessions`) are enough for a
session to open, own several nodes by one Multi, expire, and another to open and
create beside what is left. Two sessions are enough for one to expire while the
other owns, watches or creates. Two levels of nodes
are enough for a parent to be missing, owned, or deleted over its children.
`CversionMax` stands for 2^31 - 1: 2 where the wrap is wanted, out of reach where
it is not. `Data` has two values, so that a write that is lost can be seen. No
run uses a symmetry: session ids are ordered.

`MaxNow` ends time, for which the guards of `Handshake` and `Request` allow no
deadline behind it: five ticks hold the buckets of 2 and 4, so that a deadline
is moved before it passes, and a sweep later than both. One timeout is the width of a
bucket, and one is rounded up. Four
records in segments of two make two rotations, one of them with what an earlier
failure left in the buffer, and a segment that a start finds empty. With two
requests a session can be owed two events at most, so a channel of two never
fills. That is a condition of `NobodyIsStuck`, and stands for the 64 of the code:
the run `stuck`, whose channel is smaller than what one request fires, shows what
happens without it. A session that leaves while another waits, with the lock, for
room in its channel is stuck in the same way.

What `tree` and `sessions` leave out of their workloads (in `sessions`, `Close` and
single deletes; in both, ephemeral parents, the root's deletion and failed flushes)
is what the next section is about: with it their properties do not hold.

### Fairness

`KeeperServer` and `Changelog` have no liveness properties and assume none.
`SessionExpiry!FairSpec` (runs `expiry` and `never_reaped`) has weak fairness of
`Tick` (time passes) and of the background task's three steps: it is an endless
loop around a timer, and all it waits for is the storage's lock, a tokio `RwLock`,
which is granted in turn and which no holder keeps for ever. Clients owe nothing:
a session may go silent at any point, a handshake may never come.
`Delivery!FairSpec` has weak fairness of each connection's task, as tokio polls
every task that can run, for the steps the task takes without its client; the
requests, the broken sockets and the client that stops reading are not fair.
`Answer` and `Notify` write to the socket, which a client that reads lets through;
of one that has stalled nothing is claimed.

## Where the code does not do what the repository says

Each of these is a run that checks one property and finds it violated.

| Run | What happens |
|---|---|
| `delete_panics` | replaying a delete leaves the path in its owner's index; replaying the owner's expiry then panics (`keeper_server.rs:104`) |
| `never_reaped` | a session restored from the log has no deadline, and ends only if its client, which cannot take it up again, comes back (`storage.rs:99`) |
| `torn_log` | a start takes a torn record for the end of the file and appends behind it; what is acknowledged from then on cannot be read back (`wal_store.rs:64`) |
| `stuck` | a session that fires more of its own watches than its channel holds waits for itself, with the senders' lock in its hands (`dispatcher.rs:50`) |

These were met while modelling, and have no run of their own. Each passing run
leaves them out of its workload or its faults, or claims only what holds with them:

* A restart brings back every session that was live, and its ephemeral nodes
  (`storage.rs:99`). A test marked as still to do wants neither: "Sessions do not
  survive the process. Neither should the nodes that belonged to them — an ephemeral
  node that reappears after a restart is a lock with no owner, held forever"
  (`tests/test_11_persistence.py:195`). `never_reaped` shows the last of it. The runs
  take no side on the rest: `sessions` checks `PersistentNodesRestored`, which allows
  ephemeral nodes to come back and to be gone; `RestartRestoresTree`, about the whole
  tree, is checked in `tree`, which has none.
* A client that watches the children of a node hears Child when the node itself is
  deleted (`watch_state.rs:186`). A test marked as still to do wants Deleted
  (`tests/test_08_watches.py:163`: "The child list did not change — it ceased to exist").
  `WatchersAreTold` accepts either.
* `create_session` and `close_session` drop the result of the flush
  (`keeper_server.rs:185`, `:199`; `tasks/bugs/02-09-2026.md`, items 1 and 2). A session
  whose opening was not written is gone after a crash, and its id may be handed out
  again; one whose end was not written is back with its nodes. `ExpiredStaysDead`
  names these two ways back, and says that there is no other.
* `Close` deletes the session's nodes, answers Ok and logs nothing, so a restart
  brings the session and its nodes back; it takes no zxid either, so the parent loses
  a child and keeps its pzxid (`keeper_server.rs:272`).
* A create under an ephemeral node is logged, then refused; the replay of the
  record panics (`keeper_server.rs:789`).
* A session that expired under an open connection goes on creating ephemeral
  nodes, which nothing will delete (`keeper_server.rs:238`).
* The expiry of a session fires no watch for the nodes it deletes
  (`keeper_server.rs:203`).
* A request whose write failed was answered with an error, but its record stays in
  the buffer and goes to disk with the next flush (`segment_writer.rs:67`).
* After a failed sync the buffer is written to the file again, so the log holds
  the same record twice (`segment_writer.rs:68`). `faults` leaves failed syncs out.
* `/a` and `//a` are two nodes and one child (`storage.rs:160`): no run has both.
* The deletion of an empty root is logged and answered Ok although the storage
  refuses it, and its replay panics (`keeper_server.rs:1044`). `anything` includes
  it, and does not claim that replay succeeds.
* The counter behind sequential names is an i32 that wraps in a release build, after
  which names no longer sort by age (`storage.rs:233`).

## What is proved

Every property of the passing runs that is not a liveness property is the
statement of a theorem, for every set of paths with a parent and a name for each,
every workload and every bound. Where the server does not keep a promise without
a condition, the theorem has it as a hypothesis. For `KeeperServer`:

| Theorem | States | Under |
|---|---|---|
| `TypeCorrect` | `TypeOK` | |
| `WatchIndexesAlwaysAgree` | `WatchIndexesAgree` | |
| `WatchesAlwaysFireOnce` | `WatchesFireOnce` | |
| `NewSessionIdsAlwaysFresh` | `NewSessionIdsAreFresh` | |
| `LogAlwaysOrdered` | `LogIsOrdered` | no sync fails |
| `StampsAlwaysAgree` | `StampsAgree` | no sync fails |
| `VersionAlwaysIdentifiesData` | `VersionIdentifiesData` | no sync fails |
| `AcknowledgedAlwaysDurable` | `AcknowledgedIsDurable` | nobody sends `Close` |
| `TreeAlwaysShaped` | `TreeShape` | `NoAliases` |
| `OwnedAlwaysIndexed` | `OwnedNodesAreIndexedLeaves` | `NoAliases` |
| `IndexAlwaysHoldsOwnNodes` | `IndexHoldsOnlyOwnNodes` | no single delete of an `OwnedPaths` |
| `SessionAlwaysTakesItsNodes` | `SessionTakesItsNodes` | the same, `NoAliases` |
| `SequenceAlwaysFollowsAge` | `SequenceFollowsAge` | `NoAliases`, `NamesDiffer`, `[]Unwrapped`, no sync fails |
| `ChildChangeAlwaysStamped` | `ChildChangeIsStamped` | `NoAliases`, `[]Unwrapped`, no sync fails, no `Close` or no ephemerals |
| `WatchersAlwaysTold` | `WatchersAreTold` | no ephemerals |
| `WatchersToldWhileOwnersStay` | `WatchersTold`, step by step | that no session that owns nodes ends in the step |
| `RefusedNeverChanges` | `RefusedChangesNothing` | `Settled`, `[]NamesFree` |
| `LogNeverPanics` | `NeverPanics` | `Restartable`, `[]NamesFree` |
| `RestartAlwaysRestores` | `RestartRestoresTree` | `Restartable`, `[]NamesFree` |
| `PersistentAlwaysRestored` | `PersistentNodesRestored` | the same |
| `NamesAlwaysFree` | `NamesFree` | as `SequenceAlwaysFollowsAge` |

`RestartAlwaysRestores` says what the code does with the ephemeral nodes of a live
session too, which a test wants otherwise (see above);
`PersistentAlwaysRestored` is the part of it that no test disputes.

### The conditions

* `NoAliases`: no two paths have the same parent and child name. The code's `/a` and
  `//a` do (`storage.rs:160`); with both the children sets are wrong.
* "No sync fails": after a failed one the log holds a record twice
  (`segment_writer.rs:68`), and replays it after a younger one.
* `OwnedPaths` are the paths of the workload's ephemeral creates, with every number
  a sequential one can get. A single delete of such a path leaves it in the index when it
  is replayed (`keeper_server.rs:104`), for the next node of that name to go with the
  wrong session. A delete in a Multi may name it.
* `NamesDiffer`: a numbered name tells its prefix and its number, and no plain create
  spells one out. The code appends ten digits, so the first half holds of every
  number that is not negative.
* `Unwrapped`: no node's `cversion` is negative, that is, no directory has seen 2^31
  changes. It is a hypothesis about the behaviour, as `[]Unwrapped`; so is `NamesFree`:
  the name a sequential create gets next is not taken. `NamesAlwaysFree` derives the
  second from the first.
* `Settled`: `NoAliases`, no flush fails, and a create or delete on its own does not
  name an ephemeral parent or an owned path, because the server logs those before it
  finds that it will refuse them, or replays them differently.
* `Restartable`: `Settled`, and nobody deletes the root, and `Close` is not sent or has
  nothing to delete. Multis may do all they like; so may sessions, which own, expire
  and are replayed.

Behind each stands a disagreement or an oddity of the code listed above. Every run
meets the conditions of the theorems for what it checks, with one exception: `tree`
lets counters wrap, and checks `ChildChangeIsStamped` beyond `Unwrapped` (for a count to
come out equal, one step would have to go through a whole cycle of 2^32 changes).

### The argument

Types (`KeeperProofs`). `TypeOK` is inductive as it stands. It says more than it seems
to: that a node only ever sits on a path that splits (so that `fire` and `delete` find
a parent), that a counter stays an i32, and that whatever is in the log, the buffer
or a replay under way is a primitive replay can carry out. There is a lemma per
operator of `WatchState` and `KeeperStorage`, a lemma per handler and one step per
action.

Steps (`LogProofs`). Every handler is brought to one of a few forms, and all that
follows is proved of the forms. A step of a server that is up leaves the tree alone
(`Quiet`), or closes a session without a record (`Left`), or writes one primitive under
the next zxid (`Wrote`), which is then carried out (`Done`) or refused (`Refused`: the
flush failed, or, `Late`, the tree would not have it). `Carried(S, prim, T)` says what a
primitive makes of a tree; an operation of a Multi carries one out on the clone
(`StageCarries`), and a replay does (`ReplayedCarries`), except that it forgets a single
delete in the index (`Forgetful`). So every tree after a step is the empty one or comes
from one before it by one primitive, under no earlier zxid (`NextGrows`), and an
invariant of trees needs a lemma for a create, a set and the removal of a set of nodes
(`CarriedForms`) and no more.

The log (`LogProofs`). The segments alone are not enough for an induction: what a
failed write left in the buffer goes out with a later record. `LogInv` says that
segments and buffer together ascend, that they stay below the live zxid, and that a
replay has the zxid of the last record it took; `MultiInStep` that a staged Multi holds
the zxid after the live one; `LogKnown` that all that is logged was asked for. Every
flush but a failed sync appends one record to that whole (`FlushGrows`).

Trees (`TreeProofs`). The shape of the tree and the owned leaves are one invariant,
with the root's having no owner: neither is inductive alone. A session takes its nodes
in the order of a HashSet, and that none stays behind (`ReapGood`) needs them to be
leaves; that a deletion keeps the tree (`RemoveShaped`) needs what goes to be closed
under children, and names to be those of one child each. `Listed` is the other way
round, and both give that a session takes its own. `Stamped` needs the order of the
log, for a record is replayed under its own zxid. `Counted` says that a `cversion` is no
less than the children there are, which bounds what one expiry can add to it; with it
`Numbered`, that a number in use is below its parent's count, and `Follows`. The action
properties relate a tree to the live one before a Multi: `Keeps` and `Marks` are
transitive and hold of each primitive, so they hold of the clone throughout a Multi
(`MultiKeeps`, `MultiMarks`) and of the step that commits it.

Watches (`WatchProofs`). `Register`, `Clear` and `Fire` each keep the two indexes in
agreement (`FireAgree` is the one that could fail: it takes from the reverse index
what it drains from the forward one). `Uses(S, T, E)` says of two storages and the
events between them that a watch is gone exactly if an event answers it and that
whoever still has one has seen nothing change; it holds of each handler and is put
together over a Multi (`MultiTells`). Nodes that go with a session go without a word,
hence `OwnersStay`.

Restart (`ReplayProofs`). `Remaining(S, recs, k, T)` says that replaying the records from
the k-th on takes S to T and that no operation on the way can panic. `RestartInv`: from
nothing, the whole of the segments gives the live tree while the server is up; the
rest of the log gives `lost` while it replays; a Multi's records so far give the clone.
Appending a record that was carried out extends it, and a step of the replay shortens
it. The empty tree is where both meet.

Refusals and ids (`ReplayProofs`). A refusal changes something only if it is `Late` or a
flush failed; `Settled` and `NamesFree` exclude both. `FreshInv` says that every id that
owns a node, has a watch or a deadline, is connected or is used by a record is opened by
a record of the segments or the buffer; that `next_session_id` is above all of these
while the server is up; and that a replay has it above those it has passed.

`ExpiryProofs` has four theorems about `SessionExpiry`, for any width of a bucket,
any timeouts and any number of sessions: `ExpiryTypeCorrect`, `QueueAlwaysAgrees`
(`[]QueueAgrees`), `ExpiredAlwaysDead` (`ExpiredStaysDead`) and
`OnlySilentAlwaysDoomed` (`OnlySilentAreDoomed`). The invariant adds to `TypeOK` and
`QueueAgrees` that a deadline is the bucket of the last touch (`Deadlines`); that
segments and buffer together open every session that is live or on the task's list,
and close none they do not open (`OpensAll`); and that they close every session that
was ended and that they open (`Buried`). Whatever becomes of a flush, what is appended
is in one or the other (`LogKeeps`). So a restart, which reads the segments alone, can
bring back an ended session only if its closing record was in the buffer.

`DeliveryProofs!NothingIsLost` (`[]NothingLost`), `OnlyWatchersEverLoseStep` and
`DeliveryTypeCorrect` hold for any number of connections, paths and requests and
any capacity, full channels and stalled clients included. The count of what is in
the hands of the tasks that send is the cardinality of a set of pairs (`InFlight`);
a request adds as many pairs as it fires watches of the session (`ApplyTally`), a
send moves one to the channel (`SendInFlight`), and the induction needs that only
such tasks hold events (`Quiet`) and that nobody owes one to a session that has
not joined (`Fresh`).

`ChangelogProofs!ChangelogImplementsWal` is the refinement: `Spec => ImplementsWal`,
for any segment size, any faults and any number of records. `SegmentsAlwaysInOrder`
(`[]SegmentsInOrder`) and `LogTypeCorrect` go with it. While `sound` holds, the
directory is a chain of segments of which only the last can end in a piece
(`Segments`), the buffer runs without a gap from no later than the end of the log
to the last zxid (`NoGap` in `Buffering`), and what is acknowledged lies in what is
synced (`Durable`). What the server has applied without an OK comes after all that
had one (`Applies`, `UnacknowledgedApplies`). So a write that keeps the file in step
begins where the file ends (`WriteMeets`), what it adds comes after all that is there
(`Grown`), what a power loss takes comes after all that stays and was never acknowledged
(`Shortened`), and a replay ends with a zxid no record is behind (`ReplayEnds`). A
step after which the log is not sound is the abstract step that calls the promise
off, and shows nothing.

The proofs rest on the assumptions the modules name: `PathAssumption` (finitely
many paths; a proper path has a parent and a name), `SuffixAssumption` (a
suffixed path is proper and has the parent of its prefix), `BoundAssumption`,
`NoNodeAssumption`, `RequestAssumption` (clients send requests),
`FaultAssumption`, `ClockAssumption`, `LogAssumption` and `DeliveryAssumption`. TLC
evaluates them in the runs of their modules.

## What is only model-checked, and what is not modelled

Liveness is checked by TLC on the instances listed and beyond this prover:
`SilentSessionsEnd` in `expiry` and `NobodyIsStuck` in `delivery`. Only model-checked too
are the runs that expect a violation, and `ChildChangeIsStamped` where counters wrap.

What the models take for granted: a write that returns Ok has reached the file and
a sync that returns Ok the disk; a power loss keeps a prefix of what was written
and the directory's entries; a piece of a record that is long enough to decode
does not have the right checksum; in `SessionExpiry`, a buffer is written whole or
not at all (what a write that is cut off does is `Changelog`'s); records are as
long as each other, which only moves the rotations; the clock does not step back.

Not modelled: the wire codec and the bytes of `record.rs` (stateless; a body that
does not parse is the request `"other"`, and what `decode` makes of a cut-off record
is in `Changelog`); configuration, the server UUID and the wiring in `main.rs`, which
run once before the first request; `ctime`, `mtime` and `aversion`, which the
server never reads back; the persistent kinds of watches, which nothing registers;
the compaction `wal_store.rs` has as a TODO. Raft is planned by the repository and
has no code yet.

## What could come next

1. **An abstract store.** A tree on which each request, Multi or expiry is one
   atomic step, with no clone, log or replay, for `KeeperServer` to refine while
   nothing fails.
2. **Proofs with fewer hypotheses.** `LogNeverPanics` and `RestartAlwaysRestores` while
   writes fail, where the log is ahead of the tree by what was refused; ephemeral
   parents and owned paths in what is asked for on its own, each with the oddity it
   meets as the only exception.
3. **Larger instances.** A third connection in `delivery`, for a chain of tasks that
   wait for each other's channels.
