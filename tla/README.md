# Vault: specification and proofs

TLA+ models of the Vault object store (`vault/` in this repository), the TLC
runs that check them on small instances, and TLAPS proofs of the properties
that matter most. `PROJECT.json` is the index: components, runs, the source
lines behind every definition, hazards, findings and theorems.

## 1. The system

Vault is one gateway process and several storage nodes that talk HTTP.

| Component | State | Operations |
|---|---|---|
| Engine (`engine.py`) | calls in progress, cleanup tasks, `_repair_queue` | put, get with inline read repair, head, delete, list, multipart |
| Metadata store (`metadata.py`) | SQLite tables: buckets, objects, multipart uploads and parts | prepare, commit, abort, get, delete, update replicas, list; multipart rows |
| Storage node (`node.py`) | blobs, `.meta` sidecars, staging files, injected faults | PUT, GET, HEAD, DELETE, verify, replicate, heartbeat |
| Quorum policy, ring (`policy.py`, `hashing.py`) | ring tokens and their nodes | `compute_placement`, `check_write_success`; add and remove node, `get_nodes` |
| Cluster manager (`cluster.py`) | registered nodes, status and misses of each | register, deregister, heartbeat rounds |
| Scrubber (`repair.py`) | a scrub in progress | audit and heal the latest versions |
| Rebalancer (`rebalance.py`) | a plan in progress | plan, migrate, prune |
| Client SDK (`client.py`) | what a caller got and will update; a file being sent in parts; a listing | put, get, head, delete, `list_objects`, `upload_large_file` |
| Gateway, CLI, dashboard, metrics, start-up | none that decides anything | routing, formatting, counting |

How they interact. The gateway, engine, metadata store, cluster manager,
scrubber and rebalancer share one process and one asyncio event loop: between
two `await`s nothing else runs, and every SQLite call is synchronous. What is
concurrent is everything separated by an `await`: the HTTP calls to the nodes,
the copies between nodes (`/node/replicate` makes the source PUT to the
target), and the other requests and tasks that the loop runs meanwhile.

What is hard:

* uploads, deletions, repairs and cleanup tasks of one object interleave, and
  each works from what it read before its last `await`;
* a call may be lost, refused, answered too late, or handled by the node after
  the engine gave up on it (30 s in total, 3 s to connect);
* the gateway may restart between two steps: rows and blobs survive, calls,
  tasks and the repair queue do not;
* the metadata calls of one operation are separate transactions, and one may
  raise after another succeeded;
* bytes rot on disk, and a blob can be left without its sidecar;
* heartbeat rounds overlap, and nodes leave and join while pings are under way;
* a part's blob has no version in its name, so uploads of one part overwrite
  each other's files, the failed and the late ones included;
* completions and abortions of one multipart upload run beside each other, and
  check its state before their awaits only;
* clients give up on calls that the gateway carries on with, and start over.

What makes each component correct:

* **put/delete**: a readable version is held by W of the replicas its row
  lists; an object has one latest version; preconditions are decided at the
  commit; an error answer is final; what is refused or deleted is collected;
* **get/repair**: a full read returns what was uploaded; it fails only if the
  object is lost; repair spreads no damage, costs no replica and resurrects
  nothing;
* **failure detector**: status and misses agree; a node is judged by its own
  pings; what stays down becomes DEAD, what stays up becomes HEALTHY;
* **placement**: N distinct nodes, or all there are, on as many racks as there
  are; a node that leaves displaces no other;
* **scrubber**: no intact replica is damaged, what is counted as repaired was,
  and what is reported as lost is;
* **rebalancer**: the replica list follows the copies, the DELETEs follow the
  list, and a version keeps W replicas (it keeps one: section 3);
* **multipart**: what is recorded is held by W nodes; a completed object is the
  parts that were listed, in order;
* **clients**: conditional updates lose nothing; a listing misses nothing that
  was there all along, repeats no object and ends.

## 2. The modules

| Module | Models | Built on |
|---|---|---|
| `VaultData` | objects, versions, contents, nodes | |
| `RackPlacement` | `compute_placement`, as a set definition over the order of a walk | |
| `Placement` | the same for an object, the write quorum | `VaultData`, `RackPlacement` |
| `Catalog` | the objects table and its transactions, as functions on a table | `VaultData` |
| `StorageNode` | blobs and sidecars, what each handler does to them | `VaultData` |
| `ObjectRegister` | abstract specification: one register per object | `VaultData` |
| `WritePath` | `put_object`, `delete_object`, cleanup, the calls, nodes, restarts, rot | `Placement`, `Catalog`, `StorageNode`, instance of `ObjectRegister` |
| `Replication` | `/node/replicate` and the PUT it makes, for whoever asks | `WritePath` |
| `ReadPath` | `get_object` and `_repair_replicas` beside puts and deletes | `Replication` |
| `Scrubber` | `run_scrub` beside puts and deletes | `Replication` |
| `Rebalancer` | `run_rebalance` beside puts and deletes | `Replication` |
| `Multipart` | `upload_part`, completion, abortion, part cleanup, the parts table | instance of `Placement` |
| `LargeUpload` | the SDK's `upload_large_file`, with rot of part blobs | `Multipart` |
| `HashRing` | the ring and `compute_placement`, loop by loop | `RackPlacement` |
| `Client` | callers that update on condition, deletes, paged listings | instance of `ObjectRegister` |
| `FailureDetector` | `ClusterManager` | |
| `HashRingProofs` (with `RackPlacement`), `WritePathProofs` (with `Replication`), `ReadPathProofs`, `ScrubberProofs`, `RebalancerProofs`, `MultipartProofs`, `ClientProofs`, `FailureDetectorProofs` | theorems about them | the module of the name |
| `MC*` | constants for TLC | |

### Data

A *version* is one upload: version ids are fresh uuids, so a blob's path names
a version, and a file is named by a node and a version. `ContentOf[v]` stands
for the bytes uploaded and at once for their SHA-256 and ETag: digests are
only ever compared. `Rot` is what bit rot leaves of any content, its length
kept. Buckets, sizes, content types and custom metadata decide nothing and
are left out.

### WritePath

| Variable | In the code |
|---|---|
| `objects` | the objects table; `ABSENT` is no row |
| `disk` | blob and `.meta` sidecar of each version on each node |
| `wire` | PUT and DELETE calls sent and not handled or lost yet |
| `put[v]`, `del[v]` | the local state of the `put_object` call that uploads `v`, of the `delete_object` call that found `v` latest |
| `cleanup[v]` | what is left to do of `_cleanup_partial_replicas` |
| `queue[v]` | what `put_object` put on `_repair_queue` |
| `rotted`, `crashes` | history, for the bounds and for saying what rot excuses |

An action is the code between two awaits. `PutStart` runs from placement to
the sending of the uploads; `PutCommit`, `PutQuorumError` and
`PutPreconditionError` from the end of the gather to the answer, the row
update, the repair entry and the creation of the cleanup task included.
`PutStoreError` is a metadata call that raises after the gather: the row stays
PENDING, or is committed with the *candidates* as its replicas because
`update_object_replicas` failed. `NodePut`, `NodePutNoSidecar` and
`NodeDelete` are the handlers on a node. `PutTimeout` and `DeleteTimeout` take
a node off the engine's list and leave the call on `wire`, to be handled
later: that is a lost acknowledgement and a late request at once. `Crash` is a
restart of the gateway.

Which nodes are registered (`ring`) and HEALTHY (`healthy`) is chosen anew at
each placement: any behaviour of the failure detector is covered.

### Replication

Read repair, the scrubber and the rebalancer make copies in one way: they POST
`/node/replicate` to a source node (`requests`), which PUTs what is on its disk
to the target under the digest of its sidecar, if there is one (`copies`).
`Replicate` is the handler on the source, `CopyPut` the one on the target. The
asker's own step is added by the module that extends this one.

The answer travels too. A task that counts what was copied awaits one call at a
time: `Told` puts the answer on its way when the call is handled (`reply`), and
`Counted` is its arrival, with any step of anyone else, rot and deletions
included, in between. `GivenUp` is a timeout, before or after the call was
handled. `Restored` are the targets that answered 201, heard or not.
`MayNotAnswer` says of a node that a task may find it deregistered, refusing,
silent or in error, and `AllAnswer` that no node ever is.

### ReadPath

`ReadStart` takes a snapshot of a committed row (by version id or as latest).
`ReadReplica` and `ReadUnreachable` are the loop over the replicas; the order
is free, since the code's order depends on the health of nodes at that moment.
A read asks for all of the object, a range in it, or one that ends past its
end, which a node refuses with 416. `RepairSend` and `RepairSkip` are one
iteration of `_repair_replicas`, `RepairNothing` its return when the source has
no URL, and `RepairFinish` the update of the row from the row as it then is. An
SQLite error of that update goes through `get_object` to the client, who gets
no bytes (`RepairStoreError`). What a copy answered is only logged there, so the
answer decides nothing but when the repair goes on, which is any time after.

### Scrubber

`scrub` is the local state of `run_scrub` and `_audit_and_heal_object`.
`ScrubStart` takes the snapshot of the latest rows and their replica lists.
`Verify` is `handle_verify_object`, which compares the file with the digest of
the row; `VerifyFailed` is every other outcome, and the code puts the node
among the broken ones all the same (`silent` keeps them apart, for the
properties). `AuditLost` reports the object, `AuditDone` picks the donor,
`HealSend` asks for one copy. `HealRequest` and `HealCopy` are what the donor and
the target do with it; their answer is heard in `HealHeard`, which counts the
repair, or given up in `HealTimeout`. The row is neither read again nor changed.

### Rebalancer

`move` is the local state of `run_rebalance` and `_migrate_object`.
`RebalanceStart` makes the whole plan from one SELECT, the ring and the nodes
that are HEALTHY at that instant, which like in `WritePath` are any. Up to the
first call of a run nothing is awaited (a semaphore that is free does not
suspend): the donor is HEALTHY as the plan saw it, and nobody has left
(`AsPlanned`, `MayDonate`). From then on any registered replica may be HEALTHY.
A plan for a single node therefore migrates nothing: that node would have to be
both a donor, and so a replica, and a target, and so none. `MoveSend` asks the
donor for one copy, `MoveHeard` hears of it; `MigrateCommit` computes the new
list from the *planned* row and writes it whatever the row has become, and
starts the DELETEs to the surplus nodes (`prunes`, kept apart from those of
`delete_object`). A DELETE or a copy may outlive the run that made it, by a
timeout or a restart; with `LateCalls` false the next run is not started before
it has landed.

### Multipart

One upload: another one shares nothing with it but the object they write.

| Variable | In the code |
|---|---|
| `upload` | the state column of the `multipart_uploads` row |
| `parts[p]` | the `multipart_parts` row of part `p`: digest and replicas |
| `files[n][p]` | `multipart/<upload>/part_<p>.blob` on node `n`; the name has no version |
| `puts`, `deletes` | calls on their way to a node |
| `sending[u]`, `completing[c]` | the local state of an `upload_part`, of a `complete_multipart_upload` |
| `cleanup[e]` | what the `_cleanup_multipart_parts` task of `e` has to visit yet |
| `object` | the payload that a completion committed last, in chunks |

`PartStart` runs from the check of the state to the sending of the PUTs;
`PartRecorded` and `PartFailed` follow the gather, and `record_part` inserts or
replaces the row whatever has become of the upload. `CompleteStart` reads the
list of parts and checks that they are contiguous, `PartRead` and `PartUnread`
are the loop over parts and replicas, `CompleteDone` is all that follows the
await of `put_object`. `Abort` has no await. A part upload may be late, refused
or lost, also after the upload is over.

`put_object` is one step here, which commits one new version or raises: that
is what `Implementation` (section 4) proves of it, but for the moment at which
it happens. The order of the replicas of a part is free, which covers every
order. A node that fails to write a sidecar is the same as one that answers
late: no reader of a part looks at sidecars.

`LargeUpload` puts the SDK in front: one chunk after the other, the completion,
and the abort in the `except` clause. Losing an answer (`ClientFaults`) is the
SDK's own timeout, after which the gateway carries on.

### HashRing

`ring` is the sorted list of tokens, `owner` is `token_to_node`, `members` the
set of nodes. The hash is any function from virtual nodes to tokens: it is
drawn at the start, so collisions of tokens are among the cases. `Register` and
`Deregister` are `add_node` and `remove_node` with what they do when tokens
collide; a removal that meets a token without an entry raises `KeyError`
half-way (`stumbled`). Lookups run between two awaits and change nothing:
`GetNodes` and `ComputePlacement` are operators, which follow the loops of the
code: `Insert`, `RemoveToken`, `Take` and `SortNode` are the bodies, and the
loops are recursive functions over the steps done. `PlacementAsDefined` ties
them to `RackPlacement!Placed`, which is `Candidates` in all the other modules,
with the distance on the ring as `RingRank`. `RingInv` says what joining and
leaving keep: the lookups depend on it.

### Client

Callers get an object of `Shared` and put what they made of it, with the ETag
in `If-Match`, or with `If-None-Match: *` after a 404. A content is the number
of updates that it results from. The store is `ObjectRegister`, the contract
that `WritePath` is proved to implement: an upload asked for may be installed
at any later time, also when its caller has given up on it and started over
from a get. Deletes and uploads without a condition to other keys run
meanwhile. `ListPage` is one call of `list_objects`: rows above the marker, one
more than the limit, split into objects and common prefixes.

### FailureDetector

`CheckStart` and `CheckDone` are `check_all_nodes`, which the heartbeat loop
and two endpoints of the gateway call concurrently. `Reply` is the node's
answer or its absence, `PingAnswered` and `PingMissed` the rest of
`_ping_node`. A ping carries the registration it was started in: the code
holds on to the `NodeState`, and a node that leaves and joins again gets a
new one. The count of misses stops at `DeadAfter`: the code compares it with
nothing larger.

### What the models leave out

Python exceptions other than the ones named (a failing placement or row
insertion leaves no state behind); streaming (a PUT is handled in one step: a
half-received body never leaves the staging directory, whose files have a name
of their own for each call, and between the renaming and the sidecar there is
no await; a GET opens the file before its first suspension, so that a PUT or a
DELETE meanwhile does not change what it sends); the order of the
gather's results; more than one gateway on one database.

## 3. Properties and runs

Every run takes at most about two minutes with two workers.

| Run | Instance | Checks |
|---|---|---|
| `write` | 2 versions of one object, 2 nodes or none registered, N=W=2, every precondition; refused, lost and late calls, failed sidecars, metadata errors, 1 restart | `IInv`, `AnswersTruthful`, `OneLatest`, `RegisterSpec` |
| `write_calm` | 2 versions, 3 nodes, W=2, full disks, 1 rotted file, fairness | `FailedPutLeavesNothing`, `PutAnswered`, `DeadBlobsCollected` |
| `all_faults` | 1 version, 3 nodes, W=2, 1 read and its repair, every fault, 1 restart, 2 rotted files, any registered nodes | `TypeOK`, `ReadTypeOK`, `CommittedDurable` |
| `read` | 1 version, 2 nodes, N=W=2, 2 reads, metadata errors, 2 rotted files, fairness | `FullReadsExact`, `UnrecoverableMeansLost`, `CopiesVerified`, `ServedReadHeals`, `ReadAnswered` |
| `scrub` | 1 version, 3 nodes, 1 pass; timeouts and late calls, nodes that do not answer, any registered nodes, 1 restart, 2 rotted files | `ScrubTypeOK`, `IntactStays`, `RepairedIsIntact`, `ReportedMeansLost` |
| `rebalance` | 1 version, 4 nodes, N=W=2, 2 runs; two nodes replace one, or join, any HEALTHY nodes, timeouts, refusals, metadata errors, 1 restart | `MoveTypeOK`, `ListedHaveBlob`, `SomeReplicaHeld` |
| `detector` | 1 node, thresholds 2 and 5, 3 registrations, loop and administrator, fairness | `StatusMatchesMisses`, `OwnPings`, `DownNodesDead`, `UpNodesHealthy` |
| `multipart` | 2 uploads of part 1 and 1 of part 2, 2 completions, 1 abortion, 1 node; late and refused calls, errors of `put_object` and of metadata calls, 1 restart | `PartsInv`, `RecordedPartsHeld`, `UnreadableMeansEnded`, `AssembledInOrder` |
| `ring` | 4 nodes of weights 2, 1, 1 and 0 in 2 racks, every hash into 5 tokens, every order of joining and leaving, N=2 | `RingInv`, `LookupsNameMembers`, `PlacementAsDefined`, `RacksSpread`, `MinimalRedistribution` |
| `client` | 4 keys, two of them with one common prefix, 6 uploads, 1 caller beside what it gave up on, pages of 1 row | `ClientTypeOK`, `NoLostUpdate`, `ListedInOrder`, `ListingComplete`, `ListingEnds` |

Two more runs find a statement of the documentation violated by the code:

| Run | Statement | What happens |
|---|---|---|
| `rebalance_prune` | surplus replicas are pruned safely (`rebalance.py:181`) | an object on n1 and n2 is to be on n3 and n4; n1 copies it to n3, the copy to n4 is refused by a full disk, the list becomes n3, and n1 and n2 are pruned: one replica is left of W = 2 |
| `large_upload` | completion "stitches" the parts "into a final object" (`engine.py:453`), integrity is protected against bitrot (`README.md:4`) | one of three replicas of a part rots, the completion reads that one and compares it with no digest, and the object is committed under a digest of its own (`engine.py:482`) |

Without rot, `ReturnedIsTheFile` holds, whatever else goes wrong: on two nodes
with every fault of the gateway and of the SDK, TLC finds no violation.

Seen while modelling and not made a run of:

* pruning is unsafe in two more ways, and TLC finds `PrunesAreSafe` violated by
  each. With N = W = 3 and no fault at all: only n1 and n4 are HEALTHY when the
  plan is made, n1 copies the object to n4, and it is pruned from n2 and n3,
  down to two replicas (`rebalance.py:94`). With timeouts, two runs and
  `LateCalls`: the DELETE for an old replica times out on a slow node, the next
  run copies the object back there, the DELETE arrives, and the run sends
  another one elsewhere; one replica is left of W = 2, and the row lists one
  that is gone (`rebalance.py:186`);
* a node whose answer to an upload was late keeps the blob of a put that was
  refused, though a failed write "is rolled back" (`engine.py:171`;
  `src/README.md:67`): with timeouts, `FailedPutLeavesNothing` fails when both
  nodes of a put carry it out too late, since its cleanup visits only nodes
  whose 201 came;
* a copy of a read repair, a scrub or a migration may land after the DELETE of
  a delete that ran meanwhile, and stays (`engine.py:540`, `repair.py:176`,
  `rebalance.py:158`; `engine.py:335` says that deletion removes the replicas),
  and a version that is deleted before a scrub visits it is reported as
  unrecoverable (`repair.py:100`);
* a replica that did not answer its verification is overwritten by a scrub;
  a donor with no sidecar sends no digest, and may have rotted since it was
  verified: an intact replica is damaged (`repair.py:153`; `repair.py:4` speaks
  of healthy copies). That is what `MCScrubber.cfg` finds with sidecar
  faults added to the metadata errors;
* read repair can spread damage in the same way (`node.py:334`;
  `engine.py:527` says "verified object payload"): `CopiesVerified` fails with
  sidecar failures;
* nothing reads `_repair_queue`, so a write short of N stays short
  (`engine.py:199` and `:208`);
* ranged reads are not verified (`engine.py:274`; `engine.py:232` speaks of
  checksum verification), and a range past the end of an intact object fails
  as unrecoverable (`engine.py:301`);
* `delete_object` answers 204 with no acknowledgement at all, and asks no node
  that has been deregistered, whose blob stays (`engine.py:356`;
  `client.py:175` speaks of a quorum);
* `get_object` is content with one replica, and `check_read_success` has no
  caller, so R decides nothing (`engine.py:262`; `README.md:65`);
* `abort_object` deletes the row it says it marks (`metadata.py:249`); a node
  renames its staging file at once, not "once the write quorum is satisfied"
  (`node.py:124`; `README.md:54`);
* a part that fails its quorum, or is recorded after the upload is over, leaves
  its blobs, and its row, for ever (`engine.py:438`, `:441`; `README.md:67` and
  `:191` speak of cleanup);
* two completions that overlap write two versions of the object, and one that
  overlaps an abortion may commit it: the upload may be marked COMPLETED after
  it was ABORTED, or the reverse (`engine.py:503`);
* the SDK may raise from `upload_large_file`, its abort answered 204, and the
  object appear later: the completion was still under way (`client.py:268`);
* an object replaced twice, back to equal bytes, matches the ETag that a client
  got before: `If-Match` compares contents (`metadata.py:221`). The update that
  follows is one of the bytes that are there;
* the SDK's "retries" and "parallel upload" (`client.py:4`, `:241`) are not
  there, and `get_object`, which "verifies end-to-end integrity"
  (`client.py:124`), compares nothing;
* `list_objects` matches a prefix with LIKE, so `%` and `_` in it are wildcards
  and letters match in both cases (`metadata.py:352`); the common prefix that a
  page ends in is in the next page again (`metadata.py:369`);
* when tokens collide, the removal of a node may raise `KeyError`
  (`hashing.py:44`) with the node dropped from the members and its tokens still
  in the ring; lookups that meet such a token raise as well.

### Why these bounds

* Three nodes with W=2 are the smallest cluster in which a quorum, a missing
  replica and a node beyond the quorum differ. Placement does not depend on
  the ring order when there are no more nodes than N, so nodes are symmetric.
* Two versions are a put and the one it replaces or loses to. With both
  contents as the ETags of a precondition, each condition holds, fails, and
  fails for want of an object. Two nodes with N=W=2 make the loss of one
  acknowledgement a failed quorum; that a node beyond the quorum changes
  nothing is what the proofs are for.
* One restart and one version suffice to cut each operation at each await;
  each file rots at most once, and two rotted files are W of the replicas.
* Two reads repair the same file from different snapshots.
* One pass of the scrubber visits each version once and keeps nothing for the
  next; a version that is deleted between the snapshot and its visit is the
  stale row. No sidecar fails in `scrub`: what happens when one does is among
  the remarks above.
* Four nodes, with N=W=2, are the fewest on which a migration has two targets
  and two surplus replicas, and so the fewest on which one copy of two leaves
  less than W; two runs move an object away and, in part, back. `LateCalls` is
  false: the remarks above lift it. With one object in the table the donor is
  always one of the plan's nodes; that a later migration of the same run may
  have any is only in the proofs. Rot is left to the read and scrub runs: a
  migration verifies nothing.
* The detector's nodes share no state: each has its own counter, and a round
  only waits for all of them.
* In `multipart` one node, with N=W=1, holds every file that overlapping uploads
  of a part write to; two part uploads, completions or ends are the fewest
  that race. More nodes add quorums with a node to spare: `MultipartProofs`
  proves the same properties for any, and TLC finds them true on two nodes with
  N=2, W=1, one completion and one abortion (9 million states, 4 minutes). No GET fails in it:
  `UnreadableMeansEnded` is about completions that no node fails.
* In `ring` five tokens for five virtual nodes contain every coincidence and
  every cyclic order; a node of weight 2 is met twice in a walk, one of weight
  0 counts as 1, and with two racks for four nodes and N=2 both the rack loop
  and the filling of slots run. No lookup depends on how far apart tokens are.
* In `client` an object is created, updated, deleted and created again while
  the listing stands before, at or behind it; pages of one row make every row
  the last of a page, and the middle keys share a prefix across pages.

### Fairness

`Fairness` assumes that the event loop resumes a task that can go on, and that a
node answers a call that reached it: weak fairness of these steps together
(`ServerStep`), in whatever order they come. No client and no fault is fair.
`ReadFairness` is the same for the steps of a read, a request and a copy; the
detector adds that the heartbeat loop comes round again (`while self._running`)
and that requests end, because their session has a timeout. `ListingEnds`
assumes that the pager asks for the next page as long as there is one, and
nothing of the callers.

## 4. Proofs

TLAPS proves every safety property that the passing runs check, for every value
of the constants; the assumptions are those the modules name (`Nodes` is finite,
version ids belong to one object, 1 <= W <= N as `validate_durability` demands,
nodes have distinct places on the ring, `Rot`, `NoFile`, `NoEtag` and
`NoVersion` are no content or version), and where a theorem needs more of the
faults it says so in its statement.

The inductive invariants that a run checks too (`IInv`, `PartsInv`, `RingInv`)
are in the modules of their components; the others, from which the properties
follow, stand at the beginning of the proof modules.

| Theorem | Property | Holds if |
|---|---|---|
| `PlacedCount`, `PlacedOnRacks`, `PlacementStable` | what `Placed` returns, in `RackPlacement` | nodes have distinct places in the walk |
| `RingInvariance`, `LookupsRight` | `RingInv`, `LookupsNameMembers` | the second until a removal raises, as it says |
| `PlacementMatches`, `Spread`, `Redistribution` | `PlacementAsDefined`, `RacksSpread`, `MinimalRedistribution` | no tokens collide, as the properties say |
| `Typing`, `Invariance`, `SingleLatest`, `Truthful` | `TypeOK`, `IInv`, `OneLatest`, `AnswersTruthful` | |
| `Durability` | `CommittedDurable` under `Spec` | |
| `RolledBack` | `FailedPutLeavesNothing` | no timeouts, nodes that are offline, lost sidecars or restarts |
| `Implementation` | `RegisterSpec` under `Spec` | |
| `ReadTyping`, `ReadDurability`, `Exactness`, `ReadImplementation` | `ReadTypeOK`, `CommittedDurable`, `FullReadsExact`, `RegisterSpec` under `ReadSpec` | |
| `LostOnly` | `UnrecoverableMeansLost` | every node stays registered and answers (`AllAnswer`) |
| `RepairsVerified` | `CopiesVerified` | no lost sidecars |
| `Healed` | `ServedReadHeals` | no fault but metadata errors; every node stays registered |
| `ScrubTyping`, `ScrubImplementation` | `ScrubTypeOK`, `RegisterSpec` under `ScrubSpec` | |
| `ScrubDurability`, `Unharmed`, `Repaired` | `CommittedDurable`, `IntactStays`, `RepairedIsIntact` | no lost sidecars |
| `LostAsReported` | `ReportedMeansLost` | no timeouts or no metadata errors; one pass, or no timeouts and restarts |
| `MoveTyping`, `MoveImplementation` | `MoveTypeOK`, `RegisterSpec` under `RebalanceSpec` | |
| `ListedArrived` | `ListedHaveBlob` | `LateCalls` false, or no timeouts and restarts |
| `MoveKeepsReplica` | `SomeReplicaHeld` | the same, and no lost sidecars; any W |
| `PartsInvariance`, `PartsDurable`, `PartsReadable`, `Assembly` | `PartsInv`, `RecordedPartsHeld`, `UnreadableMeansEnded`, `AssembledInOrder` | |
| `UpdatesKept`, `ClientTyping`, `ListingOrdered`, `NothingUnlisted` | `NoLostUpdate`, `ClientTypeOK`, `ListedInOrder`, `ListingComplete` | |
| `StatusAgrees`, `JudgedByOwnPings` | `StatusMatchesMisses`, `OwnPings` | |

The conditions are none of convenience: without them TLC finds the property
violated, by the behaviours that section 3 lists or by the ones named below, and
the runs check the property in an instance that satisfies them. Lost sidecars
harm scrubs and moves only together with metadata errors: these leave the
candidates in a row as its replicas, and with them a replica that never held the
blob and has to be given one, or that holds it without a sidecar. In one place a
theorem may ask for more than it needs: the proof of `Healed` relies on every
copy being verified, and so excludes lost sidecars, though TLC finds no
violation with them in the bounds of `MCReadPath_repair.cfg`.

### Placement and the ring

`HashRingProofs` begins with `Placed`, what `compute_placement` returns, for
every order of the walk. `Positions` says that a walk numbers any set of nodes
from 0 on, and so the first `count` of them are that many (`FirstOfCount`).
Every rack has one leader (`LeadersOfRacks`), which gives the number of racks.
When a node leaves, at most one other becomes a leader, later in the walk than
the one that left (`LeaderReplaced`): no node has more leaders before it than
it had, and none loses its place.

The rest shows that the loops over the ring compute `Placed`, for every hash,
weights, racks, N and history of nodes that join and leave. A loop needs an
induction. The library's induction theorems take a predicate as a parameter,
which the provers here cannot instantiate; `StepByStep` is the same for a set:
what has 0 and with each number the next has all of them, because a set of
naturals has a least member (`LeastNatural`, from the well-foundedness of
`Nat`). With it `LoopRuns` gives, for any loop of n steps over a set of values,
the function from the steps done to the values, so that the recursive function
of a model is what its equation says. Each loop then has a loop invariant, the
set to which `StepByStep` is applied:

* `RingAfterInserts`, `RingAfterRemoval`: the ring stays sorted, gains the tokens
  of the node, or loses those that are its own. A removal raises when it meets
  a copy of a token it has just deleted, so never on a ring that climbs.
  `EntriesAreMembers` holds until a removal has raised; `RingIsOfMembers` only
  if no tokens collide, for a node that leaves takes a shared token with it.
  Both together and the types are `RingInv`.
* `LookupFinds` and `LookupComplete`: `ClockwiseClimbs` says that a walk meets
  the tokens in the order of their distance, and so a node at its nearest token
  (`WalkMeetsNodes`). What is selected after i steps are the eligible owners of
  the first i tokens, by distance; the loop breaks off when they are as many as
  the members, which then they all are.
* `SortedPiles`: the nodes chosen are leaders, and no leader before one of them
  is missing; while there is a slot left, every node passed over has the rack
  of one that is chosen. N leaders of which none is missing are the first N
  (`FirstAre`), and so are the leftovers that fill the slots.

`ComputesPlaced` puts the three together, and `Spread` and `Redistribution`
follow from what is proved of `Placed`.

### Puts and deletes

`CommittedDurable` is not inductive. A commit makes a row readable on the
strength of acknowledgements that are history by then, so the invariant must
say that an acknowledged blob is still there (`AcksHold`); what could remove
it is a DELETE, so it must say that DELETEs, on the wire or still to be sent
by a cleanup task, are for versions that can neither be read nor commit any
more (`DeletesAreForTheDead`); and that needs a row's state to follow from its
put's progress (`RowsFollowPuts`). `PutStoreError` may leave the candidates as
a committed row's replicas, so durability is about a quorum *among* them
(`QuorumHolds`). `LatestUnique` is `OneLatest` without counting.

All but `QuorumHolds` is `Consistent`, which every step of every module keeps;
`QuorumHolds` is what reads, scrubs and rebalances put at risk in their own
ways, and each of their modules has to show it anew. `IInv` is both.
`FileSteps`, `RowSteps` and `HeldKept` say once what a step of `WritePath` may
do to a file and to a row, and the proofs about the other components use them
instead of the thirty actions behind them.

`Implementation` maps `PutStart` to `Ask`, `PutReject` to `RefuseAtOnce`, a
rollback to `Refuse`, `PutCommit` and the committing case of `PutStoreError` to
`Install`, `DeleteObject` to `Remove`, and every other step to a stutter.

`RolledBack` has an invariant of its own, `UploadsTracked`: a PUT on the wire
is one that the put still waits for, and a blob of a refused put is on a node
that the cleanup has yet to visit or whose DELETE is on the wire. A call that
timed out breaks the first, a lost sidecar or a restart the second.

The end of `WritePathProofs` is about `Replication`: what a copy does to files
(`CopyFrame`, `CopySteps`), that it keeps `Consistent`, and `Digested`, which
says that a sidecar names the uploaded content whatever has become of its blob.
As long as that holds a node takes no damaged copy, since it compares what it
received with the digest it was sent.

### Reads and repairs

A repair overwrites files and replaces the row's list of replicas, so
`ReadInv` strengthens the quorum to one that stands in no repair's way
(`HeldBeyondRepair`): of its nodes, a read may have found bad only those that
rot has reached, and these count as they are; and a read that has found nothing
good yet has every one of them still to ask or found it bad. The second half is
`UnrecoverableMeansLost`, and needs nodes that answer: a timeout makes a
replica look bad. `Healed` follows from `HealInv`: each file that a read has
asked a copy for is intact, or the request or an intact copy is under way
(`Healing`), because with one rotted file the source it read from is intact
when it is copied. A second rotted file may be that source.

### Scrubs

Unlike a repair, a scrub overwrites replicas that merely did not answer, so the
quorum is safe only because no copy does damage: `ScrubInv` and `Digested`
together are the invariant of `ScrubDurability`, `Unharmed` and `Repaired`.
`Repaired` is about the moment at which the target answers. The answer goes to
the donor and on to the pass; what rot or a deletion does to the replica
meanwhile is not heard, and the count of repairs says nothing of it.
`AnswersAwaited` is that an answer on its way is to the call that is awaited.
`LostAsReported` has to know that a file found missing does not appear
afterwards. `ReportInv` says that no upload to a listed replica is on its way
when a version is audited (`UploadsOver`; a PUT that timed out can still land,
and is to a listed node only if `update_object_replicas` failed), that no copy
of an earlier visit is (`CopiesApart`), and why: the pass waits for each of its
copies (`CopiesAwaited`).

### Rebalances

`_migrate_object` writes a list computed from the planned row. `ListedInv` says
that the row still has the planned list until then (`PlansHold`), that the
targets counted have the blob (`CopiesArrive`) and that a DELETE is for a node
that the list does not name (`PrunesAreUnlisted`). The last is what a later run
breaks when it makes that node a replica again with the DELETE still on its
way: hence the condition on `LateCalls`, or that every call is waited for
(`CallsAwaited`).

W replicas are not kept: `rebalance_prune` is the counterexample. `MoveKeepsReplica` says what is, whatever W: `HeldInv` adds to
`ListedInv` that the targets that answered 201 hold the uploaded content, or
have rotted since (`DoneHeld`), because sidecars name it (`Digested`); the one
success that a migration demands is then the replica that is left, and the
DELETEs spare it, being for nodes that the list does not name. Neither
assumption is guaranteed by the code. A lost sidecar lets a donor send what
rotted, without a digest to compare it with; with a late DELETE the one replica
left may be the one that it removes. TLC finds both on the four nodes of
`rebalance_prune`, with W = 1: the first with faults `{"store", "sidecar"}` and
one rotted file, the second with `LateCalls`, faults `{"timeout", "full"}` and
three runs allowed. `MoveImplementation` and `MoveTyping` have no condition:
whatever becomes of replicas, no version appears, disappears or gives way to
another.

### Multipart

`RecordedPartsHeld` speaks of rows that are there, and again a row is written on
acknowledgements that are history: `AcksHeld`. They stay true because a file,
once it is there, is only overwritten by an upload of the same part
(`FilesWereSent`) and is only deleted when the upload is over
(`CleanupAfterEnd`), from which no step leads back (`OverForGood`). A
completion works from a list that it read before its awaits, so what holds of
the rows must hold of that list (`RowsHeld(call.list)` in `ReadsProgress`), with
where in it the completion has got to, and with the replicas it has not tried.
`HoldsStep` is the one lemma about files that all others use.

### Clients

A put in flight may be installed long after it was asked for, so
`AskedOnWhatItUpdates` says that its condition names the one content it is an
update of; `CountsFromCreation` says that the count of updates starts again
with the object. The store is the register of `Implementation`: the two
theorems together are about callers over the real write path.

A listing is complete up to its marker and has nothing beyond it
(`CompleteToMarker` in `ListingInv`). That a page keeps this is arithmetic:
`Ranks` numbers a finite set in its order, so that the sorted sequence exists
(`AscendingSorts`), has a last element (`Extremes`), and a page takes everything
up to it (`FirstOfTakes`).

### Failure detector

`StatusAgrees` and `JudgedByOwnPings`, for any nodes, callers and positive
thresholds.

### What stays with TLC

* Liveness (`PutAnswered`, `DeadBlobsCollected`, `ReadAnswered`, `ListingEnds`,
  `DownNodesDead`, `UpNodesHealthy`): the prover has no rules for fairness.
* `LargeUpload`, whose one property the code violates.

## 5. Not modelled, and the plan

In this order:

1. Maintenance together: scrubs, rebalances and read repairs beside each other,
   each writing the replica list or the blobs from its own snapshot.
2. `StagedPut`: streaming into the staging directory and a node's restart,
   with the atomic PUT of `StorageNode` as its abstract specification.

Not modelled: buckets, which are rows that are only ever inserted and decide
nothing. The dashboard, the command line,
metrics, process start-up, the benchmark and HTTP routing keep no state that
the store depends on.
