# A TLA+ model of the memdisag object store

memdisag is Apache Arrow's Plasma object store, changed to share objects between
two machines through disaggregated memory. The code of the system is in
`arrow/cpp/src/plasma`; everything else under `arrow/` is the rest of Arrow,
unchanged, and `bench_*.cc` are programs that time it. All file names below are
relative to `arrow/cpp/src/plasma`.

A Plasma store is one process with one event loop. Clients connect over a Unix
socket and share one memory pool with it. They create objects, write and seal
them, get objects that others sealed (and wait for the ones nobody sealed yet),
release, delete and evict them. What this repository adds: a best-fit allocator of
its own over the shared pool, and a gRPC service through which a store asks its
peer about objects it does not have.

## Inventory

| Part | State | Operations | What makes it correct |
|---|---|---|---|
| Allocator (`plasma_allocator.cc`) | `available_regions_` (free regions by size), `allocated_`, the limit | `Memalign` (best fit, split), `Free` (merge with neighbours) | blocks never overlap or leave the pool, nothing leaks, the count is exact |
| Eviction policy (`eviction_policy.cc`, `quota_aware_policy.cc`) | the global LRU queue; one LRU queue and capacity per client with a quota; owner of each object; the set in use | created, begin and end of access, removed, refreshed, quota set, quota enforced, space required, client gone | evictable means sealed and unused; no object in two queues; capacity conserved; quotas are caps |
| Object table (`store.cc`, `plasma.cc`) | entry per object: state, size, `ref_count`; each client's `object_ids`; `deletion_cache_` | create, create-and-seal (one or a batch), seal, abort, release, delete, evict, connect, disconnect | a sealed object stays, the same, while anybody uses it; counts equal users; deletion happens at the last release |
| Get requests (`store.cc`) | `GetRequest` per waiting client, list of waiters per object, timers | get, late answer from a seal, timeout, end of the client | a get is answered with all objects or at its timeout; nobody waits for a sealed object; a waiting get can always be found |
| Peer RPC (`rpc/rpc.cc`) | none but the connection; the server reads the table under `mutex_` | `GetObjects` | one id, one object in the cluster; a remote object stays while it is read |
| Client library (`client.cc`) | `objects_in_use_` with counts, its own `deletion_cache_`, mmap table | the public API | sends only what the store's checks allow |
| Notifications (`store.cc`, `events.cc`) | queue of pending messages and write callback per subscriber | subscribe, push, send, hang up | in order, none repeated and none lost but by a failed send, descriptors not mixed up, every reader catches up |
| External store (`external_store.cc`, `hash_table_store.cc`) | evicted objects | put, get | every object without memory has a copy to come back from |
| Event loop, protocol, fd passing, mmap (`events.cc`, `thirdparty/ae`, `protocol.cc`, `io.cc`, `fling.cc`, `malloc.cc`) | file events and timers | | plain I/O |

How they interact: the loop calls one handler of the store at a time; handlers call
the policy and the allocator synchronously; the RPC server thread of the store reads
the object table between the store's critical sections; a handler that creates or
gets an object blocks in an RPC to the peer in the middle of its work.

What is hard here: references are counted in three places that have to agree (client,
table, policy); a seal finishes requests of other clients while it walks the list
they are in; timers, seals and disconnections race for the same request; eviction has to
make progress in a fragmented pool; batches fail half-way; a client dies in
any state; the peer, or the RPC to it, fails or the peer changes between question and use; a send is
interrupted or fails half-way through a queue. `PROJECT.json`
lists these hazards line by line.

## Modules

| Module | Models | |
|---|---|---|
| `AllocatorSpec` | | what an allocator promises: disjoint blocks inside the pool |
| `PlasmaAllocator` | `plasma_allocator.cc` | the best-fit free list, with the scan of `Free` one merge at a time |
| `PlasmaAllocator_proofs` | | its theorems |
| `QuotaAwarePolicy` | `eviction_policy.*`, `quota_aware_policy.*` | the policy as a value: each method is an operator from policy to policy |
| `ObjectStoreSpec` | | what a store promises its clients |
| `PlasmaStore` | `store.cc` | the store: object table, references, get requests, eviction |
| `PlasmaClient` | `client.cc` | several client libraries at a store that keeps the promises of `ObjectStoreSpec` |
| `PlasmaCluster` | `store.cc`, `rpc/rpc.cc`, `hash_table_store.cc` | two stores that answer each other, with their mutexes, memory and external stores |
| `Notifications` | `store.cc`, `events.cc`, `thirdparty/ae/ae.c`, `client.cc` | subscriptions, pending queues, write callbacks and the events of a poll |
| `PlasmaCluster_proofs`, `PlasmaClient_proofs`, `Notifications_proofs` | | their theorems |
| `QuotaAwarePolicy_proofs` | | lemmas: what each method of the policy does to its queues |
| `PlasmaStore_proofs`, `PlasmaStoreQuotas_proofs`, `PlasmaStoreGets_proofs` | | the store's theorems: bookkeeping and refinement, quotas, waiting gets |
| `MCAllocator`, `MCStore`, `MCClient`, `MCCluster`, `MCNotifications` | | instances for TLC |

### PlasmaAllocator

`available_regions_` is a set of extents (which of several regions of the same size
is taken is left open), `live` records what the callers hold. `Free` erases the
element its iterator points to and then increments that iterator. This is undefined; in the
model the scan may, from then on, skip any regions or stop. Until the first erasure
it meets all regions in the order of their sizes. `static_cast<int>(regSize)`
is `ToInt`, with the width of `int` as the constant `IntMax`.

### PlasmaStore

`loop` is the handler the event loop is in, with its arguments and
locals; `evict_queue` is what the `EvictObjects` call in progress has yet to do. A
request action (`CreateRequest`, `GetRequest`, ...) starts a handler, the disjuncts of
`Step` carry it out, and no other message is taken until it is done. Handlers are cut
where an RPC thread may look (the mutex is free) or where a choice is made: each
object of a batch, each evicted object, each waiter answered by a seal. Short
handlers (Release, Delete, Evict, Refresh, SetOptions, Abort) are one action.

The guards of the request actions are what `client.cc` enforces before it sends:
one request at a time, seal and abort only what this client created, release only
what it got, no waiting for ever for an object of its own. Everything the *store*
relies on without enforcing it is an effect instead: a failed `ARROW_CHECK` or an
access to a destroyed list sets `crashed` (or `policy.ok` in the policy), and
`NoCheckFailure` says it does not happen.

The peer's answer is a parameter of `ObjectExists` and `GetRemote`: `"MISSING"`,
`"UNSEALED"`, `"OK"`, or `"FAILED"` for a broken RPC. Memory is `allocated_` and the
sizes of the objects; `Fragments` says whether `Memalign` may fail although the bytes
are there, which is exactly what `AllocatorSpec` leaves open and `PlasmaAllocator` does.

### PlasmaClient

A client counts the uses of an object in `objects_in_use_` and tells the store when the
last one ends. `handles` is what the program has and will release; `releases` are the Release
requests under way (the only request without a reply; at most the order of releases of
different objects is lost by keeping them as counts). A call is three steps: the request with
what the library does before it, the store's handling, the reply with what the library
does after it; `client_mutex_` admits no second call meanwhile. Other clients, evictions
and the end of this client come in between. The store is an instance of
`ObjectStoreSpec`, which `PlasmaStore` implements, so the store's steps are the abstract
ones. The peer's objects are a constant: they neither come nor go here. The program
is a correct one; with `ReleaseRemote = FALSE` it never releases a remote object, as
`bench_remote.cc` does not, and without that restriction finding 4 ends the store.

The request guards of `PlasmaStore` use `object_ids` in the place of `objects_in_use_`.
`HeldWhileInUse` and `NothingForgotten` say how far these agree.

### PlasmaCluster

What one store alone cannot show: the two event loops ask each other, and a thread of each
store answers the other's questions under that store's `mutex_`. A handler that asks is cut
at the question (`CreateRequest`, `ObjectExists`, `CreateObject`; `GetRequest`,
`GetRemote`); between its parts the other store and the RPC threads go on. Critical
sections that make no call are one step and only need `mutex_` to be free. The one that
makes a call is `ProcessGetRequest`'s around `AllocateMemory`; for it `mutex_` is a variable,
taken by `GetEvicted`, given back by `Restore` or `OutOfMemory`, and needed by
`EvictVictim`, by `CreateObject` and by the RPC thread (`ServeGetObjects`).

Memory is a set of blocks, each the size of an object, and `memory` the object whose bytes
are in a block. Clients write to the block of their object; the external store reads and
writes at `entry->pointer`, which `Memalign` makes the base of the pool, block 1
(`Put`, `Fetch`). `Leave` is the end of objects in the table or in memory, by
`EraseFromObjectTable` or `EvictObjects`; with an external store an evicted object stays as
a placeholder. `remote` is where a client reads an object of the peer; the peer does not
know about it. An RPC may fail at any time, also with the peer alive: `GetObjects` returns the
empty reply on every gRPC status but OK (`RpcFails`), and `FailsOn` is the read of its first
element, which ends the store (`down`). A store that is killed or has crashed leaves its pool as
it is; RPCs to it fail. That a failed RPC ends the store is what the code does and no
property forbids it; what is checked is that the failure is not taken for the answer that the peer
lacks the object (`DuplicatesOnlyByRace`) and that nobody waits for ever (`HandlersEnd`).

`lost` and `raced` are history variables. `lost` has the descriptors whose object the peer
has evicted or deleted since it answered; `raced` the stores that are about to create an
object which the peer has created since it answered. They state what the code does
*not* promise, so that `RemoteReadsFresh` and `DuplicatesOnlyByRace` can state the rest.

Each store has one client, its gets have timeout 0 and name one object, and it uses one
object of the peer at a time; several clients, waiting gets, sizes and the policy's choice
are in `PlasmaStore`. The object to evict is any sealed one without a user, which is
what `EvictableIffUnused` says of the policy.

### Notifications

The handlers that change the set of sealed objects push a notification to every queue in
`pending_notifications_`, in the order of an unordered map; `todo` has, for every descriptor,
what the handler in progress has yet to push to it, and `sending` is the queue
`SendNotifications` works on, one `send` at a time: `SendOne`, `SendBlocked` for `EAGAIN` (the
socket is full) and `EINTR` (at any time), `SendBroken` for `EPIPE`, `SendFails` for any other
error, which only warns, counts the notification as processed and goes on, and `SendDone`. `Faulty` are
the descriptors whose sends may be interrupted or fail without being full or broken.
`file_callbacks_` are the descriptors with a write callback, `fired` what the last poll returned: as in `aeProcessEvents`, a callback is run
if it is still registered, possibly after other handlers of the same poll. A reader reads or
hangs up at any moment. After `EPIPE` the callback stays registered and may be
in `fired` already; then it dereferences the end of the map (`crashed`).

`NothingLostOrRepeated` is about what a subscriber knows once it has read everything
under way to it (its socket, its queue, and `todo`). `dropped` is a history variable: the objects
that the notifications of failed sends were about. Of these the code promises nothing any more
(finding 9); of all others the subscriber is told everything. `After` says what a list of
notifications tells about an object by its last mention of it; `LeadTo` says that the
list ends, as for the objects it is about, at the store's table and that no notification on the way
is news the subscriber has.

## Runs

| Run | Instance | States | Shows |
|---|---|---|---|
| `allocator` | pool of 5 bytes, 3 blocks, sizes 0 to 3 | 49 000 | no overlap, sound free list, no leak, exact count; implements `AllocatorSpec` |
| `allocator_large_pool` | pool of 8, `int` of 3 bits | violation | finding 1 |
| `store` | 3 clients, 2 objects, one or two ids per get and batch, all timeouts, abort, delete, evict, disconnect, fragmentation | 300 000 | references, evictability, waiters, pending gets, accounting, deferred deletion; implements `ObjectStoreSpec` |
| `store_quota` | 3 objects of 2 sizes, 2 clients, pool of 8, quotas of 2 and 3 | 350 000 | quotas are caps, queues disjoint, evictability, no failed check; out of memory only with an empty global LRU |
| `store_liveness` | 2 clients, 2 objects, objects at the peer, fairness | 140 000 | handlers end, timed gets return |
| `cluster` | 2 stores, 2 objects; store 1 has 2 blocks and an external store and may be killed, store 2 has 1 block | 463 000 | memory and copies accounted for, local and remote reads, duplicates only by a race, handlers end; RPCs fail with the peer alive or gone |
| `notifications` | 2 objects, 2 subscribers (one may hang up), 2 subscriptions, sockets for 1 notification, 3 changes; sends on the first descriptor may be interrupted or fail | 513 000 | every change told once, in order, but for what failed sends were about; callbacks match queues; readers catch up |
| `client` | 2 clients, an object here and one at the peer, gets of one or two ids, also twice the same, at most 2 references per object | 670 000 | the library's counts, and its agreement with the store |
| `store_repeated_get` | gets that name an id twice | violation | finding 2 |
| `store_abort` | 2 clients, aborts and deletes, no quotas | violation | finding 3 |
| `client_release_remote` | as `client`, remote objects released | violation | finding 4 |
| `cluster_restore` | a pool of one block with an external store | violation | finding 5 |

Bounds. Three clients are the least with which a seal meets two waiting gets, one
it completes and one it does not; two objects the least with which a get is partly satisfied and a
batch fails in the middle. `RequireSpace` frees a fifth of the pool, which the
integer division makes 0 below 5 bytes, hence `Limit >= 5`. In `store` two objects
of 2 bytes fit in 5, so memory runs out only through fragmentation; in
`store_quota` three objects of 2 or 3 bytes do not always fit in what the quotas leave,
and in `store_liveness` two of 3 never do. All objects of one batch have one size. `Requests` names the
requests a run leaves out: `store_quota` has no aborts, deletes or batches, because
each of them leads to finding 7 under a quota and hides everything else, and
`store_liveness` has no deletes or aborts. `QuotaCap` is checked with
`evict_if_full = TRUE` only: without it the code does not look at the quota. Client and object names
are interchangeable in the store (symmetry); the liveness run uses none.

In `cluster` both clients create `o1`, which is the race; only store 2 creates `o2`, with
a pool for one object, so that creating evicts the object the other store's client reads
or has just asked for. Store 1 has room for everything: a restore there never has to evict, which
would be finding 5 and end all progress; `cluster_restore` gives it one block. Its
external store still sees evictions (by request and by deferred deletion) and restores.
That either store may be down is why a state without successor is no error there.
In `notifications` a socket takes one notification, so that every queue can be
full, half sent and empty; three changes of two objects include seal, delete and seal again,
and with two descriptors either both clients subscribe or one does so again after it has left.
The first descriptor given is the faulty one; either client may get it, the one that may hang up
too, and the second one shows the queue without failures. When the changes and descriptors are
used up the system may stop.

`OutOfMemoryMeansInUse` says no more than that the *global* LRU queue is empty: `RequireSpace` does
not look into the queues of clients with a quota, so their unused objects may still be there.
`DeletedWhenReleased` takes a side in a disagreement: that an object in use is deleted later is what
the comments in `store.cc` (735, 742) and `test/client_tests.cc:526` say and what the code does;
`client.h` calls such a delete a no operation (finding 6).

Fairness. `WF(Continue)`: the loop goes on with the handler it is in; this assumes that
the peer answers, or fails, in the end. `Continue` leaves out the success of `Memalign`:
in a fragmented pool a repeated request is refused again and again, so success is
assumed only where `Fragments = FALSE`. `SF(TimerFires(c))`: after every round of
file events `aeProcessEvents` runs the timers that are due, so a busy loop delays a
timer but does not starve it; between rounds the timer is disabled by the handler in progress,
hence strong fairness. Nothing is assumed of the clients. In `PlasmaCluster`,
`WF(Continue(s))` as above, `SF(ServeGetObjects(s))` and `WF(~Up(Peer(s)) /\ RpcFails(s))`: the RPC
thread answers; it may find `mutex_` taken by one restore after another, but the loop gives the
mutex back between them and the unlock wakes the waiting thread. An RPC to a peer that is gone
fails in the end; one to a live peer may fail but is not assumed to, since it has no
deadline. So a handler that kept its mutex across an RPC is not saved by a failure. In `Notifications`,
`WF(Loop)`, `WF(GetNotification(c))` and `SF(SendOne)`: a subscriber that has not hung up reads on
(`SubscribersCatchUp` promises nothing to one that does not), and a send that finds room over and over
is not interrupted by a signal every single time.

## Proofs

Eight modules hold theorems and lemmas, each for every value of the constants that satisfies
the named `ASSUME`s of its component. All have the same form: an inductive invariant (`IInv`,
and `GetInv` on top of it for the waiting gets), a lemma that `Init` establishes it, one lemma
per action that the action preserves it, their combination, and one theorem per property that
follows from it. Each property is first checked by TLC in the run of its component, and
so were the invariants of the store before they were proved.

| Module | Proved | Under |
|---|---|---|
| `PlasmaAllocator_proofs` | `TypeOK`, `NoOverlap`, `FreeListSound`, `NoLeak`, `AllocatedExact`, `Implements` (refinement of `AllocatorSpec`) | `SmallPool` |
| `PlasmaCluster_proofs` | `TypeOK`, `BlocksAccounted`, `LocalReadsIntact`, `RemoteReadsFresh`, `DuplicatesOnlyByRace` (an action property) | |
| `PlasmaClient_proofs` | `TypeOK`, `CountsHandles`, `HeldWhileInUse`, `NothingForgotten`, `ReleasesAreHeld` | `~ReleaseRemote` |
| `Notifications_proofs` | `TypeOK`, `NothingLostOrRepeated`, `CallbackIffPending`, `CrashNeedsHangUp` | `ObjectIDs` is finite |
| `QuotaAwarePolicy_proofs` | the lemmas the next three modules use | |
| `PlasmaStore_proofs` | `TypeOK`, `RefCountsHolders`, `EvictableIffUnused`, `AllocatedExact`, `DeletedWhenReleased`, `OutOfMemoryMeansInUse`, `Implements` (refinement of `ObjectStoreSpec`) | `LocalReleases`, `QuotasStayExact` |
| `PlasmaStoreQuotas_proofs` | `QueuesDisjoint`, `QuotaCap` | the same; `QuotaCap` also `CreatesMayEvict` |
| `PlasmaStoreGets_proofs` | `NoWaiterOnSealed`, `PendingGetsAreListed`, `GetBlocks` (an action property), `NoCheckFailure` | the same and `DistinctGets`; `NoCheckFailure` also `PeerAnswering` |

The hypotheses come from the code: each names something that the store does not guard against,
and without it the theorem is false. `SmallPool` is a pool of less than 2^31 bytes; beyond
it the cast in `Free` is wrong and the theorems are false (finding 1). `~ReleaseRemote` is a
program that does not release objects of the peer; with one that does, the store's check fails
(finding 4). Ids have 20 bytes, so there are finitely many; the proof needs it because
the list of existing objects that a subscriber is sent is a sequence.

Those of the store are predicates on its constants, which the passing runs `store`, `store_quota`
and `store_liveness` satisfy:

- `LocalReleases`: clients release only what they got from this store (finding 4).
- `QuotasStayExact`: there are no quotas; or objects are created one at a time and neither
  aborted nor deleted, because an abort, a batch that fails half-way and a deferred deletion
  remove an object without telling the policy, and its owner stays charged for it (finding 7).
- `CreatesMayEvict`: every create sets `evict_if_full`; without it `AllocateMemory` does not
  look at the quota (`store.cc:175`).
- `DistinctGets`: no get names an object twice (finding 2).
- `PeerAnswering`: no RPC fails; a failed one leaves an empty reply, whose first element is
  read. `GetInv` says that nothing else ends the store: `crashed` implies that an RPC may fail.

### Allocator

`IInv` is the conjunction of the five invariants and `ScanInv`, about a
`Free` in progress: the region it assembles contains the freed block, and once it has
moved the start of that region to the left every later match is a non-empty region. The
last part is where the order of the map matters: a zero-byte region left of the block
would match as a left neighbour at any time and, met after a larger one, would set
`offset` back and lose the bytes of the larger one. Since the scan goes up in size, the
empty ones come first. Accounting is proved by counting the bytes that blocks occupy,
with the lemmas `AddBytes` and `BytesOfOneMore`. The refinement maps `Memalign` and
`FreeBegin` to the abstract `Memalign` and `Free` and everything else to stuttering.

### Cluster

`LoopInv` says what a handler may still rely on after it has let go of `mutex_`: the object it
creates or asks for is not in its own table, the one it restores is still a placeholder,
and the victim the policy chose is still evictable when `EvictVictim` comes to it. Only the loop
changes its store's table, which is why this holds; the proof shows that no step of the peer,
its RPC thread or the clients disturbs it. `PlaceInv` follows a descriptor from the RPC thread's
answer to the client's use of it; it holds of what is not in `lost`, and has to hold of the answer
under way too, or using the answer would not preserve it. An RPC may fail in any state, so none of
the invariants may rest on the peer's being alive or its answer's coming. `RaceInv` ties `raced` to the
stores about to create. `LeaveFacts` and `LeaveKeepsIInv` are the lemmas about `Leave`, the
end of objects, which eviction, deletion, release, abort and disconnection share. The two
stores are treated alike through `PeerFacts`.

### Client

The four properties need each other and not much more. `HeldWhileInUse` is preserved when the
store reads a `Release` only because that `Release` is the only one of its client and object,
and the client does not use the object by then (`ReleaseOK`); this in turn needs that calls
which can make the client use it again are answered after the `Release` was read (their
requests come later in the same stream). `CallOK` says what the store has done for the call in
progress, and `WaitOK` what the client remembers meanwhile, so that `GetReply` adds exactly
the references that the store has counted, also for a get that names an object twice.
`StoreInv` is what the store's own promise (`ObjectStoreSpec`) adds.
All parts but `StoreInv` and `ReleasesAreHeld` are about one client (`ClientOK(c)`), and the lemmas about frames show
once for all that a step of one client or of the store on its behalf leaves the others alone.

### Notifications

`CallbackIffPending` is about the loop between two handlers. `CallbackInv` is its form in the
middle of one: the queue that is being sent is exempt, every other one has its callback
exactly if it is not empty. `NothingLostOrRepeated` is nearly inductive as it stands; with it
go the facts that descriptors are not shared, that queues outside the map are empty and
that a descriptor nobody has used has an empty socket. Its proof
rests on lemmas about sequences of notifications: one more notification at the end
(`LeadExtend`: a change of the table), one less at the front (`LeadRead`: a subscriber
reads), one less in the middle (`LeadDrop`: a failed send; what the others tell of the objects
the lost one was not about stays the same, by `AfterDrop`), the first of one sequence moved to the end
of the one before it (`MoveFirst`: a push and a `send` change nothing of what is under way),
and the list of existing objects told to one who knows nothing (`LeadFromNothing`). What a list of notifications tells is defined by
the last mention of an object and not by a fold, because the provers have no induction over
sequences; `AfterNone` and `AfterNext` prove that it satisfies the equations of the fold of `Told`.

### Policy

The policy is a value, so its lemmas are about operators: for each method, which ids are in
which queue afterwards, who owns what, what is charged to whom (`BytesAdd`, `BytesRemove`,
`BytesEjected`), and that `PolicyInv` still holds: queues without repetition, disjoint, and in
agreement with `owned_by_client_`. The provers have no induction over sequences, so
the model defines subsequences and sums without recursion: `Pick(s, I)` by the rank of a position
in `I`, `Total(f)` as the number of pairs of an argument and a number up to its value. What a fold
would give by definition is proved for them: `PickSeq` and `PickPositions` (the elements at `I`,
each once, in order, from a bijection between ranks and positions), `TotalSplit`, `TotalChange`
and `TotalBijection` (sums over parts, after a change of one value, in another order). `NumToEvict`
counts the rounds of the loop of `LRUCache::ChooseObjectsToEvict` that start with fewer bytes than
asked for; `NumToEvictFacts` proves that it is at most the length of the queue and that, unless the
whole queue goes, the items chosen have the bytes asked for (that no fewer items would do is not
needed by any theorem and is not proved).

### Store

`IInv` is `Core`, `RestType` and `LoopInv`. `Core` is about every object by itself (`ObjectInv`):
its `ref_count` is the number of its users, it is evictable exactly if it is sealed and unused,
what waits in `evict_queue` is in no queue of the policy, an owner is charged only for
what exists; and `allocated_` is the sum of the sizes. None of these is inductive alone: that
`EvictOne` finds an unused object needs `EvictableIffUnused` with `evict_queue` counted in,
and that `BeginObjectAccess` takes the object out of the right queue needs `PolicyInv`. `LoopInv`
is what a handler in progress relies on: the objects of a batch created so far are the
client's, unsealed and different (so that a failed batch aborts its own objects only), those
to be sealed are not sealed yet, those to be released are held. `ChangeOne` and `EraseCore`
prove once what a change of one object preserves, `LoopFrame` what leaves a handler alone.
`StoreImplementsSpec` maps every step to a step of `ObjectStoreSpec` or to stuttering; eviction,
which `ObjectStoreSpec` allows only for objects without holders, is where `Core` is needed.

### Quotas

`CapacityKept` says that the capacities of the clients and of the global queue add up to the
pool; `SetClientQuota` and `ClientDisconnected` move capacity, no other method touches it.
`QuotaCap` needs `RoomKept`: between `EnforcePerClientQuota` and the `Memalign` that follows, possibly
after several rounds of `RequireSpace`, nobody uses up the room that was made. This holds
because the loop takes no other message meanwhile, and `RequireSpace` only shrinks queues.

### Gets

`GetInv` relates a request to the lists that name it. Between two handlers a request is short of
exactly the objects it is listed under; in the middle of one it is not, so `Missing(c)` takes what
`UpdateObjectGetRequests` has counted already (`Served`) out and adds what `ProcessGetRequest`
has yet to look for (`ToDo`). With that, `num_satisfied` plus the size of `Missing(c)` is what
the request waits for in every state, whatever it waits for and however often it is partly
answered. `TurnsLeft` is the reason why the loop that walks a list while `ReturnFromGet` removes
from it skips nobody and never runs past the end: the client whose request ends is the one at
`index`, it is in the list once (`ListedOnce`), and what is before it stays in place (`PickAllBut`,
`UnlistedFacts`). `ListedOnce` is what a get with a repeated id breaks. `SealsAnswered` gives
`NoWaiterOnSealed`: the lists of sealed objects that are not empty belong to the seal in
progress. `GetBlocks` follows step by step: a request ends in `UpdateWaiter` or `GetEnd` only with
`Missing(c)` empty afterwards, or with timeout 0, or by its timer, or with its client.

### Only model-checked

- `HandlersEnd`, `TimedGetsReturn`, `SubscribersCatchUp`: liveness and `ENABLED` are outside
  the prover's reach.
- The properties that finding runs violate, and the store outside the hypotheses above, such as
  quotas together with aborts and deletes.

Every invariant and every action property of the passing runs, and both refinements, are proved.

## Findings

1. `plasma_allocator.cc:94`: with free regions of 2 GiB or more, `Free` can merge a
   region that is no neighbour, and memory outside the pool is handed out
   (`allocator_large_pool`).
2. `store.cc:490`: a get that names an object twice counts it twice, and returns before its
   other objects are there (`store_repeated_get`).
3. `store.cc:717`: an abort leaves the id in `deletion_cache_`, so that the next object of that id
   is deleted at its first release (`store_abort`).
4. `store.cc:644`: the client library releases an object of the peer at its own store, whose
   check fails (`client_release_remote`).
5. `store.cc:499`: a restore that has to make room waits for a mutex the loop holds itself
   (`cluster_restore`).
6. `store.cc:743`: `client.h` (213-215, 224-226) calls deleting an object that is unsealed or used by
   another client "a no operation"; the store marks it and deletes it at its last release, as its
   own comments and `test/client_tests.cc:526` say. `DeletedWhenReleased` (run `store`, which
   passes) states what the code does.

Three more come out of the models as well, but have no run of their own:

7. `store.cc:718`: an abort is not reported to the policy, so that under a quota the object stays
   in its client's LRU queue and charged to it; when the client creates it again,
   `ARROW_CHECK(it == item_map_.end())` (`eviction_policy.cc:28`) ends the store. TLC shows it as a
   violation of `NoCheckFailure` in `MCStoreAbort.cfg` with `Quotas = {3}` and `Sizes = {1}`. It is why
   `store_quota` has no aborts and the theorems have `QuotasStayExact`.
8. `plasma_allocator.cc:63`: every object has the base of the pool as its pointer, so restoring one
   from the external store overwrites the object that lies there, sealed or not, although
   `client.h:205-207` says "The object will be immutable after this call". `Put` and `Fetch` model
   it, and it is why `LocalReadsIntact` and `RemoteReadsFresh` speak of bytes only in stores without an
   external store.
9. `store.cc:917`: a `send` that fails with an error other than a full or a broken socket drops the
   notification; the subscriber stays subscribed and is never told, although `client.h:257-258` says
   "Whenever an object is sealed, a message will be written to the client socket". `SendFails` models
   it, and it is why `NothingLostOrRepeated` and `SubscribersCatchUp` exempt what is in `dropped`.

## Not modelled

- The bytes `CreateAndSeal` copies to the base of the pool (`store.cc:1064`). For the same
  reason `LocalReadsIntact` and `RemoteReadsFresh` speak of bytes only in stores without an
  external store.
- An external store that fails (`store.cc:571`): the hash table, the only one here, does not.
- Metadata of objects, and with it the size check of `HashTableStore::Get`.
- Numbers of descriptors that are used again, a message sent in part, the byte stream of a
  connection: `Notifications` has whole messages and fresh descriptors.
- A store that restarts: it comes back empty, as a new one.
- The client's mmap table and hashing, threads within one client, requests that only read
  (Contains, List, GetDebugString), counters that are only printed
  (`pinned_memory_bytes_`), serialisation, CUDA and the benchmarks.
- `dlmalloc.cc` is no longer called. The rest of Arrow (`arrow/` outside
  `cpp/src/plasma`, by far most of the repository's lines) is vendored unchanged: the
  columnar format, file formats, compute kernels and language bindings take no part in what
  this system does.

The hazards without a property in `PROJECT.json` each say which of these they fall under.

## Plan

Done: allocator, its abstraction and proofs; policy and its lemmas; one store and its
abstraction, with proofs of its bookkeeping, quotas, gets and refinement; the client library and its
proofs; two stores with RPC threads and external store, with proofs; notifications, with proofs.

Left: data. `PlasmaStore` composed with `PlasmaAllocator`, with the place of every write, would
cover the bytes `CreateAndSeal` copies to the base of the pool.
