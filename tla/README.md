# TLA+ verification of playground-cpp

The repository holds a small Redis-like server (`build-your-own-redis/`), the
intrusive containers it is built from, a client, and stand-alone exercises
(`example/`). This directory models the server and its containers in TLA+,
checks the models with TLC, and proves theorems about them with TLAPS. Every
definition is translated from the C++ source; `PROJECT.json` maps each to its
lines.

## 1. The system

### Components, state, operations

| Component | Source | State | Operations |
|---|---|---|---|
| Event loop | `server/main.cc` 667-826, 92-130 | `fd2conn`, the idle list, `poll_args`, the clock | accept, dispatch of ready connections, `next_timer_ms`, `process_timers` |
| Connection and protocol | `server/main.cc` 546-665, `server/buffer.h` | `incoming`, `outgoing`, the `want_*` flags | `handle_read`, `try_one_request`, `handle_write` |
| Database and commands | `server/main.cc` 184-544 | entries, `db`, `heap`, the pool's queue | get, set, del, pexpire, pttl, keys, zadd, zrem, zscore, zquery, expiry |
| Thread pool | `container/thread_pool.h` | queue, mutex, condition variable, `stop` | constructor, `enqueue`, worker loop, destructor |
| Hash table | `container/hash_table.cc` | `newer`, `older`, `migrate_pos` | insert, lookup, remove, foreach, progressive rehashing |
| Timer heap | `container/heap.h` | array with back-references | push, pop, fix |
| Sorted set, AVL tree | `container/zset.cc`, `container/avl.cc` | tree and hash table over the same nodes | insert, delete, seek, offset |
| Idle list | `container/list.h` | doubly linked ring | insert_back, detach |
| LRU cache | `container/lru.h` | list and map | get, put (not used by the server) |
| Client | `client/main.cc` | the bytes left to write and those read | sends the command of `argv`, reads and prints one response |

One thread runs the event loop and everything it calls: it accepts and reads,
executes commands on the database, writes, and runs the timers. The only other
threads are the pool's workers, which receive large sorted sets from
`entry_del` and free them. The loop and the timers meet in `next_timer_ms`,
which reads the front of the idle list and the top of the heap; the heap points
back into entries (`heap_idx`), the hash table links them, and the pool takes
them over.

### What is hard here

- *Stale readiness.* `poll_args` is filled before `poll()`; when an event is
  handled, connections have been accepted and others destroyed, and the kernel
  reuses descriptors at once.
- *Three records of a connection* (descriptor, map, idle list) that must change
  together, and an idle list whose order is what makes stopping at the first
  live connection right.
- *Streams.* Requests arrive in arbitrary pieces, several in one read or one in
  several; writes are partial; EOF, resets and malformed requests come at any
  point, and a connection must turn from reading to writing and back.
- *Ownership.* An entry is reachable from the hash table and from the heap, and
  may be freed by another thread.
- *Time.* Expiry compares with a clock read once per pass, one pass removes a
  bounded number of keys, a signal skips the timers, a 64-bit distance is cut
  down to 32 bits.
- *Notifications after the unlock*, and a shutdown that must drain the queue.
- *A resize spread over later operations*, with its cursor and its two sizes.
- *Two indexes over the same nodes* in a sorted set, and a tree whose heights and
  counts are kept on one path only while rotations move nodes off it.
- *Two codecs* for the same bytes, one in the client and one in the server, with
  different limits, over streams that may end anywhere.

`PROJECT.json` lists these hazards at their lines with the properties that
cover them.

## 2. Modules

| Module | Models | Proved in |
|---|---|---|
| `ThreadPool` | the pool: every lock, unlock, wait and notification is a step | `ThreadPoolProofs` |
| `IdleList` | the ring of `list.h`: operators on a function from nodes to pointers | `EventLoopProofs` |
| `EventLoop` | the main loop, the connections' life, both kinds of timers; uses `IdleList` | `EventLoopProofs` |
| `Connection` | one connection, byte by byte in position and length | `ConnectionProofs` |
| `KVStore` | abstract: requests and replies on a map from keys to values with deadlines | |
| `Keyspace` | entries, hash table, heap, commands, expiry, asynchronous free | `KeyspaceProofs` |
| `KeySet` | abstract: calls on a set of keys | |
| `HashMap` | the two tables and the stepwise migration | `HashMapProofs` |
| `TimerQueue` | abstract: the deadline of each entry | |
| `TimerHeap` | the binary heap, its sift loops and `heap_idx` | `TimerHeapProofs` |
| `SortedSet` | the sorted set and its AVL tree, pointer by pointer; zquery | `SortedSetProofs` |
| `Wire` | the bytes of requests and responses, both ends' readers and writers | - |
| `Client` | the client against a server's request handling; uses `Wire` | - |
| `LruCache` | the list and the map of iterators of `lru.h` | `LruCacheProofs` |
| `MCEventLoop` | `EventLoop` with a clock that runs for ever in finitely many states | |
| `MCKeyspace`, `MCHashMap`, `MCTimerHeap`, `MCClient` | symmetry sets and values for TLC | |

**ThreadPool.** `worker`, `producer` and `owner` are the control states of the
threads; `queue_mutex` names its holder; `future` is the state shared with a
task's future. A worker that calls `wait()` releases the mutex and sleeps in one
step, as `std::condition_variable` promises; spurious wake-ups are allowed.
`notify_one` happens after the unlock. `DestroyJoin` waits until no caller is
inside `enqueue()`: using an object after its destructor is excluded by C++
itself.

**EventLoop.** `phase` follows `main()`: prepare, call, polling, accept, conns,
idle, ttl. A connection keeps its flags, the number of responses in its output
buffer and `last_active_ms`. The kernel is nondeterministic: any subset of the
requested events and a hangup, `accept()` failing or returning the lowest free
descriptor, EAGAIN, errors, EOF, partial writes, EINTR. The idle list is the ring
of `IdleList`: `idle` gives the `prev` and `next` of each connection's node and of
`idle_head`. The requests a connection runs are reduced to their effect on TTLs.
The `(int32_t)` cast of `next_timer_ms` is `ToInt32`. The clock (`Tick`)
starts anywhere (`Boot`), has no bound and may move between any two steps, so also between `PreparePoll`, in which
`next_timer_ms()` reads it, and `EnterPoll`, from which `poll()` counts its
timeout.

**MCEventLoop.** The liveness properties mean little if time ends, so the runs have a
clock that does not. The loop only compares and subtracts times; instead of the
clock moving on from `Boot`, all times that matter move back by one (`Clock`). A
timer that is late by the whole window, from 0 to `Boot`, stays at 0 while the
others move: that it is late, and before which other timers, is all the loop can
tell. Time stands still only where the loop's own code, or a poll() that is due,
has to act first (in front of `poll()` after `Delay`, while an old reading of the
clock is used, while two keys are so late that their order would be lost), and
in a poll() that has lasted for the whole window, which it does only without a
timer.

**Connection.** Both streams are FIFO, so a buffer is the interval between two
stream positions. Request *i* takes `ReqLen` bytes; the client chooses for each
whether it is well-formed, malformed or too long (`kind`). The client may
write, read, shut down or close at any time; a close with unread data resets
the connection, data sent to a closed client is answered by a reset. These, and
`poll()` readiness, follow TCP as the code uses it and are marked external.

**Keyspace.** `memory` is the heap of `Entry` objects by address, `db` the hash
table as the map it implements, `heap` the deadlines it holds, `pool` and
`freeing` the thread pool as a FIFO with workers. `request` is the command that
`try_one_request` has parsed, `reply` what `do_request` answered. Each command is
one action with its reply (the loop's thread runs it without interruption); each
turn of the expiry loop, and each step of a worker, is an action of its own.

**KVStore** has the same requests and replies: a step that answers must be the one
that `KVStore` allows for the request in hand, with its key and arguments, and
must use that request up. So a reply that belongs to another command, a write
that is not stored, or a command that removes a key by the way is not an
implementation; without a request only `Expire` changes a key.

**HashMap.** A call is one action, each turn of the loop in `rehashing()`
another, its search the last. A node is identified with its key and `& mask`
becomes a remainder, which is the same for masks 2^n - 1. `foreach` changes
nothing and is an operator. In **KeySet** the call (operation and key) is part of
the interface, as `op` and `key` are here from the call to its return: a removal
that leaves its node, or a key that comes back, is no step of any call.

**TimerHeap.** `h` is the vector, `heap_idx` the field of each entry that an
item's `ref` points to. A call (`heap_upsert`, `heap_remove`) is one action and
each turn of a sift loop another, so that the states in which an item is held in
a local variable (`hole`) and its slot (`pos`) has a stale copy are all visible.
`fixing` and `old_pos` remember whether `heap_fix` called the loop, and where
it started: it sifts up only when sifting down moved nothing. `ent` and
`expire_at` are the arguments of the call in progress. The comparison is the one
the server instantiates the template with, least value first.

**SortedSet.** `tree` holds the `AVLNode` of every node, `root` and `hmap` are the
fields of `ZSet`, `score` that of `ZNode`. A call is one action up to the loop of
`avl_fix`, each turn of the loop another, and the rest of `avl_remove` (the swap
with the successor) the last; `zset_update` goes through a removal and an
insertion. A node is identified with its name, names are numbers in the order
of `memcmp`, and left and right are values of a parameter, since the code has
each case twice, mirrored. `hmap` is the set of names in the hash table, which
is what `HashMap` is shown to implement. The searches (`zset_seekge`,
`avl_offset`, `do_zquery`) change nothing and are operators. `zset_clear`
happens when the entry is deleted; the hash table is destroyed with it.

**Wire.** A byte is a number below `Radix`, a `uint32_t` has `W32` of them and an
`int64_t` or a `double` `W64`. A reader yields the set of its results: one pair
of value and next position, or none where the code returns an error. A response
is the sequence of its frames, as `write_frame` is called; the array length
filled in afterwards by `write_frame_array_end` is `Counted`. `print_response`
recurses on positions that only grow. Sums such as `1 + 8 + len` are taken
without overflow: lengths are bounded by the limits of both programs.

**Client.** `wbuf` is what `write_all` has left, `rbuf` what `read_full` has got of
the `need` bytes it was asked for. Of the server only `try_one_request` on this
connection is here, answering with any reply `do_request` can write; it may close
at any time, and any part of what it had to send is then lost.

**LruCache.** `m_cache` is a sequence of node addresses, `pair` their contents,
`m_map` the iterators. `recent` and `latest` record the history that the
properties compare with: all keys by their last use, and the last value of each.

Definitions commented `(mutation)` are not part of a specification: each is a
plausible bug in the definition that follows it, and makes TLC violate the
property `PROJECT.json` names it for.

## 3. Runs

| Run | Checks | Bounds |
|---|---|---|
| `thread_pool` | safety and liveness of the pool | 3 workers, 2 producers, 3 tasks |
| `event_loop` | connections, idle list, events, wake-ups; each idle connection closed, each expired key removed | 2 descriptors, 2 keys, window of 3, delay of 1, batches of 1, 1 removal per pass |
| `event_loop_far_ttl` | **violated**: "no timers, no timeouts" | int32 scaled to 2 |
| `connection` | framing, back-pressure, answers | 3 requests of 3 bytes, reads of 5, socket buffer of 3 |
| `connection_pipe` | **violated**: a write error closes the connection | 2 requests, socket buffer of 1 |
| `keyspace` | ownership, timers; `Keyspace` implements `KVStore`; queued entries are freed | 2 keys, 2 entries, 2 workers, 2 strings, 1 member |
| `hash_map` | tables, cursor, load, `HashMap` implements `KeySet`, termination | 5 keys, 2 slots at first, load factor 1, 1 node per operation |
| `timer_heap` | heap order, exact `heap_idx`, the top is the earliest, `TimerHeap` implements `TimerQueue` | 6 entries, 3 points in time |
| `hash_map_foreach` | **violated**: foreach stops when the callback says so | 3 keys |
| `sorted_set` | pointers, order, balance, heights and counts; offsets and queries; termination | 7 names, 2 scores |
| `client` | both codecs, the client's command executed, the whole reply or nothing printed, termination | 5 commands, 10 replies, 2-byte lengths; all messages of up to 8 bytes |
| `lru_cache` | exact iterators, the keys used last, their values | 4 keys, 2 values, 4 addresses, capacities 1 to 3 |

Why the bounds are enough to be interesting. Three workers let a notification
meet a worker other than the one that will take the task, while a third sleeps.
Two descriptors let one connection close and the other be accepted or time out
in the same pass, with reuse, and give the idle list a ring of three nodes. A window
of 3 is longer than any poll() of the instance and lets timers be late by two;
beyond it they only stay late. With two keys and one removal per pass, each key
can expire again in every pass while the other waits: some key may be overdue at
all times (TLC refutes "again and again no key is overdue"), but no key for ever,
since the heap has the older one on top; `TopsLatest`, a heap that has not, is the
mutant. One request per read is enough here, since two connections can set both keys
in one pass; partial writes of longer output are the subject of `Connection`. Reads of
5 bytes over requests of 3 end inside a length field, a body, or a later
request, and complete up to two requests; a socket buffer of 3 bytes cuts
responses of 2. With two entries a key is created again while its old entry is
still queued or being freed by either worker, and two strings make an overwrite
visible (the safety part of this run is proved for any number). Five keys over two slots go through
two resizes, each spread over several operations, with chains and empty slots.
With a load factor of 1 and one node per operation a resize ends just when the
newer table reaches its load factor, later in proportion than with the code's
128 nodes per operation: resizes overlap with as many operations as they can
without two of them meeting. Six entries are the least for which the last item
of the heap, taken from one subtree to replace an item removed from the other,
may have to rise there. Seven members make trees of height 4, in which a removal
can rotate twice on the way to the root, with the removed node moved by a
rotation before its successor takes its place. The client's limit lies below the
server's, with replies on either side of both; every cut of a length field of
two bytes is a partial read. Four keys are one more than the largest cache holds,
and a spare address lets an evicted node's be reused at once or later.

Scaled constants: `k_idle_timeout_ms`, `k_max_works` (0 or 1, so that one pass
leaves expired keys behind), `k_large_container_size` (0 or 1),
`k_rehashing_work`, `k_max_load_factor`, the message sizes and both `k_max_msg`,
`k_max_args`, the values of a byte, and 2^31. Bounds of
the models only: `MaxTime` (`Keyspace`, where no liveness property is about time),
`Boot` as the width of the window and `Delay` (`MCEventLoop`), `MaxBatch`, `Requests` (`Connection`), `Entries`,
`Tasks`.

The types of `ThreadPool`, `Keyspace` and `TimerHeap` are theorems of their own
(section 4); the other modules have `TypeOK` as the first part of their structural invariant
(`ConnectionsAgree`, `ReadOrWrite`, `TablesWellFormed`, `IndexesAgree`,
`PrintedIsReply`, `MapExact`). `CodecsAgree` is about operators, not about a
state: it is evaluated once per initial state.

Symmetry is used only in `timer_heap`, which checks no liveness (the permuted
entries are not told apart by any formula). The models whose system never stops
are checked for deadlock; where it does stop (the pool is destroyed, the
connection closed) an explicit `Gone` step stutters, and the client, which ends,
is checked without.

### Fairness

- `ThreadPool`: weak fairness of every thread's own steps (the scheduler runs
  runnable threads, a task returns). Nobody is forced to enqueue or destroy.
- `EventLoop`: weak fairness of the clock and of the loop's code; strong
  fairness of a `poll()` that is due, since signals do not interrupt every call.
  Sockets may stay silent for ever. In `MCEventLoop` the fair clock is `Clock`.
- `Connection`: weak fairness of the server; strong fairness of a successful
  read, since a socket is not reported ready without being so for ever; a client
  that is still there reads.
- `Keyspace`: weak fairness of the workers, which `EveryTaskRuns` of
  `ThreadPool` justifies.
- `HashMap`, `SortedSet`: an operation that was called runs on.
- `Client`: weak fairness of the client and of the server's handling of a request
  that has arrived, which `EveryRequestAnswered` of `Connection` justifies; the
  server need not close.

### Findings

1. `next_timer_ms()` converts the distance to the next deadline to `int32_t`
   (`main.cc:688`). A TTL of 2^31 ms, about 25 days, becomes a negative timeout,
   and `poll()` blocks until a socket is ready although a timer is set.
   `WakesInTime` holds for TTLs below 2^31 (run `event_loop`), and the theorem
   `TimeoutsUnlessFar` shows that with such TTLs poll() never blocks without a
   timeout while there is a timer: the conversion is the only cause.
2. Nothing ignores SIGPIPE. A client that closes before its responses are
   written can end the server at `main.cc:605`; the error branch at 609-612 is
   reached only for other errors.
3. `HashMap::foreach` drops the result of the first `ht_foreach`
   (`hash_table.cc:116`): a callback that returned false is called again on the
   older table during a resize. The only callback, `cb_keys`, never returns
   false.

## 4. Proofs

TLAPS proves the following for every value of the constants that satisfies the
assumptions named in the modules.

`ThreadPoolProofs` (from `ThreadPoolAssumption`: finite, disjoint sets of
threads, at least one worker):

- `TypeCorrect`, `NoTaskLostOrRepeated` (`ExactlyOnePlace`), `QueueDrained`
  (`DrainedBeforeExit`), `NothingPendingAfterJoin` (`DestroyedMeansDone`),
  `NoLostWakeup` (`WorkConserving`).
- The inductive invariant adds to the types: the mutex is held exactly by the
  thread whose control state says so; a worker holds a task exactly while it
  runs; no task is in two places; a pending task is somewhere; and what `stop`
  says about the destructor's progress. `ExactlyOnePlace` alone is not
  inductive: a producer at "locked" must be known to hold a task, and two
  threads past the lock must be known to be one. `NothingPendingAfterJoin`
  follows because an exited worker implies an empty queue and a joined pool has
  neither producers nor runners.
- `WorkConserving` counts: a task enters the queue together with a notifier, and
  a notification either turns a sleeper into an awake worker or finds nobody
  asleep, in which case nothing is claimed. It is inductive on top of the types.

`KeyspaceProofs` (from `KeyspaceAssumption` and `NoneAssumption`):

- `TypeCorrect`, `Ownership` (`OneOwner`), `NoDanglingTimer` (`TimersAreInDb`),
  and `Refinement`: `Spec => ImplementsKVStore`, safety: request by request, with
  one step per command.
- The inductive invariant is the conjunction of these with
  `now_ms <= now`. Ownership is needed for the refinement: that a command on one
  key leaves the abstract value of every other alone rests on two keys never
  sharing an entry, and that an expiry removes the right key rests on the entry
  being in `db` under its own key. `now_ms <= now` is what keeps a key from
  vanishing before its deadline.

`TimerHeapProofs` (from `TimerHeapAssumption`, for any number of entries and
any set of points in time):

- `TypeCorrect`, `HeapOrder` (`HeapOrdered`), `ExactReferences` (`RefsExact`),
  `EarliestOnTop` (`TopIsEarliest`) and `RefinesTimerQueue`: `Spec =>
  ImplementsTimerQueue`.
- The properties say something only between calls, so the inductive
  invariant says what holds inside the loops. Every edge of the tree is in order
  except those that meet at the hole; a loop that sifts up has no lesser
  item than its own below the hole, a loop that has sunk has no greater one above
  it; and the children of the hole are never less
  than its parent, which is what
  keeps the order when an item moves past it. Every item but the one in the hole
  is known to its entry at the slot it is in, no two items belong to the same
  entry, and the entry of the removed item is the one at the end of the vector.
- That the top is the earliest needs an argument over the whole tree. Instead of
  an induction it takes the least slot that holds a value below the top's: its
  parent is a lesser slot and holds no greater value. The least-number principle
  (`LeastElement`) comes from the well-foundedness of inclusion between finite
  sets.
- The refinement reads the deadline of an entry off its item, wherever it is, in
  the vector or in the hole; a turn of a sift loop therefore changes nothing.

`EventLoopProofs` (from `EventLoopAssumption` and `NullAssumption`: descriptors are
natural numbers, the idle timeout fits an `int32_t`):

- `ConnectionsConsistent` (`ConnectionsAgree`), `EventsWanted`
  (`HandledEventsAreWanted`), `PollWakesInTime` (`WakesInTime`, for TTLs that fit an
  `int32_t`: `TtlsFit`), and `TimeoutsUnlessFar` (`NoTimersNoTimeouts` under the
  same hypothesis).
- The invariant says that the connections can be listed, each once, so that the
  pointers of the idle list lead through them in both directions and
  `last_active_ms` never decreases along the way (`InOrder`); no connection was
  active in the future (`Past`); and no event is pending when poll() is prepared or
  the timers run (`Quiet`). The order is what the loops rely on: `next_timer_ms`
  and the idle timers look at the first connection only. `detach` and
  `insert_back` are shown to take a node out of such a list and to append one
  (`DetachLinks`, `InsertLinks`), and a connection that becomes active goes to the
  end because its time is then the latest.
- `WakesInTime` is established by `PreparePoll`, which computes the timeout, and kept
  until poll() returns, since no timer changes in between; it needs that every
  deadline is less than 2^31 ms ahead (`Near`). A poll() with a timeout ends
  (`Ends`), from which `TimeoutsUnlessFar` follows.
- The theorems are about `Spec`, whose clock has no bound; `MCEventLoop` is for TLC
  only.

`ConnectionProofs` (from `ConnectionAssumption`, for requests, responses,
reads and socket buffers of any size):

- `OneDirection` (`ReadOrWrite`), `NothingStranded` (`NoStrandedRequest`),
  `BoundedBuffers` (`BackPressure`).
- The invariant adds the meaning of the control states: which flags are set in
  the middle of a handler (`Flags`), that the loop over `try_one_request` stops only
  where no request is complete (`Parsed`), and how much one read() can have added
  before it is parsed (`Bounded`).

`HashMapProofs` (from `HashMapAssumption` and `NullAssumption`, for every finite set
of keys and every hash function):

- `AlwaysWellFormed` (`TablesWellFormed`), `ResizesEnd` (`ResizeEndsInTime`),
  `ForeachVisitsAll` (`ForeachComplete`), `RefinesKeySet`: `Spec => ImplementsKeySet`.
- The tables are handled through what a chain, a table and a resize hold as sets;
  the lemmas about `ht_insert` and `ht_detach` give the set, the size and the slots
  that stay as they are. A table with a size has a slot that is not empty, and the
  slots behind the cursor are empty, so the cursor stays within the array.
- That a resize ends in time is a count (`Load`): a node that waits in the older
  table counts twice. The count starts at twice the load factor's limit of the
  older table, which is the limit of the newer one. An insertion adds one, and
  rehashing() takes at least one off while nodes wait; a removal never adds. So
  one node of work per operation is enough, and 128 are more than needed.
- `foreach` concatenates the chains of a table. That the concatenation of chains
  that are apart from each other has every node once is an induction over the
  slots (`FlattenIs`, from `LeastElement`); that the tables have more than one
  slot, without which `ht_foreach` would visit nothing, is an invariant of its own
  (`Slots`).

`SortedSetProofs` (from `SortedSetAssumption`, for every set of names and of scores,
with trees of any size):

- `TypeCorrect`, `AlwaysBalanced` (`Balanced`), `IndexesAlwaysAgree`
  (`IndexesAgree`), `DataAlwaysExact` (`AuxiliaryExact`), `OffsetAlwaysExact`
  (`OffsetExact`), `QueryAlwaysExact` (`QueryExact`). The last two follow from
  lemmas for every offset and every limit (`OffsetIs`, `QueryWhole`).
- The properties speak of subtrees, and most of them only between calls. The
  inductive invariant `Inv` avoids recursion: there is a function `sub` from nodes to
  sets of nodes such that the subtree on one side of a node has exactly the nodes
  of `sub[n]` on that side of the order, every child's parent is the node, only the
  root has no parent, and a subtree contains the subtrees of its nodes (`Shape`).
  The existence of `sub` is what rules out cycles and lost subtrees.
- During a call the height and count of every node fit those of its children,
  except on the way up from `node`: the nodes above it still account for the data
  its subtree had before (`old` in `Sound`); the children of `node` differ by 2 at
  most, and its height, once repaired, will be within 1 of the old one
  (`StaleFits`). A turn of the loop therefore leaves a difference of 1 at most
  behind, and one of 2 at most at the parent, for which the same holds again.
- For `avl_remove` the invariant also says that no node lies between the target and
  the successor that will take its place (`Adjacent`), whatever was rotated
  meanwhile; this is what keeps the order when the successor's record is
  overwritten. A freed node points nowhere (`Loose`).
- The walks (`Place`, `Leftmost`, `Subtree`, `Height`, `zset_seekge`, `avl_offset`,
  `do_zquery`) are recursive functions, and TLA+ gives such a definition a meaning
  only if a function that satisfies it exists. `Recursion` shows this for every
  definition in which a rank decreases: the least-number principle gives an
  induction on sets (`RankInduction`), and with it solutions up to each rank. On the
  way down the rank is the size of the subtree. `avl_offset` goes up before it goes
  down, and its rank (`Level`) is the size of the subtree on the way down and
  counts from above on the way up.

`LruCacheProofs` (from `LruAssumption`, for every capacity, set of keys and set of
addresses):

- `ExactMap` (`MapExact`), `MostRecent` (`CacheIsRecent`).
- The invariant lays the list beside the history: its i-th node belongs to the
  i-th key of the history, for as many as the capacity allows, the map leads
  from that key to that node, and the node holds the key and its latest value.

Only model-checked: liveness, which is outside the prover's reach, and the
properties of `Client` (`CodecsAgree`, `RequestUnderstood`, `PrintedIsReply`). The
latter rest on reading back what was written: that `UInt` inverts `Raw` for any
`Radix` and width takes sums of powers with a variable exponent, which no
installed prover handles, and `print_response` recurses through arrays inside
arrays. TLC evaluates the codecs on every message up to the bounds of the run.

## 5. Not modelled

Socket set-up and fatal errors of both `main()` (they end the program); the
wording of messages and logs; `strtod` and `strtoll` (a command with an argument
they refuse is `Refuse`); the hash function, which is a constant; memory
exhaustion; the choice of the number of threads; an LRU cache of capacity 0, for
which `put()` has undefined behaviour (`LruAssumption` excludes it). The programs
under `example/` are exercises without state of their own.

## 6. Plan

All components but the examples are modelled, and every safety property but the
three of the client is proved. What would extend the project is a theory of
little-endian numbers, from which `CodecsAgree` would follow frame by frame, and
then the byte stream between client and server.
