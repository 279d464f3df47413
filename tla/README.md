# Verification of media_spider

media_spider joins the BitTorrent DHT, keeps a routing table of the peers it
hears of, asks them for their neighbours for ever and notes the info hashes that
other peers ask it about. This directory holds TLA+ models of the program, the
TLC configurations that check them on small instances, and proofs that TLAPS
checks for every instance.

The repository holds the program twice. `platform/` is the current one: one
Linux thread, driven by the event loop of `evt.c`. `tools/` is the older Windows
program: the same logic with three threads and two message queues. The models
are of `platform/` unless they say otherwise.

## 1. Inventory

| Component | Code | State | Operations | Hard behaviour |
|---|---|---|---|---|
| Routing table | `platform/dht_spider.c` 1255-1608, 1843-1974 | `node->bkt_tree`, `node->route_num` | insert, split, sweep and age, answer | chained splits, expiry and revival, pointers kept into slots |
| Hash table | `platform/hash_tbl.c` | chains and the count `used` | put, get, del, for_each | deletion in a chain |
| Request contexts | `platform/dht_spider.c` 71-85, 195-365, 940-1115, 2218-2264 | `msg_ctx_map`, `g_req_id` | send, respond, time out | lost, late and repeated answers; a full table; a cut-off pass |
| Event loop | `platform/evt.c`, `platform/main.c` | timers, their due times, the socket | select, read, run timers | time arithmetic, handlers that take time, starvation |
| Node | `platform/dht_spider.c` 575-1176, 1815-1838, 1917-2064, 2289-2311 | the above together, `torrent_hash_map` | dispatch, request handlers, bootstrap, the timers | an answer and a sweep in either order, lists walked while the table changes, route_num that never falls |
| Route file | `platform/dht_spider.c` 1610-1813 | the saved file | save, load | crash between two writes, save of an empty tree |
| Bencode parser | `platform/bt_parser.c` | two stacks, a status, the tree, position | `ben_coding` | nesting, two stacks and one status for all levels, packets that end early |
| Older threads and queues | `tools/dht_spider.cpp` 2066-2440 | `rcv_q`, `snd_q`, two mutexes with their conditions, `q_mgr.mutex` | timer, scheduler, network thread | lost wake-ups, lock order, a full queue |
| Dead thread code | `platform/dht_spider.c` 2066-2211, 2332- | - | nothing calls it | - |
| SHA-1, sockets, printing, `net.cpp`, `bencoding/` | | - | - | pure computation or input and output |

How they interact. `main()` initialises the node, reads the route file, registers
`rcv_msg` for the socket and four timers and enters `evt_loop`. Every callback
runs to its end before the next one starts, so that all shared state of
`platform/` changes one callback at a time. A *timer* of 10 s (`period_ping`,
and `find_neighbor`) sweeps the routing table: it ages every live slot and sends a
request to each live peer. Every request puts a *context* into the context
table, and the context keeps a **pointer to the slot** of the peer. An *answer*
takes the context out and writes through that pointer: the slot is live again.
`find_node` answers also name new peers, which are inserted. A third timer takes
out the contexts that nobody answered, a fourth one saves the table to the file.
Slots and contexts therefore age independently of one another, while trees grow
and slots change hands in between. That is where most of the hazards come from.

What makes each component right:

* Routing table: the walk for an id finds one bucket and the right one; nothing
  replaces a peer that answers; a peer that does not answer leaves; `route_num`
  is large enough for the buffer of the sweep; a split keeps all it found.
* Request contexts: an id is never reused while open, a closed one is not opened
  again, the table is bounded, each context leaves it, no due context hides.
* Event loop: timers keep their period, and nothing can keep them from firing.
* Node: whatever the handlers do to the shared tables is what the tables allow,
  and no peer is given up without a last request. Two things one would ask of a
  node it does not do: an answer is credited to whoever stands in the slot by
  then (finding 6), and a node that has lost all its peers does not join again (finding 7).
* Route file: what is loaded was saved, and the table is saved in the end. Parser: it
  accepts what the grammar accepts. Threads: a queued message is handled unless the
  scheduler is starved.

## 2. Modules

| Module | Models | EXTENDS / INSTANCE |
|---|---|---|
| `RouteTable` | the routing table | - |
| `MCRouteTable` | its instances | `RouteTable` |
| `RouteTableProofs` | theorems about it | `RouteTable`, `TLAPS` |
| `HashTbl` | a chain of `hash_tbl.c`: operators only | - |
| `ReqCtx` | the request contexts | `HashTbl`, `Outstanding` |
| `Outstanding` | what the context table promises: the abstract specification | - |
| `ReqCtxLoops` | the loops of `map_del` and `msg_timeout_handler` as written | `ReqCtx` |
| `MCReqCtx` | its instance | `ReqCtxLoops` |
| `ReqCtxProofs` | theorems about it, the refinement among them | `ReqCtxLoops`, `LeastNumber`, `TLAPS` |
| `Node`, `MCNode` | timers and handlers on the table and the contexts they share | `HashTbl`, instances of `RouteTable` and `ReqCtx` |
| `NodeProofs` | theorems about it, both refinements among them | `Node`, `LeastNumber`, `TLAPS` |
| `EvtLoop`, `MCEvtLoop` | the event loop and its instance | - |
| `EvtLoopProofs` | theorems about it | `EvtLoop`, `LeastNumber`, `TLAPS` |
| `RouteFile`, `MCRouteFile` | the file, with kills and restarts | - |
| `RouteFileProofs` | theorems about it | `RouteFile`, `TLAPS` |
| `BenParser`, `MCBenParser` | the parser, token by token | - |
| `BenParserProofs` | theorems about it | `BenParser`, `LeastNumber`, `TLAPS` |
| `Threads`, `MCThreads` | the three threads of the older program | - |
| `ThreadsProofs` | theorems about them | `Threads`, `TLAPS` |
| `LeastNumber` | two lemmas about sets of numbers | `TLAPS` |

A definition with a trailing comment `Mutant:` is a wrong version of the one
that follows it, as a plausible slip in the code would make it. No specification
uses them. With the wrong version in place of the right one TLC must find the
property violated that `PROJECT.json` lists beside it: that is how the project
makes sure that its properties can fail.

### RouteTable

`tree` is a function from paths, sequences over {0, 1}, to buckets `[lo, hi, slots]`.
Nothing is freed in the code, so a node that was split remains, with the slots
that contexts may still point at. `lo` and `hi` are `range_start_str` and
`range_end_str`; when a node is split both become its middle, as in
`__check_if_split_ok`, and `find_prop_node` compares with `hi` (`Turn`).
`routeNum` is `node->route_num`. `pending` are the slots that contexts point at,
with the peer the request was sent to. `split` is the state of the loop
`while(!split_ok)`.

| Action | Code |
|---|---|
| `InsertRoot` | `insert_into_bucket_tree` on an empty tree |
| `FillSlot` | `find_prop_node`, then `insert_into_bkt` finds a hole |
| `BeginSplit` | the bucket is full and its range holds our own id |
| `SplitTurns` | a round of the loop that found all entries on one side |
| `SplitSeparates` | the last round: deal out the entries and the new id |
| `Sweep` | `refresh_route`: list the live slots, age them, send the requests |
| `Answer` | `handle_ping_rsp`, `handle_find_node_rsp`: revive the slot |
| `Forget` | contexts leave their table unanswered |

Every call is one atomic step, because there is one thread, except for the split
loop: whether it ends is a question, so its rounds are steps. While it runs
nothing else can happen, which the guards `~split.on` say. A call that changes
nothing (the id is found, or the bucket is full and not ours) is a stuttering
step. `Sweep` may store any part of its contexts, since the context table can be full,
and with `Answer` and `Forget` any contexts may vanish, since `map_del` drops what
stands in front of the one it looks for.

Abstracted: addresses and ports (no decision reads them); ids are
0 .. Space-1 and the middle of a range is a number, while the code adds and halves
byte strings; allocation does not fail; the fixed stack of `tree_node_to_buffer`
(500 nodes, far above what 160 levels push) is not modelled.

### HashTbl and ReqCtx

`bucket[b]` is the chain of bucket b from its head; `used` is the table's own
count; `reqId` is `g_req_id`. `Deleted` says what `map_del` does in closed form:
the loop stores each entry it passes into the *head* of the chain, so what stood in
front of the entry it looked for has left the chain. `ReqCtxLoops` writes the loops of
`map_del` and `msg_timeout_handler` down round by round, as recursive functions, and the
property `LoopsAgree` says that an answer and a timeout pass leave the table that
the loops leave: in particular each `map_del` of a pass finds its context, although the ones
before it have dropped others.

| Action | Code |
|---|---|
| `Send` | `ping_node`, `find_node` with a peer, `__put_msg_ctx_map` |
| `SendUntracked` | `find_node` without a peer (bootstrap) |
| `Respond(t)` | an answer with id t, for every t at every time |
| `Timeout` | `msg_timeout_handler`, both passes |

The network is not a variable: `Respond(t)` is enabled for every id in every
state, ids never given out and ids already answered included. That covers loss, delay,
duplication and reordering.

### EvtLoop

The clock counts milliseconds, `PerSec` to a second, and the code's pairs of seconds
and milliseconds are records with the code's carries and borrows (`Later`,
`SelectTimeout`). `Sleep` computes the timeout and enters `select`, `Wait` lets time
pass, `Packet` makes the socket readable, `BeginTimers`, `NextTimer` and
`EndTimers` are `process_timer_evt`, and `Work` lets the clock run while a handler
does. `start` and `fired` are history variables for `KeepsItsGrid`.

### Node

`Node` has the variables of `RouteTable` and of `ReqCtx`, without `pending`: the
pointers are read off the contexts, each of which has its `route_info`. Two
variables stand for the loops that walk a list: `requests`, what `refresh_route`
still sends, and `todo`, what `handle_find_node_rsp` (or the reader of the route
file) still inserts. No other handler starts while one of them, or a split, is
under way (`Idle`).

| Action | Code |
|---|---|
| `PeriodPing`, `FindNeighbor` | the timers: `refresh_route`, or the bootstrap request of `find_neighbor` |
| `PingNode`, `FindNode` | the next request of the list: a number and `__put_msg_ctx_map` |
| `PingRsp(t)` | `handle_ping_rsp`: `map_del`, and the slot is alive |
| `FindNodeRsp(t, ids)` | `handle_find_node_rsp` up to its loop |
| `InsertNext`, `SplitRound` | the loop: `insert_into_bucket_tree` for the next peer |
| `MsgTimeout` | `msg_timeout_handler` |

`TableSpec` and `ContextSpec` say that `Node` implements `RouteTable` and `ReqCtx`: every
step of a handler is, for each of the two, one of its steps or a stutter. What
those modules show therefore holds in the running node. In particular nothing
in `RouteTable` is freer than it has to be by accident, and nothing the handlers do to the
slots, through pointers of any age, is missing there.

Handlers of other nodes' requests (`handle_on_ping`, `handle_on_find_node`,
`handle_on_get_peer`) read the table and change nothing of this state; they are
no actions. Answers are enabled in every idle state, for every id.

### RouteFile

The disk holds a record of the id, the number and the set of entries; a save
opens (and truncates) it, brings any part of it to the disk step by step and
closes it. `Kill` stops the program between any two of these steps, `Start` reads
what is there. Insert, revival and expiry of peers are reduced to what the file
can tell: which peers are live, and that `route_num` counts insertions. `handles`
counts open files: a save of an empty tree leaves one open.

### BenParser

The sender and the parser move together: each action sends a token that may come next in
a well-formed message (`MaySend`, over the sender's own stack `open`) and does
what one round of `ben_coding` does with it. A packet that ends early is a
behaviour that stops. `s` and `c` are `g_stack` and `g_ctx_stack`, `elem` is `dict.e` with
indices for pointers. An element remembers the position of its token, so that
`TreeAgrees` can compare the tree with the message; texts and numbers are left out.

### Threads

A step is what a thread does between two points where another one can see the
difference; `pc` is where each of them stands, `owner` who holds which mutex.
`Timer`, `Sched` and `Net` are the disjunctions of the steps of each thread.
A condition has one waiter: a signal sends it on to take its mutex again, or is
lost if it does not wait yet. A wait may also end by itself (`Spurious`).
`left` are the messages that the running handler will still queue, which is all
that the queues see of it.

## 3. Runs

| Run | Instance | Shows |
|---|---|---|
| `RouteTable` | 8 ids, buckets of 2, three announced ids, 4 insertions, depth 4; refresh interval and period 2 | the table's invariants, action properties and liveness |
| `ReqCtx` | 2 buckets, 7 requests, table of 4, passes that note 2 | the context table, and that it implements `Outstanding` |
| `Node` | 4 ids, buckets of 2, 3 insertions, depth 2, 4 requests, table of 3, passes that note 2, answers that name up to 2 peers | the node implements `RouteTable` and `ReqCtx`; what it owes a peer it drops; that it does not find back once it has lost all |
| `EvtLoop` | seconds of 4 ms, timers of 9 and 11 ms, clock to 40 | timers |
| `RouteFile` | 2 peers, 2 handles, 3 insertions, 3 starts | the file after kills, and that it catches up |
| `BenParser` | messages of up to 10 tokens | stacks, status, tree and acceptance |
| `Threads` | queues of 2, two timers of 2 and 1 ticks, up to 3 requests per handler | mutexes, queues, deadlock, wake-ups, and when a message is handled |
| `DeadTwinNeverMet`, `EntryInItsBucket`, `SplitCanSeparate` | as `RouteTable`, announced {1, 2, 5, 7}, refresh interval 1 | violated: findings 1-3 below |
| `ReqCtxDeleteOne` | as `ReqCtx` | violated: finding 4 |
| `NetWoken` | as `Threads`, with fair mutexes | violated: finding 5 |

Why the bounds are enough. `RouteTable`: with buckets of two, a third peer close to our
own id splits, and the announced ids 1, 2, 6 of 8 need one to three
rounds to separate; 4 insertions leave one for the bucket after a split,
and a dead slot can be filled again while an old context still points to it.
`MaxPending` 1 suffices for the properties of the table, since the contexts of two slots
never interact. `ReqCtx`: 7 requests on two chains make chains of up to four;
the table fills (4), a pass can be full (2) and a second one must finish the work.
`Node`: three peers fill a bucket of two and split it, also in the middle of an answer
that names two; four requests fill a table of three, so that one is refused, and
collide in two buckets; a refresh interval of 1 and a period of 2 let a peer be asked, dropped,
and its slot filled anew while its context is open. `EvtLoop`: the
intervals are no multiples of a second, so milliseconds carry and borrow in all
combinations; several firings of each timer fit into the clock's bound.
`RouteFile`: three starts allow a save cut short, a restart from it and a restart
from that one's save; two handles let one leak and one be left, and both leak.
`BenParser`: ten tokens nest lists and dictionaries four deep and let a container of either kind
end inside either kind, with more to follow. `Threads`: with queues of two,
timers and packets compete for the last place, and a handler fills the send
queue beyond its limit. `Node` reaches the state that `MaroonedForGood` is about in eight steps.

Deadlock is checked in `Threads`, whose histories are not bounded. The other
runs say `CHECK_DEADLOCK FALSE`: their histories are bounded (insertions, requests,
clock, tokens, starts), and at the bound nothing but timers, or nothing at all, can go on.

Fairness. `RouteTable!FairSpec` assumes weak fairness of `Sweep` and of the rounds of
the split loop; `ReqCtx!FairSpec` assumes it of `Timeout`, `RouteFile!FairSpec` of
the save and its end. The code justifies it:
the sweeps, the timeout pass and the save are timers of `main()` that are re-armed each time they ran, `LatenessBounded`
of `EvtLoop` says that neither packets nor other timers hold them up, and a loop that can take another round takes it.
Neither answers nor sends are assumed fair. `SilenceEmptiesTable` says openly
that it presumes that splits end: `SplitCanSeparate` shows that the code does not
guarantee it.

`Threads!FairSpec` assumes weak fairness of each thread: one that can go on all the
time goes on. That is less than fair mutexes, which POSIX does not promise and which
`net_thread` puts to the test: it sleeps 50 ms with `rcv_q.mutex` in its hands and takes
it again at once (`tools/dht_spider.cpp` 2255-2264). Under `FairSpec` it may starve the scheduler and
`timer_thread` for ever. Two conjuncts more say what the clock guarantees. `timer_thread` sleeps a second
between two rounds, and the model has no time in which that second could pass:
`OthersInTheSecond` says that the other two threads, if they can move, do so in it, in one of them if not in each;
`SchedUndisturbed` says that the scheduler gets `rcv_q.mutex` in it, if `net_thread` finds its block condition
there again and again, since then nobody else wants the mutex until the second is over.
Without `SchedUndisturbed` `HandledOrStarved` fails. `NetWoken` is checked under `FairMutexSpec`, strong fairness of
each thread: it fails even if every thread gets every mutex in its turn.

What the properties say, where the name does not: `BufferFits` relates the live slots of the
whole tree to the hand-kept counter that sizes the buffer of the sweep.
`PointersFilled` is why late answers cannot break it. `CountersRun`: a counter that
passed 0 would make a slot immortal. `LivePeerKept` is the promise that peers that
answer stay. `SplitKeepsAll` states that the last round of a split ends with all
entries, each once, in the leaves. `StoredBounded` holds although `map_del` loses
entries without counting them, because it errs on the safe side.
`DueSurvivesOnlyFullPass`: a due context hides only from a pass that has noted as
many ids as it can. `LatenessBounded` holds if the handlers of a round take less than a
second and less than an interval leaves (`Unhurried`): if they took more, a timer could
be late by two rounds of handlers. `AskedWhenDropped`: the sweep that gives a peer up still sends it a
request, from a list made before it aged the table. `MaroonedForGood` is the sad consequence of a `route_num` that
never falls. A node without a live peer and without an open request to one (before that a late answer
can still revive a slot) is in a trap: no timer sends a request, the one to the bootstrap node included, and no
answer revives anybody. Only an answer that lists peers, though nobody was asked, leads out. It still
replies to requests of others, which change nothing of its state. `RecoversLastSave`: wherever the program was killed, a start takes
up a part of what the last save to open the file set out to write, and nothing from before it.
`FileCatchesUp` needs a handle that is left; the saves of an empty tree use
them up. `StacksAgree` and `StatusAgrees` say that two stacks and one
variable, changed in different branches, follow the nesting. `NoLostWakeup`: the scheduler's
condition is used rightly; `NetWoken`: the network thread's is not.
`TimerMessageFirst`: the pointer the scheduler takes before a handler runs still points to
what it deletes afterwards; the scheduler holds `rcv_q.mutex` all the while. `HandledOrStarved`: every message in the
receive queue is handled in the end, or the scheduler waits for the mutex for ever while
`net_thread`, with room in the queue at each of its rounds, polls. So starvation is the one way in which a message is
left, and it cannot outlast the room in the queue: a full queue, which makes `timer_thread` drop its messages, is
drained. Starvation itself is possible under `FairSpec` and not excluded by the code, and a tick that was dropped is lost.

## 4. Proofs

### RouteTable

`RouteTableProofs` proves, for every size of the id space and of a bucket, every
refresh interval and period, every set of announced ids and every bound on the history:

| Theorem | States |
|---|---|
| `Invariance` | `Spec => []IInv` |
| `TypeCorrect` | `[]TypeOK` |
| `WalkFindsItsLeaf` | `[]FindProperNode`: the walk ends at the one leaf whose range holds the id |
| `RefreshBufferFits` | `[]BufferFits` |
| `LiveSlotsAge` | `[]CountersRun` |
| `PointersStayFilled` | `[]PointersFilled` |
| `LivePeersStay` | `LivePeerKept`, an action property |
| `SplitsKeepAll` | `SplitKeepsAll`, an action property |

The assumptions are those of the module, named there: space, bucket size, refresh
interval and period are positive naturals, ids lie in the space, bounds are naturals.

The argument. `BufferFits` is not inductive: a late answer can make any slot live again that
a context points to, so the invariant must count the slots that were
*ever* filled and not the live ones. `Counted` is that set: the filled slots of the
leaves. While a split runs the full bucket has stopped being a leaf and its
entries have not been dealt yet, so `Counted` also holds the slots of the bucket
being split. `CountOK` says that there are at most `routeNum` of them. A round
that separates moves them, one for one, into the two new leaves, and adds one
(`CountedSplit`, by an injection of the new filled slots into the old ones and the new one).
That needs `SplitOK`: the bucket being split is full of live peers, and the loop
stands on a leaf, the bucket itself or an empty bucket below it. `PointersFilled` keeps answers inside
`Counted`. `CountersRun` makes ageing harmless: a filled slot stays filled, since no
counter passes 0. `FindProperNode` and `Shape` (paths are closed under prefixes,
children come in pairs) are proved together from the way in which `Divided` cuts a range at
its middle; they make the walk of an insertion end at a leaf.
Each conjunct has a lemma (`TypeStep`, `ShapeStep`, `CountersStep`, `PointersStep`,
`CountStep`) with one step per action, and `Invariance` puts them together.

`SplitsKeepAll` needs one thing more, `SplitBelow`: while a split runs, all leaves below the full bucket are
empty but the one the loop stands on, so that what lies there after the last round was dealt out by it. The ranks of the
entries of a side number them from 1 on (`RankIs`), and as both sides have entries neither is full,
so each takes all of its own and has room for the new peer (`PackedAll`).

### ReqCtx

`ReqCtxProofs` proves, for every number of buckets, every hash function, every
limit of the table and of a pass, the four invariants (`ContextTypeCorrect`, `ContextsInTheirBucket`,
`ContextsNewestFirst`, `ContextsBounded`), the action property `DueContextsLeave` and the
refinement `ImplementsOutstanding`. The assumptions are `SizeAssumption` and
`HashAssumption`. The conjunction of the four invariants is inductive, and none of
them without the others: that `used` never falls below 0 needs that there are at least as many counted as
stored contexts; that needs, in a timeout pass, that the places noted have
different ids (`OnePlace`, from the bucket and the order of the chains), so that as many ids leave as are
subtracted (`TakenCounted`, an injection). `Suffix` is what `map_del` and the pass leave of a
chain: its end. `SuffixStep` shows once that such a step keeps place and order.
`NotFullTakesAll` takes the due context with the fewest due ones before it among
those not noted: all before it are noted, and they are as many as a pass can note.

`LoopsDoAsModelled` proves `LoopsAgree`, that the actions are what the loops of the code do, for chains of any length.
A recursive function over `0 .. n` is defined as the choice of a function that satisfies its
equation, so two things are shown of each: a function written out satisfies the equation, and no other does, by the
least argument where one could differ. For the loop of `map_del` (`MapDelLoopIs`) that function
says where the loop stands after r rounds. For `tid_arr` it rests on numbering the due places in the order
of `map_for_each` (`AtIs`, by counting the due places up to each): after c of them the array holds the
ids of the first c, or of the first `MaxTimeoutTid` (`Noted`, `TidArrIs`). For the calls of `map_del` it is the table
without the first `Gone(b, j)` entries of each chain (`LeftNext`): a place noted later lies behind those
noted before it in its chain (`GoneIs`), so its context is still there.

### EvtLoop

`EvtLoopProofs` proves, for every length of a second, any timers and intervals, that timers keep
their grid, that `select` wakes in time, and the bound on lateness. The assumptions
are those of the module; `StartAssumption` says that `main()` enters the loop before a
timer it created is due. The lemmas about the arithmetic come first: the
carry of `Later` adds exactly the interval (`LaterAdds`), pairs are ordered as the times they stand for
(`EarlierIsLess`), and the borrow of `SelectTimeout` gives the time left, or less than a
second for a timer that is due (`TimeoutBounded`). `IInv` then says what each phase knows:
in `arm` and `select` no timer is later than a second, in `read` and `timers` no later than a second and what
the handlers have used; a timer that the round has passed is due after the time
the round compares with, because its interval is longer than it was late.

### RouteFile

`RouteFileProofs` proves `FileTypeCorrect` and `StartRecovers` for every set of peers and number of
handles and starts. The invariant `FileOK` relates the disk to the last save that opened it: it
holds a part of that save, all of it when the save is done.

### BenParser

`BenParserProofs` proves for messages of every length and depth: types (`ParserTypeCorrect`),
`StatusFollowsNesting`, `StacksStayAligned` and `MessagesAreAccepted`. The assumption is
`StackAssumption`: a packet has no more tokens than a stack has places. The status variable is one for
all dictionaries, so what it means after an `e` depends on what lies below on `c`; no property is
inductive without the contents of `c`. The invariant therefore gives every open container a place on `c`
(`Laid`): its element there, above it the key that waits for a value, if one does, and then the
next container. A token changes the top of `c` in one of three ways: it takes
a container or a key off (`CutOff`), puts a key on (`KeyAdded`) or puts a
container on (`ContainerAdded`). `StacksAgree` is stated with a recursive function over
the open containers; `CtxForIs` shows that `c` equals it, at the first container where it could fail.

`TreeFollowsMessage` proves `TreeAgrees`. The property compares a chain, followed from its head by a recursive
function, with the tokens sorted from the last to the first, and neither is fit for an
induction over steps. `TreeInv` says the same link by link: `Holds` are the tokens that belong under
an element, its head points to the last of their elements (`Greatest`), and each of them to the next lower one
(`Linked`). What belongs under an element changes with a container that ends and not with
one that begins, so the invariant also says that the containers are nested and that nothing follows in a
container before the one open in it has ended (`Nested`); that a key has one value (`KeysOnce`); and that no token but
an end and the empty string is without an element (`Made`). A token hangs at most one element on one other, behind all
that hang there (`HangsStep`), and then the links are right again (`LinkedStep`). `ChainIs` leads from the links to the
sorted sequence; `ToksRise` is why elements are sorted as their tokens are.

### Node

`NodeProofs` proves, for every size of the tables, every hash and every bound, that the running node implements
`RouteTable` (`NodeKeepsTable`) and `ReqCtx` (`NodeKeepsContexts`), and with it
`DroppedPeersAreAsked` and `MaroonedNeverRejoins`. The assumptions are `TableAssumption`,
`CtxAssumption` and `ListAssumption`. The two refinements share the contexts: one step
changes a chain for `ReqCtx` and the set of pointers for `RouteTable`. Towards
`ReqCtx` a chain is looked at entry by entry, without its pointers, and `map_put`, `map_del` and the
timeout pass commute with that (`PutChain`, `DeletedChain`, `TickedChain`, `SuffixChain`).
Towards `RouteTable` no step but a sweep may make a new pointer: sending moves one from the list to a
chain, everything else drops some (`FewerPointers`). A sweep makes its list before it ages the table, and the list holds
every live slot (`FoundAll`, by counting: as many different entries as live slots), which gives
`DroppedPeersAreAsked`. `MaroonedNeverRejoins` takes the step lemmas the other way round: where there is no pointer, `CreditsNobody`, and
where there is no live slot the list is empty and ageing changes nothing (`EmptySweep`). Sweeps, insertions and rounds of a split are conjuncts of `Node`'s actions by their names in
`RouteTable`, so that for them `NodeKeepsTable` adds nothing; its content is what answers, sends and timeouts do to
slots and pointers. The invariant (`TreeOK`, `QueuesOK`) is what these steps need:
finitely many buckets, children only below nodes of the tree, slots in use with
their counter running, and no split or insertion beside requests still to be sent.

What `RouteTableProofs` and `ReqCtxProofs` prove then holds in the running node, and `NodeProofs` says so with
instances of both (`RTP`, `RCP`): the five invariants of the table (`NodeTableSound`), those of the contexts
(`NodeContextsSound`), `NodeKeepsPeers`, `NodeSplitsKeepAll`, `NodeDueLeave` and `NodeImplementsOutstanding`. `TableConstants` and
`CtxConstants` show that the assumptions of those modules follow from `Node`'s own. `NodeTypeCorrect` puts the two types
together and adds the lists of the two loops.

### Threads

`ThreadsProofs` proves, for every number and interval of timers, size of the queues and
number of requests: types, `MutualExclusion`, `QueuesStayBounded`, `NoDeadlyEmbrace`,
`SchedulerIsWoken` and `MessageStaysFirst`. The invariant adds `Known`, that what
stands in the queue are timers that exist and packets. `Places` and `Owners` write the places of the threads
and the holders of the mutexes out; each action then changes one place and at most one owner.

### What is only model-checked

Every invariant and every action property of the passing runs is a theorem. Liveness under fairness
(`SilenceEmptiesTable`, `CtxLeaves`, `FileCatchesUp`, `HandledOrStarved`) is out of the prover's
reach and left to TLC.

## 5. Findings

1. `DeadTwinNeverMet` (`platform/dht_spider.c:1413`): a peer that expired and is
   announced again is met as a dead slot of its own id; the line that should
   revive it is a comparison, so it stays dead.
2. `EntryInItsBucket` (`:1508`): after several rounds of a split the new id is put on a
   side of the last middle, although it may lie outside that range. The walk never finds it there.
3. `SplitCanSeparate` (`:1471`): entries outside the range being halved, or two
   with one id, keep the loop going for ever.
4. `CtxLostOnlyWhenDone` (`platform/hash_tbl.c:160`): "delete one" drops the
   entries in front as well, and `used` still counts them.
5. `NetWoken` (`tools/dht_spider.cpp:2241`): `net_thread`, waiting for room in the
   receive queue, is not woken when the scheduler makes room, and can miss the
   signals that are sent between its test and its wait.

No violated run is needed to see these:

6. `handle_ping_rsp` (`platform/dht_spider.c:991`) and `handle_find_node_rsp` (`:1070`) revive the slot, whoever stands
   in it by now. Contexts live longer than silent peers, so that an answer may keep another peer alive than the one that gave it.
   It is an ordinary step of `Node`.
7. `period_ping` (`:2292`) and `find_neighbor` (`:1986`) ask the bootstrap node only when `route_num` is 0, which it
   never is again: `MaroonedForGood`, checked and proved.
8. `save_route_tbl_to_file` (`:1628`) leaves its file open when there is no tree: `SaveEmpty` in `RouteFile`, where
   the handles run out.
9. `platform/dht_spider.h:38` gives the refresh interval in seconds; the code counts sweeps.
10. `handle_on_find_node` (`platform/dht_spider.c:671`) copies keys where it means values, builds a
   list of nodes whose entries overlap, and never sends it.
11. `handle_on_get_peer` (`:848`) stores a key into which it never copied the info hash, and sends no reply.
12. `handle_on_ping` (`:615`) replies with the head and the length of a request.
13. `init_route_table` of the older program (`tools/dht_spider.cpp:1821`) says that it joins by
   find_node and does not.

## 6. Not modelled

* SHA-1, sockets, printing, `net.cpp`, the bencoding stub: pure computation or
  input and output, no state. The thread functions and `mainxyz` left over in
  `platform/`: nothing calls them.
* `Node`: replies to other nodes, which change no state of ours; the map of info
  hashes, which nothing but a print reads; the counts of `q_mgr` in the platform
  program, which stand beside queues that are always empty; the width of the printed request number.
* `RouteFile`: an id of which only a part reached the disk counts as none, the
  order of entries and duplicates among them play no part, and two starts never make up the same id.
* `BenParser`: a packet ends between tokens, not inside one; dictionaries have no
  empty keys; what comes after the end of a message is not read. The model sends tokens and not bytes (`Send` is
  the sender's grammar), so lengths, the end of the buffer within a token, and the -1 of the readers, which
  `ben_coding` ignores at lines 409 and 492, are not in it.
* `Threads`: the contents of messages, and what handlers do to the tables, which only the scheduler touches.
* `map_get`, which changes nothing and which the platform program does not use, and
  failing allocations, everywhere.

## 7. Plan

1. The safety halves of the four liveness properties: for each the measure that a sweep, a timeout pass, a save or
   a turn of the scheduler that is not starved lowers, and that nothing but an answer or an insertion raises, as theorems, so that only fairness stays with TLC.
2. `Packed`, the dealing out of the entries at the end of a split, which `RouteTable` has in closed form, against the loop of
   the code, as `ReqCtxLoops` does for `map_del`.
