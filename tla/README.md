# ubitcore in TLA+

`ubitcore` builds **kadmin**, a node of the BitTorrent DHT (Kademlia), and carries
two programs under `tools/`: **btget**, which downloads torrents with the library
**libbt**, and a **torrent builder**. Each is a single process without
operating-system threads. In kadmin a small cooperative runtime
(`src/src/*.cc`) schedules "threads" that are state machines with a `bdocall()`
method, and the node itself (`src/src/btdht/*.cc`) is a handful of such threads
around one routing table. btget is one loop around `poll()`. This directory holds
the TLA+ specifications of these programs, the TLC runs that check them and the
TLAPS proofs about them.

Line references are to the files under `src/`. Tools: `tlc -config X.cfg M`
for a run, `tlapm M.tla` for a proof module.

## 1. Inventory

### The runtime

| part | state it keeps | operations | what makes it correct |
|---|---|---|---|
| **bthread** (`bthread.cc`) | the run queue `__q_running`; per thread `b_runable`, `b_swaitident`, `b_tick`; `_b_count`, `_jnow` | `tsleep`, `bwakeup`, `timeout`, `bpoll` | a runnable thread has an entry in the queue; `bpoll()` always finds one; everyone gets a turn |
| **btimerd** (`btimerd.cc`) | the ordered timer set `__q_timer`, the cached clock `_tnow` | `check_timer`, `enqueue`, `delay_resume`, `btime_wait`, `comming_time` | no deadline is lost or fires early because a thread armed another one; the assertion of line 66 |
| **bidlethread, biothread** (`bidle.cc`, `biothread.cc`) | - | block in `select()` until the next timer; poll the sockets | never blocks while a thread is runnable; the assertion of `bidle.cc:42` |
| **main** (`bloader.cc`) | - | boot contacts, session, starts the daemons, `bpoll`/`bdocall` for ever | the order of the start-up |
| **bsocket** (`bsocket.cc`) | per socket `b_fd`, `b_flag`, `b_jrd`, `b_jwr`; the queue of waiting sockets, two descriptor sets | connect, accept, send, receive, `q_read`, `q_write`, `bpoll`, `bselect` | a waiter of a ready socket wakes; a closed socket is in no set |
| **bclock** (`bclock.cc`) | the last tick | prints at intervals | - |
| **btcodec** (`btcodec.cc`) | a parsed bencode value | `bload`, `bget`, `c_str` | accepts the grammar, never reads past the buffer |

### The DHT node

| part | state it keeps | operations | what makes it correct |
|---|---|---|---|
| **knode** | id, address, `b_last_seen`, `b_failed` | `touch`, `failed`, `set`, good/doubtful/bad | the verdicts fit together |
| **kbucket** | up to 8 nodes, up to 8 backups, `b_need_ping` | `update_contact`, `failed_contact`, `find_nodes`, `get_ping` | nodes that answer stay; ids are distinct; replacements are sound |
| **ktable** | 160 buckets, the range in use, `b_need_ping`, the own id | `insert_node`, `failed_contact`, `find_nodes`, `get_ping`, `setkadid` | `find_nodes` returns contacts of the nearest buckets; the flag agrees with the buckets; the window holds the 8 closest |
| **kfind** | contacts to ask, asked, answered, `b_concurrency`, the state of `vcall` | constructor, `kfind_expand`, `vcall` | asks nobody twice, leaves nothing closer out, reports no node that answered as failed, ends |
| **kgetpeers** | as kfind, and the peers found | as kfind, `front`, `pop`, `empty` | as kfind |
| **kship** (`transfer.cc`) | a request identifier, the queue of its responses, the thread to wake | `get_response`, `binput`, requests | a response reaches the lookup that asked |
| **bdhtnet** (`provider.cc`) | the identifiers in use, the UDP socket | dispatch of responses, answers to queries | late responses of a deleted kship are dropped |
| **pingd** (`kpingd.cc`) | contacts to ping, pings out, `b_concurrency` | sends pings, expands answers, times out | every doubtful node is pinged; answers count |
| **bootupd, checkerd** | the state of their cycle, a kfind | bootstrap, refresh of the far buckets | the cycle never stops |
| **serviced** (`services.cc`) | a control connection, a kgetpeers | accept, receive an id, send the peers | - |
| **btkad** (glue), **loadsess**, **refresh** | boot contacts; -; never started | wrappers; the session file | `genrefreshid` yields an id of the bucket asked for |

### btget, libbt and the builder (`tools/`)

| part | state it keeps | operations | what makes it correct |
|---|---|---|---|
| **peers and pieces** (`peer.c`) | per torrent the pieces completed, requested and interesting, the partial pieces, the peers; per peer four flags of choke and interest, the piece it works on, requests out, requests queued, two timers | the handshake, each message, the choice of pieces and of favorites, shutdown | whoever can be asked is asked; a requested piece is somebody's; a choked peer is not served; the torrent completes |
| **request queues** (`peer.c`) | a ring of 30 requests | enqueue, dequeue, peek, in-place removal | behaves as a sequence |
| **connection, stream** (`btget.c`, `stream.c`, `strbuf.c`) | two buffers, the last error, empty reads in a row | peek, read, write, flush; `recv_peermsg`, `client_run` | messages are read whole, none is left behind, output is watched, the upload queue empties |
| **poll table** (`context.c`, `btget.c`) | the entries of `poll()`, the map from sockets to entries, `x_set` | add, delete, events; the loop over the table while it changes | map and table agree; each event is handled once |
| **tracker client** (`context.c`, `btget.c`) | interval and timers of each torrent, its peers | register, both forms of peer lists, completion | peers are tried, once; the tracker is told in time |
| **segmenter** (`segmenter.c`, `context.c`) | the files on disk, the partial pieces | write, read, review at the start | a complete piece reads back as it was sent, whatever files it crosses |
| **file cache** (`util.c`) | a ring of 50 open files | `cacheopen`, `cacheclose` | a slot's descriptor is open on the file it names; none leaks |
| **bit sets** (`bitset.c`) | bytes, the last one with bits beyond the end | set, clear, ranges, questions, picks | behave as sets |
| **bencoding** (`benc.c`, `bts.c`, `types.c`) | objects, streams | read, write, dictionaries | what is read and written again is unchanged: the hash that names a torrent depends on it |
| **builder** (`tools/builder/main.cc`) | a buffer of one piece | its arguments; pieces across files | the pieces are the files one after the other |

`test/` holds UDP clients with an older copy of the codec.

### How they interact

`main()` runs `bthread::bpoll(&j); j->bdocall()` for ever. A lookup is not a
thread: `bootupd`, `checkerd` and `serviced` call `kfind::vcall()` or
`kgetpeers::vcall()` from their own `bdocall()`, and it is their thread that
sleeps inside. Requests go out through a `kship`; `bdhtnet`, the only thread
that reads the UDP socket, finds the kship by the identifier of a response and
appends to its queue. Everyone reports contacts to the table with
`update_contact()` and `failed_contact()` (`btkad.cc`), and `update_contact()`
wakes `pingd` when some bucket has doubtful nodes and backups for them.

In btget the loop of `main()` calls `poll()`, gives each socket with an event, or
with work left (`x_set`), a turn of `client_run()`, and looks at its timers:
favorites every thirty seconds (`btget.c:595`), trackers by their interval. A turn of one
connection reaches the others: a finished piece is announced to all of them and
makes those without a piece ask again, so output appears on sockets whose turn it is
not, and a peer found dead while it is announced to is closed in the middle of the
loop over the table.

Nothing preempts a `bdocall()` or a turn, so there are no data races. The hard part is
what happens *between* two calls. In kadmin a thread goes to sleep on an identifier and
trusts that a wake-up, a timer or a socket will find it; a lookup goes to sleep
with requests out and is resumed after late, duplicate and missing responses;
the table changes under everyone who keeps a copy of a contact. The hazards are
listed one by one, with the line where each bites, in `PROJECT.json`.

## 2. Modules

| module | models | kind |
|---|---|---|
| `Bthread` | the run queue, the timers, the idle and the i/o daemon, the main loop, and the threads as users of them | specification |
| `Kfind`, `Kgetpeers` | a lookup of nodes and the responses it reads; the same with the peers it collects, under serviced | specifications; `Kgetpeers` extends `Kfind` |
| `Knode`, `Kbucket` | a contact and a bucket, as operators | definitions |
| `KbucketSpec` | one bucket under any sequence of calls | specification, and the abstract one for `Ktable` |
| `Ktable` | the routing table, composed of buckets | specification |
| `Kdist` | distances, their order, the index of a bucket and `genrefreshid()`, byte by byte | pure functions with their state |
| `Knet` | kships, the numbers of requests, their answers, restarts | specification |
| `Kmail` | what the numbers are for: sessions that get the answers to their own requests | abstract specification of `Knet` |
| `Kpingd` | pingd over one bucket | specification, on `Kbucket` |
| `Kquery` | the answers of bdhtnet to queries, over one bucket | specification, on `Kbucket` |
| `Kboot` | the start of the node, bootupd, checkerd | specification |
| `Bsocket` | the sockets and the pass over them, serviced and bdhtnet upon them | specification |
| `Btcodec`, `BtcodecRef` | the reader of bencoded packets; values and grammar to compare it with | specification, reference |
| `Swarm` | one torrent and its remotes: handshakes, messages, choice of pieces and favorites, requests, uploads | specification |
| `ReqQueue`, `QueueSpec` | the ring of requests; the sequence it stands for | specification, and its abstract one |
| `Client` | one connection of btget: stream, buffers, turns of `client_run()` | specification |
| `StatusMap` | the table of `poll()` and the loop over it | specification |
| `Tracker` | trackers, their answers, the peers connected to | specification |
| `Fileset` | pieces over files, writing, reading, the review at the start | specification |
| `FileCache` | the ring of open files | specification |
| `Bitset` | bit sets with the bits beyond their end | specification |
| `Benc` | bencoding, streams and dictionaries of libbt | specification |
| `Maker` | the torrent builder | specification |
| `MCBthread`, `MCKfind`, `MCKbucket`, `MCKtable`, `MCBuckets`, `MCNode`, `MCTorrent`, `MCBtget` | constants for TLC, and compositions of the above for one run | instances |
| `BthreadProofs`, `KbucketProofs`, `KtableProofs`, `KfindProofs`, `KnetProofs`, `SwarmProofs`, `BtgetProofs`, `PartsProofs` | theorems (section 4); `KfindProofs` also those on `Kgetpeers`, `KnetProofs` on `Bsocket`, `BtgetProofs` those on `FileCache`, `Client`, `Bitset`, `Tracker`, `Maker` and `Fileset`, `PartsProofs` those on `KbucketSpec`, `StatusMap`, `ReqQueue`, `Kquery`, `Kpingd` and `Kboot` | proofs |

Operators called *Mutant* in their comment are wrong versions of the operator
they stand before. They belong to no specification; each shows that a property
does not hold by itself (`PROJECT.json`, `mutants`).

### kadmin

**Bthread.** `runq`, `runable`, `ident` are `__q_running`, `b_runable`,
`b_swaitident`; `btick`, `timers`, `tnow`, `clock` are `b_tick`, `__q_timer`,
`_tnow` and what `time(NULL)` returns; `stamp` is the `b_last_update` of the
lookup a thread runs, or pingd's `b_last_seen`; `bcount` is `_b_count > 0`. A
turn of `bpoll()` is `PollDrop` or `PollRun`, `check_timer()` goes timer by timer
(`TimerStart`, `TimerFire`, `TimerStale`, `TimerDone`), the two `bdocall()`s that
end in `bselect()` and its pass are `IoStart`, `IdleSkip`, `IdleStart`,
`SelectReady`, `SelectRequeue`, `SelectDone`; `JobWake` ... `JobHardError` are
what a thread's `bdocall()` does to the runtime. It is atomic with respect to the
other threads but not to the clock, so it is cut into these; their order is
free, and the constants `SleepOn`, `Wakes`, `Delay`, `BootIdent` say what a
thread may do, which covers every state machine of the node. Two guards come from
the callers: `delay_resume()` is only reached when `b_last_update+5 > now_time()`,
and every caller of `btime_wait()` tests that its time is still to come.

**Kfind, Kgetpeers.** `qfind`, `outqueue`, `mapined`, `trim`, `ended`,
`concurrency`, `finding` are the fields of that name, `seenid` and `seenhost` are
`b_mapoutedkadid` and `b_mapoutedaddr`, `expired` is the test on
`b_last_update`. `asked`, `learned`, `answered`, `heard`, `failed` are history.
`vcall()` is cut at its loops, one action for a turn of one; nothing else moves
until it sleeps. A contact is its distance to the target and its host. The only
wake-up of a sleeping lookup is its timer: it sleeps on the kfind
(`kfind.cc:168`), `kship::binput()` wakes on the thread (`transfer.cc:96`), and
`bwakeup()` refuses another identifier. `Kgetpeers` adds the values of a response,
the filter, and the queue that serviced sends from.

**Knode, Kbucket, KbucketSpec, Ktable, Kdist.** A bucket is a record of nodes,
backups and flag, and the methods are operators from a bucket to a bucket.
`b_failed` counts to `MaxFailed`, beyond which nothing tells counts apart. An
emptied backup slot has the id `NullId`. `Ktable` has one bucket for each length
of the common prefix, `bit1_index_of()` being the constant `Index`; it declares
`Bucket(i) == INSTANCE KbucketSpec` and `BucketsWork` says that each of its buckets is
used as `KbucketSpec` allows. A search goes from bucket to bucket, and `Rank` is what it can
tell apart: the target's bucket first, then all those beyond it, which share as many bits with
the target as the table's own id, then those before it one by one. Of the last rank it takes
from it may leave out a contact nearer than one it returns, as the code may; no property speaks of
distances within a rank. `Kdist` computes the index of a bucket as the code does, on bytes
of few bits, with `setkadid()` at any time; it has both `b_nbucket1` and `b_nbucket0`, which is
what `size_of_table()` returns and `genrefreshid()` compares its index with.

**Knet, Kmail.** `tid`, `requests` are `b_tid`, `b_requests`; a kship is a record of
its number, its thread ("unset" until the first `get_response()`) and its queue,
named by the thread that owns it. The identifiers on the wire may be repeated,
come late, or be longer than a byte, whereupon `Transids` says what the code
reads of them. `wild` records that `binput()` read a thread that was never set.
`Restart` begins another life with numbers from 0 while answers to the last one
are on the way. The mapping to `Kmail` is `Mail`.

**Kpingd, Kquery.** pingd's maps, counters and state under their names; answers
may be late, doubled, or without an id. `TurnSend`, `TurnReceive`,
`TurnFail`, `TurnDrained` are the steps of the loop in `bdocall()`: what goes out at once, one
response, one failure of a contact that did not answer in time, the rest; nobody else acts
while the thread is running. Its bucket is `Kbucket`'s, changed by others
in between (`Contact`). `Kquery` is what a query does to the table and what the reply
names.

**Kboot.** main() up to its loop, then both daemons state by state. A time is a
deadline that is not there, ahead or due; the table is reduced to `b_nbucket0`, its
`size()`, and whether `find_nodes()` returns anything. `b_nbucket0` is 0 until more than
eight contacts are in the table, so that checkerd's first turn may find `index >= size` and sleep with
nodes known, until bootupd sees more than four buckets and wakes it.

**Bsocket.** Descriptors, flags and waiters of the three sockets, the queue and the
two sets of `bsocket.cc`; serviced by its states, bdhtnet as the reader of
datagrams; the kernel's part: what is readable, closed descriptors. `crashed`
records that the next `select()` fails.

**Btcodec.** The text is a sequence of characters and every `bget()` reads it again
with one cursor. `TRY_KILL` is an object from which everything is read as infinite.

### btget

**Swarm.** `dl` is the torrent: completed, requested and interesting pieces, the
partial pieces with the blocks in them, the set of peers and its counters, as in
`btDownload`; `peer[p]` is one `btPeer` with its flags, the piece it is on, the
requests it has out and those it queued, timers as running or not, and the
bytes on its wire as messages. One action is one message handled whole, with every
loop over the other peers in it: the cancels of a finished piece, the haves, the new
requests of peers that were on it. A send to a remote that is gone fails in the
middle of that and leaves its peer in `ERROR` until its own turn. Rates are chosen
freely at each choice of favorites. `BITFIELD` comes first or not at all.

**Client.** What `recv()` finds is a sequence of units, the length of a message or its
body: a keep-alive is one unit, any other message two, and its first may be there before
the other. A length beyond `MAXMESSAGE` (`BIG`) closes the connection. A negative one (`NEG`) passes
the test `len <= 80` when its message is the first of a turn and ends btget at a `DIE_UNLESS` (`Dies`);
behind another message it closes the connection, but for -4 to -1, which look like a message that is there.
`turn` is where `client_run()` is. `x` and `pollout` are why the connection gets its next
turn: a turn for `x_set` that finds no more to do takes the socket out of it (`KeepsX`), one
that `poll()` gave leaves it in, so that a turn for `x_set` may follow with nothing to read, and
be counted. `execs` is a history: how many turns out of `x_set` there have been since something was read.

**StatusMap.** Entries, the map, the set `x_set`; `at` is the position of the
loop, and accepts, connects, deaths of others and closings occur while it goes on.
`died` records a failed `DIE_UNLESS`.

**Tracker.** Time is the age of the two timers; an answer is absent, a refusal, a
list of hosts with ids or a compact list.

**Fileset, FileCache, Bitset, ReqQueue.** Files are sequences of addresses, so a byte
in a wrong place shows; a crash between two files of a piece, and files deleted,
cut or spoilt while btget is down. The ring of `util.c` with its index and the
descriptors the kernel has given. Sets as bytes. The ring of 30 requests as one of
`QUEUESIZE`.

**Benc, Maker.** Texts are sequences of characters. The builder's walk over its
arguments, then `build_hash()`, one `fread()` at a time.

## 3. Runs

A run goes through several *parts*. The initial state chooses the part that moves
(`part`, or `Parts` in the cfg) and the others rest in their initial states: the
states of the parts are added and not multiplied, and each part is checked in
the surroundings its own module gives it. Properties are therefore of the form "in
this part, ...". A fairness formula of a run with parts may be a disjunction of one
action of each, since `part` never changes.

| run | module, cfg | what it shows |
|---|---|---|
| `bthread_lookups` | `MCBthread`, `BthreadLookups` | serviced (woken by its socket and by its lookup's timer, rearming itself) beside a bdhtnet whose `recvfrom()` fails hard, with the wall clock set back: the run queue holds every runnable thread, `assert(0)` of `bthread.cc:89` is not reached, bidlethread waits only when all are asleep |
| `bthread_live` | `MCBthread`, `BthreadLive` | bdhtnet, pingd and bootupd with timers: the same, the assertions of `btimerd.cc:66` and `bidle.cc:42` hold, no deadline is lost, every runnable thread runs, every armed timer wakes its thread |
| `bthread_clock_back` | `MCBthread`, `BthreadClockBack` | **violated**: the clock set back, `assert(THEADER->tt_tick <= item->b_tick)` fails |
| `kfind` | `MCKfind`, `Kfind` | a lookup asks nobody twice, goes to sleep with the right count and forgets nobody, keeps the K closest answers and leaves no closer contact out, reports nobody failed who answered in time, ends |
| `kbucket_duplicate` | `MCKbucket`, `KbucketDuplicate` | **violated**: an id can get two slots of a bucket |
| `kbucket_replace` | `MCKbucket`, `KbucketReplace` | **violated**: "replace with good node" puts in a node that never answered |
| `ktable_ping` | `MCBuckets`, `KtablePing` | one bucket: distinct backups, no emptied slot among the nodes, nodes leave for cause, backups are cleared only when all nodes are good; three buckets of a table: contacts where they belong, the ping flags agree, each bucket is used as `KbucketSpec` says |
| `ktable_window` | `MCKtable`, `KtableWindow` | `b_nbucket0` delimits the K closest contacts; `find_nodes()` returns contacts of the nearest ranks of buckets, for every target, with and without validation |
| `node` | `MCNode`, `Node` | the numbers of requests implement `Kmail`, and wake no wild thread of a lookup after a restart; pingd loses count of pings only to answers that belong to nothing, and a node that answers keeps its slot; queries harm nobody in the table; whoever waits on a socket is found; one id at the start, checkerd stops for want of nodes or of a large table and passes no bucket over; every peer found is sent once; refreshed ids are of their bucket; the decoder takes the grammar |
| `node_live` | `MCNode`, `NodeLive` | pingd pings and goes back to sleep; clients are heard, and sent all; the refresh goes on |
| `torrent` | `MCTorrent`, `Torrent` | remotes as givers, sharers of a piece with bad data, wanters of ours while we download, callers, takers, and three for two places: see `PeersSound`, `UploadsSound`; the ring refines a sequence; files read back; bit sets are sets |
| `btget` | `MCBtget`, `Btget` | the table of `poll()`, the stream, the trackers, the files open, bencoding, the builder; a download ends |

The disagreements shown by a run:

- *Clock set back.* `enqueue()` overwrites `b_tick` with a deadline computed from
  `time(NULL)`. pingd arms 3 at time 2, the clock goes back to 1, pingd is woken
  by a response, sends and arms 2; when the entry for 3 is looked at it lies
  beyond the thread's last deadline and the assertion of `btimerd.cc:66` fails.
- *Two slots.* `update_contact()` lets a newcomer take a bad node's slot
  (`kbucket.cc:153`) and leaves it among the backups, from where
  `failed_contact()` copies it over a second node (line 78). Only the first slot
  is found by id from then on.
- *Not a good node.* A backup is chosen by its last answer, and when none ever
  answered the first one is taken (lines 70-78): a doubtful node by the code's
  own verdict.

The models also follow the code where it does otherwise than one of its texts says.
These are parts of the models' behaviour; no property asks for the text, and no
run is spent on them:

| text | what the code, and the model, does | model |
|---|---|---|
| `bsocket.cc:344` `assert(count != -1)` | after a failed `bsend()` serviced gives its lookup up and leaves its timer and its wait on the client's socket behind; woken by the timer it reads, returns to accept, and `baccept()` closes a descriptor that the next `select()` is given | `Bsocket!Select`, `crashed` |
| `kpingd.cc:61` | `memcmp() != 20` is true of equal ids: who answers is reported failed first | `Kpingd!TurnReceive` |
| `peer.c:1347` "assign a partial block if no one else is working on it" | a choke clears the mark of a piece others are on, and it is assigned as nobody's | `Swarm!Choke` |
| `peer.c:1354` "but not more than three on a block" | the filter stops at a piece the peer has, however many are on it, or at one it lacks that four are on, and assigns it: a peer may be asked for a piece it lacks | `Swarm!AssignedPiece`, `RequestsOfCurrent` |
| `peer.c:485` "returns number of queued requests that were deleted (usually 1)" | of equal requests in a row one stays and the next other one goes | `QueueSpec!Unqueued` |
| `context.h:84` "_delstatus() with TMPLOC will free the temporary status" | `ctx_delstatus()` asserts that it is not TMPLOC: a `connect()` that fails at once ends btget | `StatusMap!DelStatus`, `died` |
| `peer.c:590` "Return 1 if there are more messages waiting" | not after a keep-alive, nor after an unknown message when the last write was cut short: what is behind it waits for more to arrive | `Client!RecvPeermsg` |
| `btget.c:90` "Return 0 - no more work" | also with blocks queued and room for them | `Client!ProcessQueue` |
| `stream.c:108` "cap the number of EAGAINs on any socket" | turns given for uploads count as well, and a remote that only takes blocks is dropped | `Client!Again` |
| `btget.c:569` "close all files, only once" | `cacheclose()` closes at most one | `FileCache!CacheClose` |
| `context.c:291` "Simply tests by IP." | peers of a compact list are compared at the wrong offset and never recognised | `Tracker!Collides` |
| `builder/main.cc:8-9` "name: file name" | a torrent of a single file is always named "driver" | `Maker!EndArgs` |

### Bounds, and why they are enough

- *Bthread*: three jobs (two with serviced) beside the three daemons: one that
  sends and is woken by messages, one that sleeps on timers, one on the
  socket. `MaxClock` 3 gives a thread two deadlines one of which supersedes the
  other; for serviced, whose timer is its lookup's, 2 and the way back to 1.
  `Delay` is 1 for all, so that two deadlines occur in either order. `MaxQueue`
  cuts the growth of the queue after hard errors off.
- *Kfind*: four distances and four hosts, K = 2, two requests at a time, up to two
  responses of a host; a host under two ids and an id under two hosts, a
  response without an id, contacts that lead back.
- *Buckets*: four ids for two nodes and two backups, so that both lists overflow;
  `DoubtAge` 1 and a clock of four values give never seen, seen and silent. Table:
  with K = 1 two buckets overflow and compete for one ping; with K = 2 one
  overflows and the window leaves it; a clock of two values in both. `DoubtAge` 0 makes a node doubtful
  one tick after its answer.
- *Node*: two lookups beside pingd, `TidSpan` 8 for 16 bits of numbers and four kships
  (two lookups cannot wrap around: nor do 65536); with a restart one lookup and two
  kships. pingd: a bucket of two and three contacts, two at one address, a window
  of one, two answers. Sockets: three clients for one place, one descriptor more
  than is open at a time. Start: five buckets, of which checkerd goes through the
  far ones, no boot contact or one. Ids of two bytes of two bits each have a byte boundary
  inside the prefix. Texts of up to five characters over the alphabet of
  the format; encodings nested once.
- *Torrent*: two pieces of two blocks, two or three remotes, three slots for two
  requests out; one unchoked place for two that want it, two for three. The thresholds
  of the code (more than four interested, four incomplete or fewer, more than ten seeds, four on a piece) are
  constants, crossed while the parts run: `ManySeeds`, `FewIncomplete` and `Share` in the downloads,
  `ManyInterested` in "wanted". Files: one that ends inside a piece, one empty, one longer
  than a piece, a short last piece, one harm, or two where pieces and files end
  together. Sets of three bits in bytes of two, ranges up to five bits. A ring of five.
- *Btget*: a ring of three open files; four sockets for three entries; connections
  with up to three or four units waiting; four hosts' answers, once repeated, for a
  limit of three or four connections; objects of five nodes, texts of six chunks; five
  arguments over three files.

Permutations are symmetries where ids or remotes are only compared for equality;
no run with a liveness property uses one. `CHECK_DEADLOCK FALSE` appears where
the clock stops at its bound, a lookup, a builder or the torrent comes to its end, or the
code really ends (`crashed`, `died`).

### Fairness

- `Bthread!Fairness`: the main loop turns for ever, so `PollDrop`, `PollRun`, the
  daemons' steps and the end of `select()` are weakly fair; time passes; a
  `bdocall()` loops while `b_runable`, hence goes to sleep and returns. Its return
  is strongly fair because serviced may rearm itself a few times first.
  Nothing is assumed of sockets becoming ready or of jobs sending.
- `Kfind!FairSpec`, `Kgetpeers`: `vcall()` runs on and the timer comes, which is
  `JobsRun` of `Bthread`; no fairness for the network, which may stay silent.
- `Kpingd!FairSpec`: its thread is run on, timers go off, time passes up to the bound, at
  which everything out is late.
- `Bsocket!FairSpec`: `select()` reports and the pass goes on, each thread that is
  ready is run. `Kboot!FairSpec`: the same of the two daemons, and their lookups end.
- btget: what one remote, `pa`, is assumed to do for `DownloadEnds`: it stays and
  serves what is asked, when it could infinitely long; the other does what it likes.
  For the uploads the remote pauses now and then and takes our output. The loop
  looks at every torrent's timer; some tracker answers at last.

These formulas are stated in the modules and, part by part, in `MCNode` and `MCBtget`.

## 4. Proofs

| module | theorem | property | assumption |
|---|---|---|---|
| `BthreadProofs` | `RunnableQueuedHolds`, `PollFindsJobHolds`, `IdleOnlyWhenAsleepHolds`, `ServedSoundHolds` | `RunnableQueued`, `PollFindsJob`, `IdleOnlyWhenAsleep`, `ServedSound` | |
| | `TimersSoundHolds` | `TimersSound` (`TimerOrder`, `DeadlineArmed`, `TimersAhead`) | `StepBack = FALSE` |
| `KbucketProofs` | `UpdateContactSound`, `FailedContactSound` | what the two operations keep of any sound bucket | |
| `KtableProofs` | `TableSoundHolds`, `ClosestKnownHolds` | `TableSound`, `ClosestKnown` | |
| | `BucketsWorkHolds` | `BucketsWork`: in each bucket `Ktable` implements `KbucketSpec` | |
| `KfindProofs` | `NeverAskedTwice`, `RequestsCountedHolds`, `ClosestFoundHolds`, `AnswersCountHolds` | `AskedOnce`, `RequestsCounted`, `ClosestFound`, `AnswersCount` | |
| | `PeersLookupIsLookup`, `PeersLookupHolds` | `Kgetpeers` implements `Kfind`, and so the four above hold of it | |
| | `PeersOnceHolds`, `ZeroIsSilence` | `PeersOnce`, `ZeroMeansSilence`, `GTypeOK` of `Kgetpeers` | a string of bad length is no string of peers |
| `KnetProofs` | `NumbersSoundHolds` | `NumbersSound` | |
| | `MailImplemented` | `ImplementsMail`: `Knet` implements `Kmail` | no restarts, no long numbers |
| | `SocketsSoundHolds` | `QueuedOnce`, `WaiterWatched`, `PassKeepsWakeups` of `Bsocket`, and `select()` is given no closed descriptor | no `send()` fails (`Slow = Gone = FALSE`) |
| `SwarmProofs` | `PeersSoundHolds` | `PeersSound` | |
| | `UploadsSoundHolds` | `FewServed`, `WantersServed` of `Swarm` (the run's `UploadsSound` is both, of two instances) | |
| `BtgetProofs` | `RingSoundHolds` | `RingSound` (`SlotsOpen`, `NoLeak`, `RightFile`) | |
| | `StreamSoundHolds` | `Framed`, `EmptyFlushSafe` of `Client` | |
| | | `OutputWatched` of `Client` | no other peer's turn writes |
| | | `NothingLeftBehind` of `Client` | no keep-alives, no unknown messages |
| | | `KeptWhileSound` of `Client` | |
| | `SetsRightHolds` | `AsSets`, `PicksWanted`, `AsNamed` of `Bitset` (the run's `SetsRight` is these, of two instances) | |
| | `TrackersSoundHolds` | `EntriesCounted`, `ListedOnce`, `AllTried`, `Timely`, `CompletedOnce` of `Tracker` (the run's `TrackerSound` is these and liveness) | no interval is negative |
| | `PiecesHold` | `TypeOK`, `PiecesOfStream`, `EntriesOfFiles` of `Maker` (together the run's `PiecesOfStream`) | sizes and numbers are not negative |
| | `FilesHold` | `TypeOK`, `ReadsBack`, `LeftRight`, `RightKept` of `Fileset` (the run's `FilesReadBack` is these, of two instances) | |
| `PartsProofs` | `BucketSoundHolds`, `BucketKeepsHolds` | `KbucketSpec!BucketSound`, `KbucketSpec!BucketKeeps` | |
| | `PollTableHolds` | `MapSync`, `PolledOnce`, `Listens` of `StatusMap`, and no assertion fails when no connect is refused at once | |
| | `RingIsAQueue` | `IsAQueue`: `ReqQueue` implements `QueueSpec` | |
| | `QueriesSoundHolds` | `GivenNodes`, `AskingIsNotAnswering`, `QueriesHarmless` of `Kquery` | |
| | `PingdSoundHolds` | `Undercounts`, `NoPingUnwatched`, `SleepsOnPings`, `AnswererKept` of `Kpingd` | |
| | `StartSoundHolds` | `OneId`, `EveryBucketAnswered`, `StopsForWantOfNodes` of `Kboot` | |

The types (`TypeCorrect`, or a part of the invariant) are proved everywhere. The theorems
hold for every set of jobs, ids, hosts, lookups, peers, pieces or paths, every `K`, window,
number of buckets, ring and bound, and rest on the named assumptions on the constants (`BthreadAssumption`, `KfindAssumption`, ...), which TLC evaluates in every
run.

*The run queue.* That nobody is runnable when bidlethread finds `_b_count = 0`
depends on the order of the queue. `QInv` adds to `RunnableQueued` that the three
daemons are always runnable, that bidlethread has at most one entry, which is the last
one while it runs, that a running thread is queued, and that while `_b_count` is 0
every runnable job that is not running has an entry ahead of bidlethread's: it will
have had a turn, and returned asleep, before bidlethread looks at the count again.
A drop, a rotation, a wake-up and a sleep each preserve this (`QInvDrop`,
`QInvRun`, `QInvWake`, `QInvSleep`).

*The timers.* `TInv`: the clock is never behind the cached one, every entry is at most
its thread's last deadline, that deadline itself is pending until it has passed, and
outside `check_timer()` no entry is due. The assertion of line 66 needs one fact more,
where the clock enters: a deadline armed later is not earlier. For lookups `b_tick` is
at most `stamp + Delay` and `stamp` only grows; callers of `btime_wait()` never run
while a deadline of theirs is ahead, since only that timer wakes them.

*A bucket.* `SoundBucket`: not more than `K` nodes and backups, no emptied node, no id
twice among the backups (among the nodes there may be: `kbucket_duplicate`). The lists
are changed in place, so the lemmas say of each of `update_contact()`'s and
`failed_contact()`'s cases which positions keep what they held; `UpdateKeeps` and
`FailedKeeps` are those steps as relations between a bucket and the next one, and
`BucketKeeps` and the table's theorems both follow from them.

*The table.* `TableInv`: every bucket is sound; a bucket beyond `b_nbucket1` has never
been used; from `b_nbucket0` on there are at most `K` contacts, and with the bucket before
it there would be more (`WindowIsClosest`); the flags of the buckets agree with the table's.
`insert_node()` moves `b_nbucket0` forward only; this is enough because a bucket never
shrinks (`failed_contact()` leaves its size, `WindowKept`). The contacts from a bucket on
are a disjoint union of cells, whose number is monotone (`CountGrows`). `BucketsWork` is one refinement per
bucket: the bucket a call names does a step of `KbucketSpec`, the others stutter, and a
tick of the clock is one of all. For `ClosestKnown`, `find_nodes()` goes through the
buckets by their distance to the target; what it has collected at each turn is
a function on the turns (`FlattenGathers`), and all that it leaves out is in a bucket of a
later turn, whose ids are all further away (`OrderProperties`). Facts about turns and
counts are shown by a least counterexample (`LeastExists`: a set of numbers that is not
empty has a least one), since the library's induction takes an operator.

*Who is asked.* `SeenInv`: what is queued or was asked is in the two maps of what
was seen, two queued contacts differ in id and in host, and a queued one differs
in both from all that were asked.

*The window.* `b_concurrency` does not count the requests at every moment: a late
or duplicate response lowers it while nothing leaves `b_outqueue`. `WindowInv` says why
this does no harm: responses are read only after the time is up, and then
`ReceiveDone` sets both to zero. Everywhere else the count is the cardinality
of `outqueue`. `AnswerInv`: everyone asked is out, answered or failed, and once the
time is up nobody heard of is still out.

*The answers kept.* `BestInv` is `BestK` and that `mapined` has at most K members;
the step is `BestReceive`, on the greatest member of a finite set (`MaxExists`).

*Nothing closer left.* `ReachInv` follows a contact from being told of to being
asked: too far, or its id was seen; a seen id leads to a told contact whose host
was seen; a seen host to a contact asked or queued. `SearchInv`: when
`b_last_finding` is clear all that is queued is too far.

*The peers.* Every step of `Kgetpeers` is one of `Kfind` or leaves its variables alone,
which gives all of the above without another proof. `FoundInv`: what is still to be read
are strings of peers, or the one that ends the list, and the filter is what was offered, so
a peer that passes it is neither sent nor queued (`OnceAppended`). `CountInv`: while
`b_sumumery` is zero nobody answered, and only who was asked is reported failed; with
`AnswerInv` and an empty `outqueue` at the end that leaves all who were asked.

*The numbers.* `NetInv`: every kship has a number below `TidSpan` that no other has and
that leads to it (`Numbered`, `NumbersLead`); an answer on the way in this life with a
number in use is for the kship that has it (`Labelled`), so what is in a queue was asked
for by its owner (`OwnAnswers`); who sleeps on its kship's thread has read all
(`Sleepers`); and in an honest network `b_thread` was set when it is read. The
refinement maps a kship to a session and its number to the session's; every action
is a step of `Kmail` or a stutter, an answer that leads nowhere among them.

*The waits.* `SocksInv`: a socket has its flags, a place in the queue and its descriptor in
the set exactly while the one thread it belongs to sleeps on it, descriptors of different
sockets differ, and serviced has a deadline only while it sleeps on its lookup. During the
pass over the queue (`PassInv`) this holds of the sockets that had their turn, and the count
of ready descriptors is at least the number of ready ones still to be found (`PassStep`), so
no reader that is ready is put back. Where `send()` may fail a wait is left on a socket that
its thread no longer sleeps on; the assertion on `select()` can fail then (section 3), and
what remains of the properties in that part is model-checked.

*The ring of files.* `RingInv`: the descriptors of the slots are open and differ, every
open one is in a slot. Closing the slot the index is at before it is filled keeps
both, and a slot that is hit is open on the path and with the options asked for.

*The swarm.* The invariant `IInv` is `Sound(Now, {}, {}, {})`. `Sound(S, B, U, L)` speaks
of a state `S = [dl, peer]` in the middle of an action, since one message may finish a
piece, cancel it at every peer that is on it, announce it and give every idle peer a new
one, and any send may fail and take a peer away in between. It consists of `Whole` (the
torrent: no piece twice among the partial ones nor completed and partial, the set of peers
is who has joined it, and a piece marked requested is somebody's) and of what holds of each peer by itself: `Proper` (its requests are of
its current piece and were sent; a timer runs only for somebody not choked who is
interested; what is queued for it is of a piece we have and it is not choked; past its
handshake it has been told of what is finished) and `Busy` (on a piece it has asked for something of it, and when it may give it is on one). While a
finished piece is announced the peers of `U` need not have been told of the pieces `B`
yet; while pieces are given back those of `L` need not be busy yet. Each operation has a
lemma that it keeps `Sound` and how it changes `U` and `L` (`SendRequestSound`,
`FinishSound`, `PieceSound`, ...), and the loops over the peers (`AskTurns`, `CancelTurns`,
`FinishTurns`) are functions on the number of turns, shown to keep it by `UpTo`, which is
induction over numbers without a schema: a set that has 0 and with `i` also `i + 1`.
`IInvGives` derives the conjuncts of `PeersSound`.

*The uploads.* `Whole` also has `FewSound`: no more than `DOWNLOADS` peers past their
handshake are not choked. A handshake starts choked and no step but the choice of favorites
ends a choke (`UploadKept`), so all rests on the choice, which `Favored` follows peer by
peer: the list is at most `DOWNLOADS` long, those who want our blocks come first in it, and
when one who wants them is left out the list is full and all in it want them. The point is a
peer that takes a place and shifts another out of the end: that one
is the last, so if it wanted our blocks all before it did (`PrioritizeSound`).

*The table of sockets.* `MapInv`: until `died`, the map leads from each entry's socket
to its position, no entry is `TMPLOC`'s, the sockets polled are the server's and the
connections', and each entry waits for what its connection needs. The last part is
needed for the first: that the assertion on `"IN"` holds when an entry is looked at
depends on the events it waited for when `poll()` was called. A removal shifts the
entries behind it (`Removed`), so the theorem covers the loop's habit of passing over the
one that moves into the place.

*The ring of requests.* `RingInv`: head and tail are slots, and what lies from one to the
other are requests. `Queued` is read along the ring, so a call is followed through the wrap:
the places of different indices differ (`PlacesDiffer`) and a place is found `k` further on
by adding `k` modulo the size (`FurtherOn`). In the removal each entry looks as far ahead
as there are matches up to it, which never leads past the last entry, since there are at
most as many in all (`FoundBounded`).

*The answers to queries.* `QueryInv`: a contact of the bucket, a backup included, that
has been seen has answered. Each case of `update_contact()` and `failed_contact()` keeps
this (`UpdateHeard`, `FailedHeard`): a query enters its sender as never seen or leaves the
entry as it is, and a backup that takes a node's place was heard of when it was put there.

*The pings.* `PingInv` bounds pingd's count from both sides. From below by the pings out
less the strays, which is `Undercounts`; from above by the pings out, leaving out the
addresses that are queued to be pinged once more: the send inserts into a map, and one that is in it already
makes the count grow and the map not. The upper bound is what `SleepsOnPings` needs (asleep for
answers there is a ping out), and it does not hold while the late ones are reported
(`Expiring`): the map loses them one by one and the count is set to 0 at the end. That the
batch fits the window (`BatchFits`) is the argument that the last of its members has all the others
before it. `AnswererKept` follows from `FailedKeeps`, since a node heard of within
`DoubtAge` keeps its slot when it fails, and `MetKeeps`: who is met in his slot stays in it.

*The start.* `PlacedInv`: the session's contacts are placed by the id the table has then,
which is not set again; only the routers, placed before it, can stand elsewhere. `CheckInv`: the
buckets below checkerd's index have been answered, but for the one it asks for; the index
never leaves the table, which only grows, so the test `index >= size` ends a refresh only before
its first lookup, with a size of 0.

*The stream.* `ClientInv` reads the buffer and the socket as one sequence (`Frames`): the
units of whole messages, the last of which may be half sent. A read moves the border, a
handled message is taken off the front (`FramesLater`), an arrival goes to the end
(`FramesMore`). `recv_peermsg()` is one action with up to three reads and a write in it, so
what holds in between has names: `MidTurn`, and of the error kept in the stream `Reading`
(before a read), `Idled` (after one that found nothing), `Doomed` (the connection will be
closed); `Ending` is what each return value promises. That a connection ends only for what the
remote does, or after `MaxAgain` turns out of `x_set` in a row with nothing to read
(`KeptWhileSound`), needs a bound on the count of empty reads: one more than such turns (`Lasts`).
poll() gives a turn only for bytes or the end, and the first read of it resets the count; so
does a message: with a count above 0 none is whole in the buffer (`Scant`).

*The bits.* A bit is a byte and a place in it, by division and remainder (`BitPlace`, `BitAt`),
and the mask of the last byte leaves exactly the places below `nbits` (`LastByte`, `InByte`). So
a set that is empty or full byte by byte is so bit by bit (`EmptyIs`, `FullIs`). `BitsInv` relates
each set of bytes to the set it stands for, and each operation is followed bit by bit; the
bytes that `bs_setRange()` fills whole lie in the range (`SetRangeIs`).

*The trackers.* An answer is taken host by host and a turn goes through the torrents one by
one, so the invariant is about the state in between: `Good(C, s)` says of `C = [dls, nstatus,
told]` that every entry in use is the server's, a peer's or a stranger's, that the peers a
tracker named by their ids are there once (`PeersOk`), and that a completion was told exactly
if it was made in this life (`Reported`). What was `Tried` stays so (`StillTried`): a peer is not
taken away before the answers are done, and a full table stays full. `PeerCount` adds up
the peers of all torrents; `CountStep` says what one more or one less does to it. That an age
stays below the interval holds from the first answer on since no timer runs before
the trackers were told (`serving`).

*The builder.* `Built(src, k, ...)` holds while the files are read: the pieces and the buffer,
one after the other, are the first k files and what is read of the next; every piece is
full, and the buffer is not. `FlattenSeq` and `PathList` are recursive functions of a sequence,
and what they are of one element more is shown by well-founded induction over the length
(`Flattened`, `PathIs`). An end of file is seen only when less was read than there was
room for, so a file that ends with a piece costs one more turn, which reads nothing (`ReadBuilt`).
With a piece length of 0 there is no room and no turn ever ends a file: nothing is asserted
of such a torrent, as it is never made.

*The files.* `Laid(d, addr, len)` says that the files hold len bytes from addr on in their
places, and that every file the code takes to have a part of them is there, also one that
only ends where they begin. Reading is right exactly of what is laid (`ReadIsLaid`), since a
byte is in one file (`InOne`, `InSome`) and read from there only (`WhenceIs`); so is every
block of it (`LaidWithin`). Writing a piece up to the last file lays it (`WrittenLaid`) and, up to
any file, leaves the others laid (`OthersLaid`): a byte is in one piece (`PieceOf`), and an
`lseek()` beyond the end leaves a hole but takes nothing away (`OverwriteIs`). `FilesInv` says
that while btget runs the complete pieces are laid and the bytes left are those of the
others (`LeftOf`, a recursive function of the pieces). `Found` is the loop of `ctx_loadfile()`
after n pieces: with ENOENT seen once it skips pieces for good, so `RightKept` speaks of
starts that end without it.

All invariants were checked by TLC before they were proved. Only model-checked is
everything of the modules not named in the table (`Kdist`, `Benc`, `Btcodec`). Out of the prover's reach and left
to TLC: liveness; what recursive definitions compute (the dictionaries of `Benc`,
`Btcodec`'s reader); `Kdist`, which works on `Bitwise`, a module no proof may use.

## 5. Not modelled

- Formatting, logging, `dump()`, statistics; `startup.cc`, `butils.cc`; `btlist`,
  `btcheck`; the random source and SHA-1 (a hash is the thing hashed); `block.c`,
  which nothing refers to; vendored headers; the clients in `test/`.
- `refreshd`: its creation is compiled out (`btkad.cc:151-158`).
- `bconnect()` and `BSF_CONN`: no caller. Exhaustion of descriptors, in kadmin and in
  `accept()` of btget, whose failure the loop does not notice (`sockpeer[-1]`).
- `b_last_seen` of buckets and table, `b_birthday`, ports.
- Functions that fall off their end without a value (`bthread::timeout()`,
  `bootupd::bdocall()`, `knode::touch()`, `ktable::setkadid()`): no caller uses
  what they return, except `contacted&&touch()`, where it makes no difference.
- Texts with more than a few digits, signs, keys that are no strings (`Btcodec`), NUL in
  keys (`Benc`).
- `ctx_shutdown()`, `ctx_exit()`, `ctx_closedownload()`: no caller in btget, so a
  tracker is never told "stopped"; `getaddrinfo()` failing; time spent inside a
  request, during which btget stands still.
- `-s` of btget and the allocation of slots in files; the builder's other options, an
  output file among its sources.

What the models keep and a reader may take for mistakes of theirs: pingd never
starts with eight boot contacts or fewer; checkerd's test `index >= size` comes true only at
its first turn, with eight contacts or fewer, and it then sleeps though nodes are known
until bootupd sees five buckets; bootupd ends for good when its turn finds no contact; a node never seen that failed
twice is bad and good at once; `incomplete` and `interestedpeers` are not taken back
when a connection ends; a peer in its handshake is not told of pieces finished
meanwhile (`missed`); the queue's refusal of a request is ignored; `local.snubbed`
is never reset; `bs_firstClr()` of a full set is 0, so a piece that failed its hash is
asked for from its first block, one block twice; `btDict_add()` of a key that is there drops the
dictionary; a tracker that did not answer the first time is never told "started", and
"completed" is told once, heard or not; a piece length of 0 makes the builder run for
ever, and `-n` without a file ends it.

## 6. Plan

What is left, in this order:

1. An abstract lookup that `Kfind` and `Kgetpeers` both implement, and `Kfind` composed with
   `Knet` and `Bthread` in one instance, where now each rests on the other's property.
2. `-s` and slots in `Fileset`; the choice of ids for `accept()` failures in `StatusMap`.
