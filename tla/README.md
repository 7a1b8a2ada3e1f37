# Verification of the network labs

TLA+ models of the programs in this repository: a course's network labs, from a
hub to a user-space TCP stack, each a C program that runs on the hosts, switches
and routers of a Mininet topology. The modules are written from the code under
`src/`. TLC checks them on small instances; the theorems are checked by TLAPS for
every value of the constants.

Contents: 1 inventory, 2 modules, 3 runs, 4 proofs, 5 known defects, 6 what is not
modelled, 7 what could follow.

## 1. Inventory

| Component | Code | State | Operations | What is hard | What makes it correct |
|---|---|---|---|---|---|
| Receive ring buffer | `lab-17/prj-17/include/ring_buffer.h` | array, `head`, `tail` | read, write, used, free | wrap, empty against full | a bounded queue of bytes |
| Wait and wake-up | `include/synch_wait.h` | `sleep`, `notified`, `dead` | `sleep_on`, `wake_up`, `wait_exit` | wake-up before the sleep | no sleeper with nothing left to wake it |
| TCP data transfer | `tcp_sock.c` (read, write), `tcp_in.c`, `tcp_timer.c`, `tcp_out.c` | send buffer and its count, congestion state, out-of-order list, ring buffer | write, read, segment and ACK handlers, timer scan | four threads, three locks and state under none; loss | what is read is what was written, in order; all is acknowledged or given up |
| TCP connections | `tcp_sock.c`, `tcp_in.c`, `tcp_timer.c`, `tcp_timer.h`, `list.h` | sockets and reference counts, hash bucket, timer list, accept queue | connect, accept, close, each state of `tcp_process`, time-wait | repeated and lost packets, killed clients, doubly deleted list entries | a live socket is found, walks end, a complete handshake is one, closing ends |
| Spanning tree | `lab-06-stp/prj-06/stp.c` | a configuration per port, root, cost, hello timer | handle a configuration, hello timeout | any order of hellos and configurations | one root, a tree that connects all |
| Forwarding table, hub | `lab-05-sw`, `lab-06-stp`: `mac.c`, `main.c`; `lab-04` | MAC to port, age | insert, lookup, flood, sweep | sweep between the two lookups of a frame, wires in a ring | frames reach their host, once |
| Address translation | `lab-12-nat/prj-12/nat.c` | mappings, pool of ports, rules | translate out and in, sweep | ports run out, sweep against packets, fields never assigned | flows translate back, no port lost or shared |
| ARP cache | `lab-12-nat/prj-12/arpcache.c` (copies in 11, 13–17) | entries, requests with waiting packets | lookup, append, insert, sweep | lookup and append are two critical sections; the sweep races answers | each packet sent or refused, once |
| IP and ICMP | `lab-11-mospf/prj-11`: `ip.c`, `ip_base.c`, `icmp.c`, `rtable.c` | routes | forward, answer, refuse | refusals are packets themselves and may be refused | no packet is lost or waits for ever |
| Link-state routing | `lab-11-mospf/prj-11` | neighbours, database, sequence number | hello, LSU, flooding, expiry, shortest paths | five threads, two critical sections per LSU, overtaking, crash, restart, cut networks | databases agree, floods end, routes lead to the network |
| Prefix lookup | `lab-10-lookup/prj-10` | two tries | insert, find | splitting of nodes, order of insertion | the answer of a linear search |
| HTTP, devices, queue experiments, scripts | labs 01–03, 07 | little or none | — | — | — |

How they interact. The receiving loop of `main.c` reads a packet and calls the
protocol's handler (`handle_packet`, `handle_ip_packet`, `handle_tcp_packet`); so
each handler runs in the receiving thread. Beside it run the timer threads
(`tcp_timer_thread`, `arpcache_sweep`, `nat_timeout`, the mOSPF threads, the hello
timer, the sweep of the forwarding table) and the application threads, which share the
state above under mutexes. Two nodes share nothing but packets.

Every hazard of this code that a test would hardly reach is listed at its line in
`PROJECT.json`, with the properties that cover it, or the reason why none does.

## 2. Modules

| Module | Models | Uses |
|---|---|---|
| `ByteFifo` | the abstract bounded queue of bytes | |
| `RingBuffer` | `ring_buffer.h` | implements `ByteFifo` |
| `SynchWait` | `synch_wait.h`, as operators on the structure | |
| `TcpLink` | the lossy links of `tcp_topo_loss.py` | |
| `TcpSend` | the sending half of an established socket | `TcpLink`, `SynchWait`, `Lists` |
| `TcpRecv` | the receiving half | `TcpLink`, `SynchWait` |
| `ReliableStream` | the abstract stream between two applications | |
| `TcpStream` | the halves composed over the link | implements `ReliableStream` |
| `DList` | `list.h`: the pointers of the doubly linked lists | |
| `TcpConn` | opening and closing connections | `DList`, `SynchWait` |
| `Stp` | all switches running `stp.c`, and their wires | |
| `Lan` | switches with their tables, hubs, hosts, wires | the roles that `Stp` leaves, as a constant |
| `Lists` | a list filtered or walked: its entries at given places, in their order | |
| `NatTable` | `nat.c` | `Lists` |
| `ArpCache` | `arpcache.c`, `arp.c` | `Lists` |
| `RouteTable` | `rtable.c`, the lookup of `ip_base.c` | |
| `PacketFate` | the abstract promise of a router about a packet | |
| `Router` | `ip.c`, `ip_base.c`, `icmp.c` over cache and routes | `ArpCache`, `RouteTable`; implements `PacketFate` |
| `Spf` | the graph, Dijkstra's algorithm and the routes of `mospf_database.c` | |
| `Mospf` | all routers running `mospf_daemon.c`, their networks and faults | `Spf` |
| `Tries` | both trees of lab-10 | |
| `MC*` | values of the constants for TLC | |
| `TcpStream_proofs`, `TcpConn_proofs`, `Stp_proofs`, `Lan_proofs`, `NatTable_proofs`, `Router_proofs`, `Mospf_proofs` | theorems (section 4) | the module in the name; `TcpStream_proofs` also `RingBuffer` |
| `Lists_proofs` | the lemmas about lists and sets of numbers that these share | `Lists` |

A comment `\* Mutant:` marks a variant of the definition that follows it, with a
plausible bug. `PROJECT.json` names, for each property, the variant it rejects.

### RingBuffer

Variables `buf`, `head`, `tail` are the struct's fields; `got` is what the last read
returned, `aborted` the end of the process in the `assert` of `write_ring_buffer`.
Each call is one step: the caller holds `rbuf_lock`. `Cap` is the size less the byte
that always stays free.

### TcpSend, TcpRecv, TcpStream

One direction of an established connection. A sequence number counts segments: a
`tcp_sock_write` of the file transfer is one segment. A step is one critical section, or
one statement outside of any with what only its own thread uses; a look at shared state
without a lock is in a step of its own:

* the writer (`wpc`): number a segment (`snd_nxt +=`, `tcp_out.c:59`); insert it into the
  list; count it and send it; look at the count; `sleep_on`. What the three steps of a
  segment leave apart is seen by the other threads (`numbered`, `pushed`).
* the receiving thread of the sender (`rpc`): classify an ACK; each store of fast recovery;
  each turn of the two loops over the list, of which a deletion under `send_lock`
  (`DeleteAcked`) and the count under `count_lock` (`UncountAcked`) are separate; the
  recovery states; the window. `rend` says that the list's head is what the loop goes to
  next: following it for a buffer ends the process (`sstate`).
* the timer thread: one scan of the list under `send_lock`, in one step. What the receiving
  thread does in the midst of it without that lock amounts to doing it before or after,
  except where a choice of `TimerScan` (`CwndFound`, `CwndAfterTimeout`, `ReopenLost`) says
  what else may come of it. Giving up closes the socket, sends RST and ends the writer's wait.
* the receiving thread of the receiver (`gpc`): old, next or early segment, the
  drain of the out-of-order list; then the test of `wait_recv->sleep` and the ACK.
* the reader (`dpc`): look, drop the lock, `sleep_on`, read.

`WriterSpurious` and `ReaderSpurious` are spurious wake-ups: there is no loop around
`pthread_cond_wait`, so `sleep_on` returns then.

The out-of-order list keeps what the code does with `head_ext`, a copy of the list
head on the stack: a segment put before the first one is not reachable (`stray`), and
freeing the old first one leaves the head dangling (`dangling`). `rstate` is how a
process ended: in the assertion of the ring buffer, or in following that pointer.
The receiving promises hold while both processes and the connection are `Intact`.

### DList, TcpConn

One server and client processes one after another. All clients get the same port
and, `rand()` being unseeded, the same initial number, so all connections share one
bucket. Lists are modelled pointer by pointer, because `list_delete_entry` does not
reset an entry's own pointers and several functions take that for "is in a list".
`sock` holds each socket's state, numbers, send buffer and reference count.
A socket freed a second time aborts the process (the ring buffer is freed twice);
the model stops there (`Up`).

Packets carry their kind, sequence and acknowledgement. `RecvListen`,
`RecvSynRecv`, … are the states of `tcp_process`, with what it does before and after
the switch; of the acknowledgements only what they free, as `TcpSend` is about what they
make the sender send again. A child is put into the accept queue in three steps: enqueued,
accept woken (`QueueWakes`), set ESTABLISHED (`QueueEstablishes`). `Resend`, `GiveUp`,
`TimewaitExpires` are the timer scan; giving up a client is two steps, as `wait_exit` comes
before CLOSED (`GivenUp`). `ConnectSleeps` and `ConnectResumes` are the halves of `sleep_on`,
likewise for accept, which looks, takes from the queue and returns in three steps. `Close`
and `CloseGoesOn` are the test and the set of the state.

Several lists are used under no lock at all: the buckets, the accept queue, and the timer
list when `tcp_set_timewait_timer` inserts. A call on a list (with the reference it counts, and
with the CLOSED or ESTABLISHED that goes with hashing) is one step here. Where another
thread may be in the midst of a call on the same list or of such an end of a socket,
`ListsOverlap` may happen instead: it sets `torn`, and the model stops. So the properties say
what holds until two such calls overlap, and nothing of what they then make of the
memory (section 5). Of the other tests and stores of the receiving thread, between the
look at a socket's state and the reply, a handler is one step.
Spurious wake-ups are left out: one in `connect` would be taken for an answer
(section 5).

### Stp, Lan

`designated[p]` is what port `p` keeps, `designated_root`, `root_path_cost`, `root_port`
a switch's own. `Answer` and `Update` are the two branches of
`stp_handle_config_packet`; `Hello` is the timer. The lock of a switch makes each a
step. Wires keep order; the topology is a constant.

In `Lan` a switch handles a frame in two steps, `Learn` and `Forward`, as the code
takes the lock of the table twice; `sweep_aged_mac_port_entry` runs before, between
and after. `Blocked` are the ports that the spanning tree leaves without a role
(`stp_port_not_alt`); the tree is not rebuilt while frames are on their way. Addresses
are compared as the code compares them, as strings: up to the first zero byte, and
past the address when it has none. `echoed` records that a switch has sent a frame
back by the port it came by. From then on copies and wrong entries are possible
(section 5); the properties say what holds before.

### NatTable

Mappings are kept by remote endpoint, in the order of the code's list (the hash
only decides which list). `PacketOut` and `PacketIn` are `do_translation`; `Sweep` is
one round of `nat_timeout`, `Tick` a second. Fields that `malloc` leaves undefined take
any value: `external_fin` of a flow opened from inside, `internal_fin` of one from
outside, and `external_ack`, which decides `is_flow_finished`. So a flow with both FIN
flags set may be taken for finished or not. The hosts are constrained in one way:
an endpoint that a rule leads to is a server, and opens no connection from its
listening port. Rules lie outside the pool and have an internal endpoint each, as in the
repository's configurations. It follows that a server outside does not send the SYN|ACK of a
flow whose mapping has been swept since: the code would take it for a new flow
(`nat.c:122`). `finished` is a set of mappings: two that are equal but for their remote
endpoints are told to be finished together.

### ArpCache, RouteTable, Router

Each function of `arpcache.c` is one critical section. `iface_send_packet_by_arp` is
two: a lookup, then an append; in between the thread has the packet in its `hand`, and
an answer or a sweep may come. The sweep collects the packets it gives up under the
lock (`pkt_list`) and refuses them one by one after it (`Refuse`); a refusal is a
packet of the same kind and goes through routes and cache again. `Router` composes
the two threads with the route table. `hdr` is what a packet has become: data, an echo
reply, an ICMP error. `FateOf` computes from the places where a packet is kept what
`PacketFate` promises about it. Requests are kept by address alone, where `arpcache.c:53`
compares the interface as well: an address is asked for on the interface its route names,
and the routes do not change.

The model follows the cache of lab-12 and the forwarding of lab-11; the same files
serve labs 13 to 17.

### Spf, Mospf

A router handles an LSU in two critical sections: `handle_mospf_lsu` stores it,
`PassOn` floods it. Between them and while floods are under way the other threads run:
`handle_mospf_hello` belongs to the main thread, `checking_nbr_thread`,
`sending_mospf_lsu_thread` and `checking_database_thread` are the others. `db[r]` is the list in the order of the
code. `Crash` and `mospf_init`, `CutNet` and `MendNet` are what the environment does.
LSUs may overtake one another, as a packet waits for its ARP answer while a later one
goes out; they are lost at a router that is down and on a network that is cut.
`life`, `sent` and `fresh` belong to the model: from which life of its router an entry
is, and which routers have told everything since the last change. The TTL (`mospf_daemon.c:407`)
is left out: it starts at 255, no more routers than that are allowed (`MospfAssumption`), and
a router passes another's latest LSU on once.

Time is reduced to what the intervals of the code allow: a neighbour is missed only if
it is down or cut off, since hellos come three times within the limit; an entry expires
only if it is not its router's latest. `Spf` takes the path of the code, array by array
where it matters: the vertices in the order of the database, ties to the lower
index, the first advertisement of a network.

### Tries

`trie` maps a path of bits to its node; `reduced` is the second tree itself. `Insert`
reads a route of the file into both. `IgnoredBits`, `CmpBitOf` and `HalfWord` keep
three oddities of `reducedTrie.c`: it shifts the length of a word instead of a mask, reads
a field that a leaf does not have, and looks for the least address from
half a word.

## 3. Runs

Times are of two workers.

| Run | Distinct states | Time | What it shows |
|---|---|---|---|
| `ring` | 2 700 | 2 s | types; the ring implements `ByteFifo` at every offset |
| `tcp_window` | 6 500 000 | 128 s | fast recovery, timeouts, out-of-order segments, between all steps of the writer, the receiving and the timer thread; the halves implement `ReliableStream` |
| `tcp_threads` | 210 000 | 81 s | all four threads: the writer writes on, everything is acknowledged, unless the sender gives up |
| `tcp_conn` | 370 000 | 150 s | a whole connection, lossy, with the client killed anywhere |
| `stp` | 7 700 | 15 s | a ring of three switches: election and tree |
| `switch` | 56 000 | 50 s | two switches on two wires, a hub, three hosts, two frames |
| `nat` | 270 000 | 45 s | three hosts inside, two outside, two ports, one rule |
| `router` | 96 000 | 73 s | two packets out of seven kinds, cache of two entries; `PacketFate` |
| `mospf` | 1 190 000 | 128 s | three routers in a ring, one crash or one cut, periodic LSUs and expiries in the midst of floods |
| `lookup` | 102 000 | 13 s | every table of routes over addresses of four bits |
| `tcp_reader`, `mospf_loop` | | 65 s, 84 s | disagreements between the code and what the repository says of it |

The properties, by run:

* `ring`: `RingTypeOK`, `FifoSpec` (refinement).
* `tcp_window`: `UnackedKept` (nothing is freed that may have to be sent again),
  `CountMatches` (the counter the writer waits on, but for what a thread has inserted or
  deleted and not yet counted), `OfoSorted`, `PartialAckHasBuffer` (the list is not empty where
  the code takes its first entry unasked, but for a writer between numbering a segment and
  inserting it: then it may be, and the process ends, section 5),
  `StreamSpec` (refinement).
* `tcp_threads`: `AckedOrGivenUp`, `WriterProceeds` (a writer that found the buffer full writes
  on, or the sender has given up; what it does then is in section 5).
* `tcp_conn`: `Findable` and `WalksEnd` (as long as lists are not `torn`), `AcceptWakes` (no
  connection is queued between accept's look and its sleep and left there),
  `HandshakeComplete`, `ReceivedOnce`, `FinReceived` (of the FIN, not of the data before it),
  `ConnectWakes`, `ClosingEnds`.
* `stp`: `TypeOK` (no path costs more than there are switches), `HelloIffRoot` (a timer stopped is never started again, so it must not be
  stopped too soon), `SpanningTree`.
* `switch`: `Towards` (an entry leads to its host), `OnceEach` (no copy although the wires
  form a ring), `Delivered` (a frame arrives even if its entry is swept between the two
  steps, or can never be found).
* `nat`: `RoundTrip`, `PoolExact`, `PortsReturn`.
* `router`: `OnePerAddress` (a second request would strand the packets of the first),
  `FateSpec` (refinement: no packet is lost, sent twice, or freed while it waits),
  `Answered` (none waits for ever).
* `mospf`: `Agreement` (when no LSU is on its way, all that must have a router's
  latest have it), `OneEntryEach`, `HostsReached` (once the databases agree, the routes of
  all routers together lead to the hosts), `FloodEnds`.
* `lookup`: `LongestInTrie`, `LongestInReduced`.

### Bounds, and why they are enough

* `ring`: an array of four bytes (capacity 3), chunks and reads of up to four, two byte
  values: every offset of head and tail, each with copies that do and do not wrap, and
  writes that do not fit.
* `tcp_window`: four segments with three unacknowledged at once allow two repeated
  ACKs (`DupLimit` 2 as in the code, the third enters recovery), a partial ACK and an ACK
  past the recovery point. The code's limit of buffers is 5 and its timeouts are 2, 16 and
  32 scans; here 3, and one scan for each of two transmissions. The application does not
  read here (`SpecUnread`, whose steps are steps of `Spec`): the theorems cover the reader.
* `tcp_threads`: one buffer blocks the writer at once; two segments are enough for it
  to block, be released and go on.
* `tcp_conn`: one client and one child socket, two transmissions of each buffer; two
  packets in flight to the server (an ACK and data, or data and a FIN), one to the
  client.
* `stp`: three switches in a ring are the least with a port to block. A ring of four
  (that of `four_node_ring.py`) satisfies the safety properties as well, but its liveness
  takes too long for a regular run.
* `switch`: a ring of two wires, a host behind a hub, two hosts with the same hash, one
  with an address that has no zero byte; two frames, so that the second meets what the
  first has taught, at any age. Ages count to one past `Timeout`.
* `nat`: two ports for three or more flows: the pool runs out. Idle time counts to one
  past the limit.
* `router`: a near and a far next hop, no route, no route back, TTL over, both addresses of
  the router; two entries of the cache, of which hosts that come unasked
  take any; two requests per address where the code makes five; entries of one second
  where the code keeps them fifteen.
* `mospf`: starts with all routers informed (`SettledWith`), so that the fault and its repair
  fill the run. `MaxSeq` bounds the periodic LSUs: two routers send one each, at any time, and the
  crashed one may send two after it has come back. `MaxMsgs = 0` holds a new LSU back while copies
  are on the links, not while one waits inside a router to be passed on, so a send meets the
  flood of another router there, and both then run side by side; what a hello
  or a missed neighbour makes a router send is held back in the same way, expiry is not. The theorems are for every
  `MaxMsgs` and `MaxSeq`.
* `mospf_loop`: the square of `topo.py`, the second router down and its entries expired; it
  starts again, and the third sends its periodic LSU once.
* `lookup`: addresses of four bits, routes of one to three, up to 14 of them, which is
  all there are: every table in the order of the file, and every address of it.
* In all models with links: packets beyond the capacity are dropped, which is a loss.
  In `Stp`, equal configurations that follow each other on a wire are kept once.

`CHECK_DEADLOCK FALSE` is set where a system may come to rest: all segments or frames
sent and acknowledged, a process ended, all routes read.

### Fairness

* `TcpStream`: weak fairness of each thread: the timer thread and the receiving loop run
  for ever, and an application runs when it is not blocked. None of spurious wake-ups. None of the link: a link may lose
  everything, which is why properties end in "or the connection is given up".
* `TcpConn`: weak fairness of the processes as a whole; which thread runs does not matter,
  as none can go on for ever alone. None of the links, nor of whoever starts and kills clients.
* `Stp`: each wire delivers, each running timer expires.
* `Lan`: the main loop of each switch and hub goes on with what has come. None of the
  sweep nor of the hosts.
* `NatTable`: time passes, the sweeping thread runs. None of the hosts.
* `Router`: the second passes, the sweeping thread runs, and the main thread finishes the
  packet in its hand. None of the hosts, which may never answer.
* `Mospf`: the main threads take what has come and pass it on. None of hellos, periodic
  LSUs, expiry nor of faults.

### What the violations say

* `tcp_reader`: a reader between its last look at the buffer and `sleep_on` is not
  woken, as `tcp_in.c:99` sees it not yet asleep.
* `mospf_loop`: after the second router of the square has been away, databases agree and
  two routers send packets for the network between routers 3 and 4 to one another.
  `update_rtable_by_db` (`mospf_database.c:233-244`) goes towards the first advertisement of
  a network in the order of its own database, and towards the neighbour named in it.

## 4. Proofs

Each theorem holds for every value of the constants that the named assumptions allow;
these ask for no more than that sets and numbers are what they are called, but where
it is said.

**Lists_proofs**, lemmas only: the least and greatest of a set of numbers, the course of a
walk (`CountUp`, `CourseExists`), sets of numbers put in order (`CanAscend`), and what a list is
after entries have been picked, inserted, removed or joined. They replace induction over
lengths by the well-foundedness of `<`: of the lengths for which a fact fails, one is least.

**TcpStream_proofs** (`SendAssumption`, `RecvAssumption`, `LinkCapAssumption`), of both halves
with all their threads over the link. `StreamImplemented`: `Spec => StreamSpec`, the
promise of `ReliableStream`. `UnackedIsKept`, `OfoIsSorted`, `CountIsExact`: the invariants of
these names. `BufferIsContiguous`: the send buffer holds the segments from `snd_una` to
`snd_nxt`, each once and in order, but for the one that the writer has numbered and not yet
inserted. The inductive invariant `StreamInv` is `SendInv` and,
while the sender has not given up, `RecvInv`:

* `SendInv` holds whatever arrives from the receiver. It adds to the counter and the
  contiguous buffer `NotGivenUp`: while the socket is open, no buffer has been sent
  more than `MaxTimes` times; without it, the next timeout would be undefined. `LoopKnows` is what
  lets the receiving thread act without a lock on what it has seen of the list: others only
  append, so a buffer it is about to delete is still the first, and acknowledged.
* `InFlight`: only segments below `snd_nxt` are on their way, and only acknowledgements up to
  `rcv_nxt`. It needs that a RST is sent by the scan that gives up and by no other step:
  the receiver would take its number for the next to expect.
* `InOrder`: what was read and what is in the ring are 1, 2, …, `rcv_nxt` - 1.
* `Sorted`: the out-of-order list is strictly ascending, between `rcv_nxt` and `snd_nxt`.

The step that takes the next segment and drains the list (`RecvNext`) is the hardest:
the drained prefix is a run of consecutive numbers that starts where the stream ends.
Each step of the two hosts is then a step of the stream or none (`StreamStep`).

`TypesHold`: `TypeOK`, from `TypeInv`, which has to hold after a RST as well, when the
receiver's numbers are no longer tied to the sender's. `AcksInOrder`: the
acknowledgements on their way and the one at work ascend from `snd_una` (`AckInv`), which
takes that the link keeps order and that `rcv_nxt` never falls. `BufferToResend`:
`PartialAckHasBuffer` follows, since a recovery ends at a number that the writer has given out, and
so below it a segment is unacknowledged and, by `Contiguous`, in the list, unless it is the one
the writer has not yet inserted: the exception of the property is the one the code has. `UnreadIsSpec`:
the run `tcp_window`, which does not read, runs behaviours of `Spec`.

The same module holds the theorems of `RingBuffer` (`CapAssumption`, `ZeroAssumption`,
`ChunkAssumption`), the buffer that `rcv_buf` stands for. `RingTypeCorrect`: `RingTypeOK`, which
is inductive: `head` and `tail` are sums reduced modulo the size, and the copies write only at
indices of the array. `RingIsFifo`: `RingSpec => FifoSpec`. The mapping takes the bytes from
`head` to `tail`, modulo the size, for the queue. `RingReadStep` and `RingWriteStep` show that a
read takes a prefix of it and a write appends to it, or aborts where there is no room. No
strengthening is needed, because the mapping is a function of the typed state.

**TcpConn_proofs** (`ConnAssumption`: any finite numbers of clients and of sockets of the
server; sockets and heads of lists have addresses of their own). `WalksAreFinite`:
`WalksEnd`, for every bucket and timer list, as long as no two calls on a list overlap
(`torn`). `QueuesOnce`: no connection is queued, or handed to accept, twice, while the timer
thread and accept run between the three steps of queueing. `TypesHold`: `TypeOK`, in which a
socket is freed exactly when its last reference is released. The inductive invariant `ConnInv`
has to say what shape each list has, as a circle of pointers does not show it:

* `HashInv`: a bucket holds one socket or none, and one that was deleted still points to
  the head; so deleting it once more empties the bucket and does no other harm.
* `ClientInv`: the client's timer list is one of four (`ClientList`): empty, the
  retransmission timer, the TIME_WAIT timer, or the one before the other. The latter may have
  been put in twice (`tcp_sock.c:405` and `:406`, section 5); then it points to itself, and
  the walk still ends.
* `ServerInv`: the server's timers are `Linked`, the same entries forward and backward, or
  `Bent`: `accept` sets ESTABLISHED whatever the socket has become, and a second FIN then arms a
  timer that is armed. This happens only to the socket that accept returned (`Done`), and whatever
  is inserted into or deleted from a bent list, it leads forward to its head: a prev pointer
  that is wrong leads out of the list or to its own node (`AddAgainIs`, `AddBentIs`,
  `DeleteBentIs`). Timers not used so far are referred to by none (`Apart`).
* `QueueInv`: a socket enters the queue as it leaves SYN_RECV, while the receiving thread
  looks at no other packet, and does not return there.

Four more theorems have the hypothesis `OneClient`, that one client process is started; it may be
killed at any time, and the numbers of child sockets, of packets in flight and of
retransmissions are any. `SocketsFindable`: `Findable`. `HandshakesComplete`:
`HandshakeComplete`. `SegmentReceivedOnce`: `ReceivedOnce`. `FinsReceived`: `FinReceived`, which is
of the FIN: the data before it may be lost. With a second client on the same port they do not
hold (section 5). They follow from `OneInv`, inductive together with `ConnInv` (`OneConnection`),
which the parameters of `tcp_conn` and two children have been checked with before the proof. It
relates what the two sides know:

* `UpInOrder`: on the way to the server, what follows the segment of data has a sequence number
  past it, and what follows a FIN ends where the FIN ends, unless it is the segment of data sent
  again. So `rcv_nxt`, which `tcp_process` assigns without comparing, is not set back.
* `Down`, `UntilFin`: a FIN comes from the server, and its TIME_WAIT timer is in the list, only
  once a child has received the client's FIN (`Ended`). `StillOpen`: that is not the case of a child
  that is being put into the queue.
* `OneChild`: one child at most is in use. In a state that needs packets it heads the bucket, so a
  SYN or a FIN that is repeated meets it and allocates no second one.
* `ClientRuns`: where the application stands is related to the socket's state, to its
  retransmission buffers, to the packets on the way and to what the server has made of
  them. `Quits` is what the others need: once connect was woken, the SYN is not sent again, so
  that no SYN comes behind data or a FIN.

**Stp_proofs** (`StpAssumption`: finitely many switches, every port has a wire to another
switch, ids are numbers). `RootsSayHello`: `HelloIffRoot`. A switch that is told of a better root must not
take itself for the root again, since nothing starts its timer anew. `NoneOwn`: each port
keeps either a lower root or the switch's own first configuration. `CostOfRoot` and
`Sendable`: only the root sends a cost of 0, so that what a port receives is never taken
for the latter. `BestIs`, that the comparison of four numbers in turn has a least
element on any ports, rests on the well-foundedness of `<`.

`TypesHold`: `TypeOK`, whose bound on costs no port or wire shows by itself. `CostInv` ties
every configuration, kept or under way, to the switches: if it names root r at cost k,
then more than k switches have r for root at cost k at most, or a lower root (`Paid`). A switch that
takes the configuration adds one to its cost and is itself one switch more, as it
was worse than k before (`PathCost`). It stays true because no switch gets worse (`NoWorse`):
what it has from its root port is replaced only by something better. So a cost never
reaches the number of switches.

**Lan_proofs** (`LanAssumption`: wires join two ports, the kinds of nodes are apart, only
switches block ports, no two hosts are one to the table). `EntriesLead`: `Towards`, for every
topology, loops included. `LanInv` says in addition that the source of a frame lies behind the
port at which it waits or by which it came (`FromBehind`): a frame leaves a node by another port
than it came by, and what lies behind the first then lies behind the next (`BehindGrows`).
`Behind` is what every set of ports contains that is closed under going on. `ComesOnce`:
`LoopFree => OnceEach`. `LoopFree` says that of the ports of a node that are not blocked
one at most leads to a host, which is what the spanning tree is for; `MCLan` has TLC evaluate it for the
topology of the run. The invariant `Once` counts the copies of a frame that can still come to
their destination, those at a port with the destination behind it or in the hand of a switch:
there is one at most, and none after the frame has come (`Single`). The hard step is the flood
(`EmitSingle`): of the ports a copy goes out by, the destination lies behind one only.

**NatTable_proofs** (`NatAssumption`: ports are numbers, rules lie outside the pool and
have a server each). `RoundTripHolds`: `RoundTrip`. `PoolIsExact`: `PoolExact`. `TypesHold`:
`TypeOK`. `NatInv` adds why a new mapping matches no old one: a mapping of a rule's port
leads where the rule says, and one of the pool to no server (`Ruled`); of one remote
endpoint, neither the inner nor the outer side of two mappings agree (`Distinct`); a port of
the pool is in use towards one remote endpoint only (`OneFlow`), and exactly the ports in use
are marked (`Marked`). The sweep (`SweepStep`) deletes from many lists in one step.

**Router_proofs** (`CacheAssumption`, `WidthAssumption`, `RouterAssumption`: routes, hosts and
arrivals are made of the addresses and interfaces given; `"nothing"`, which stands for an empty
hand, is no packet). `FateImplemented`: `Spec => FateSpec`, the promise of `PacketFate`.
`OneEach`: `OnePerAddress`. `TypesHold`: `TypeOK`. `LongestPrefixFound`: the loop of
`longest_prefix_match` returns the first of the longest matching routes, and nothing
exactly if none matches, for every table and address. In `RouterInv`, the packets in hands,
in requests and in the list of the given up are disjoint and without repetition
(`Apart`), and a packet is in one of these places exactly while it is neither sent nor freed
(`Status`). `HandledStep` says what becomes of a packet that is handled; an answer
(`AnswerStep`) and a sweep (`SweepStep`) move many packets in one step.

**Mospf_proofs** (`MospfAssumption`: at most two routers on a network, as the array of an
entry overflows otherwise; 255 routers at most, the TTL of an LSU; any bounds on LSUs and faults). `TypeCorrect`: `TypeOK`.
`EntriesUnique`: `OneEntryEach`. `Agrees`: `Agreement`. `FromAnyState`: the three from any state
in which `MospfInv` and `FloodInv` hold, such as the one the run starts from. `MospfInv` adds `OnceDown` (a router that is down
has not restarted yet) and the types of all that LSUs are made of. `RemoveAtIs` and
`StoredIs` are about the lists. `FloodInv` is what makes the databases agree when no LSU is on its
way any more: no LSU and no entry of a router's present life has a number above its own
(`LatestIs`), nor other contents than its router sent under that number (`AllGenuine`);
neighbours are on a network together (`OnNets`); and of each router that has sent since the last
change (`fresh`): whoever has its latest LSU, each neighbour of his has it too, or the LSU is on its
way there or about to be passed on (`Flooding`). So an LSU that is dropped as old, or stored
and passed on in two critical sections with other threads between, leaves no neighbour without it,
also when a router sends anew, or an entry expires, in the midst of floods of others.

What stays with TLC:

* liveness, and what depends on ENABLED: beyond this prover;
* `LongestInTrie` and `LongestInReduced` of `Tries`, a module of RECURSIVE operators, which the
  prover's arithmetic does not reach, and `HostsReached` of `Mospf`, which rests on what
  Dijkstra's loop computes: both are inductions over data;

One limit of what is proved: `Findable`, `HandshakeComplete`, `ReceivedOnce` and `FinReceived` of
`TcpConn` are theorems for one client, since for clients that come one after another they do not
hold: what a client left under way, and a socket that is unhashed once more, meet the next
(section 5). The run has one client too.

## 5. Known defects

Met while modelling, beside the two violations above. Each is modelled as the code is, or
excluded by a named assumption; none is the subject of a regular run.

TCP (`lab-17/prj-17`):

* A segment that belongs before the first out-of-order one is linked behind a copy of
  the list head on the stack, where nothing finds it (`tcp_sock.c:499`); when the old first
  one is freed, the head is left pointing to it.
* A writer on a full buffer does not come back when the sender gives up: `wait_exit` makes
  `sleep_on` return at once, the count never falls any more, and the loop of
  `tcp_sock.c:439-443` turns for ever (the model as well).
* A writer stopped between `snd_nxt +=` (`tcp_out.c:59`) and the insertion (`tcp_sock.c:462`): three
  repeated ACKs set the recovery point past what is in the list (`tcp_in.c:127`), the next ACK
  frees all of it, and `tcp_in.c:166-170` takes the head of the list for a buffer. The same
  may happen on entering recovery (`:128-131`), where the first buffer is looked up and the list
  tested in two steps. `sstate` is "segfault" then.
* Nothing limits the sender to the room of the receiver's ring buffer: a slow reader runs the
  receiving thread into the assertion of `write_ring_buffer` (`rstate` is "abort").
* Under no lock: the insertion of a TIME_WAIT timer (`tcp_timer.c:90`) while the timer
  thread walks and deletes, the buckets (`tcp_sock.c:281, 290`), the accept queue and
  `accept_backlog` (`:366-376, 386`), the reference counts. `list_add_tail` sets the pointer to a new
  node before the node's own, so a walk may meet a null pointer; updates may be lost. And CLOSED
  and unhash of one thread (`tcp_in.c:287-289`, `tcp_timer.c:27-30`) between ESTABLISHED and hash
  of accept (`tcp_sock.c:392-393`), or round them, leave an open socket in no table. `TcpConn`
  stops where two such calls may overlap (`torn`).
* `tcp_sock_close` tests the state and sets it in two steps (`tcp_sock.c:405-406`), and
  `connect` sets ESTABLISHED whatever has come between (`:336`): a socket may become open again,
  arm its TIME_WAIT timer a second time and, with a later client, release a reference too many.
  A spurious wake-up in `connect` (`synch_wait.h:43`, no loop) makes it return without an answer.
* A packet without data moves `rcv_nxt` past lost data (`tcp_in.c:116`): with a FIN behind
  a lost segment the server closes without having received it.
* A socket unhashed twice (`tcp_in.c:289`, `tcp_timer.c:30`) takes the next connection's
  socket out of the bucket.
* `connect` returns success after it gave up on the SYN (`tcp_sock.c:336`); `accept` sets
  ESTABLISHED whatever the socket has become (`tcp_sock.c:392`); data that overtakes the lost
  last ACK makes a connection that accept never returns (`tcp_in.c:242`); the server's close
  waits for CLOSE_WAIT, which nothing sets (`tcp_sock.c:403`); the backlog is never compared.

Switches:

* A port that is not designated never becomes so (`lab-06/stp.c:190`): in a line of three
  switches with the highest in the middle a port stays blocked for ever, against
  `lab-06-stp/readme.md:320`. An equal configuration is answered on the root port, and the
  answer is answered, for ever (`stp.c:158`).
* Any frame whose destination begins with the byte 1 is taken for a configuration
  (`lab-06/main.c:20` compares one byte, the size of the first element), and one that is handed
  on is not freed (`main.c:26`).
* Addresses are compared and copied as strings (`lab-05/mac.c:50, 73, 81`); an entry that is
  renewed keeps its port (`mac.c:75`), so a host that moves is not found until its entry ages.
* A frame for a known host is sent back by the port it came by (`lab-05/main.c:25-30`), when
  the tables of two switches have aged apart: a second copy, and a wrong entry.

Routers and NAT:

* The test of the free slot is inverted (`lab-12/arpcache.c:100`): a slot in use may be
  replaced while another is free, and with all slots in use the entry before the array
  is written (`outside` in `ArpCache`).
* An ICMP error that cannot be delivered either is refused in turn, to the router's own
  address, again and again (`arpcache.c:187`).
* A finished flow outlives the sweep (`lab-12/nat.c:93, 237`): `external_ack` is never
  assigned, and each later packet overwrites its side's FIN flag. A rule whose port lies
  in the pool shares it with a flow from inside (`nat.c:171`). A port given out right after
  a sweep may get a late packet of the old flow (`nat.c:253`). A SYN|ACK from a server whose mapping has been
  swept is taken for a new flow (`nat.c:122`).

Link-state routing (`lab-11/prj-11`):

* A router that restarts counts from 0 (`mospf_daemon.c:29`), and what it sends is taken
  for old (`:368`) until its entry expires.
* An entry's array is made for the first LSU of its router and not grown (`:384-402`).
* A quarter of the graph is cleared (`mospf_database.c:95`); with a router out of reach, -1
  is an index (`:137`); more than four routers overflow the graph (`:63-84`). The routes are
  rebuilt without the main thread's lock (`:210`).

Prefix lookup (`lab-10/prj-10/reducedTrie.c`): the answers rest on the order of the file.
With the routes 0/1, 2/3 and then 0/2 (four bits), the last is dropped (`:166`); a route that
comes twice is answered wrongly as well. The test before a node is put above the right child
reads the left one (`:108`). Lengths 0 and the full width need shifts that are undefined.

In lab-09, and mended later: `arpcache_lookup` copies in the wrong direction,
`arpcache_insert` does not end when all slots are in use, and `longest_prefix_match` never
takes a default route.

## 6. Not modelled

* Headers, checksums, logging, and the reading of configurations are formatting. The HTTP
  programs (lab-03) use the sockets of the operating system and keep no state between
  requests. `device_internal.c` and `rtable_internal.c` are I/O with the kernel.
* Earlier stages: labs 13, 15 and 16 hold the TCP stack of lab 17 with parts missing, lab 09
  the router of labs 11 and 12. Of the repository's 23 000 lines of C, 7 600 are byte for
  byte those of another lab, and the rest of these five labs is for the most part an
  earlier form of a function that is modelled (`arp*.c`, `ip*.c`, `icmp.c`, `rtable*.c`,
  `tcp_*.c`) or a header of formats. A model of the last form stands for all; the map names
  that one. So the share of all lines that the map names stays small, though it reaches
  every program but those named above.
* Sequence numbers of TCP are not taken modulo 2^32: the initial number and the sizes
  transferred stay below it, and the comparisons that would fail are listed as a hazard.
* In `Lan` the tree does not change and hosts do not move: after either, frames go astray until
  the entries have aged (section 5). In `Stp` switches do not fail: configurations are never aged.
* In `NatTable` the direction of a packet is given; in `Router` the routes do not change.
* Races on memory that has been freed have no state to model (`mospf_database.c:210`).

## 7. What could follow

Models: `NatTable` behind `Router`, with the direction of a packet taken from its routes; `Lan`
with a tree that changes.
