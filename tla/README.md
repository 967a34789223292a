# minisatip in TLA+

minisatip is a SAT>IP server: clients ask for TV channels over RTSP or HTTP, the
server tunes a DVB adapter, filters the pids the clients want, descrambles them
if it can, and sends the transport stream back.  This directory holds TLA+
models of its core, TLC configurations that check them, and proofs that TLAPS
checks.  `PROJECT.json` maps every definition to the lines it models and lists
components, runs, mutants, hazards and theorems.

    tlc -workers 2 -config Sessions_shared.cfg MCSessions   # a run
    tlapm Sessions_proofs.tla                               # a proof

## 1. Inventory

| Component | State | Operations | Interaction | What is hard |
|---|---|---|---|---|
| Object pools (`utils/segmented_pool.h`) | slot pointers, length, `enabled` and `allocated` of each object | `obtain`, `reserve`, `extend_to`, `shrink_to`, close protocol of the users | holds sockets, streams, filters, PMTs, keys, HTTP clients | lock-free: every atomic access interleaves |
| Requests (`minisatip.cpp`) | per connection: stream number, close callback | `read_rtsp`, `read_http`, `close_http` | creates and plays streams | runs in the main thread against timeouts in others |
| Streams (`stream.cpp`) | adapter, transport, timeout, wanted transponder | `setup_stream`, `decode_transport`, `start_play`, `close_stream`, `stream_timeout` | attaches to adapters, unlinks sockets | close decided under a mutex, done after it |
| Adapters (`adapter.cpp`) | `sid_cnt`, `master_sid`, `tp`, `do_tune`, pid table, limits | open, close, choose, attach, detach, tune, `update_pids` | one thread each | sharing by streams; failure and idle close |
| Section filters (`pmt.cpp`) | chains of filters per pid | `add_filter`, `del_filter`, `set_filter_flags`, `process_filters` | hold pids in the table | linked lists with a cached head |
| PMT election (`pmt.cpp`) | state, claims, order of each PMT | `pmt_pid_updated_pids`, `start_pmt`, `stop_pmt`, `process_pmt`, `process_pat` | ends every `update_pids`, drives the CAs | order of subscriptions, stolen claims |
| Control words (`pmt.cpp`, `dvbapi.cpp`) | table of words with parity and expiry | `send_cw`, `update_cw`, batch decrypt | filled by dvbapi and CI | parity switches, expiry, late words |
| CA tables (`tables.cpp`) | which CA has which program: three masks per PMT, `ca_teardown_epoch` | `send_pmt_to_ca`, `close_pmt_for_ca` | between PMTs and CAs | masks written after an unlocked send |
| dvbapi client (`dvbapi.cpp`) | keys, filters, server connection | connect, reconnect, `dvbapi_reply`, `keys_add`, `keys_del` | adds filters, delivers control words | restart of the server, reuse of keys |
| Common interface (`ca.cpp`) | EN 50221 sessions, CAPMTs, pairings and keys of CI+ | link and watchdog, resource sessions, packing of programs, content control | receives programs, returns descrambled packets | timeouts, resets of the module, one-by-one updates |
| DD CI sharing (`ddci.cpp`) | pid mapping, slots per device, candidates per service | choose, map, unmap, process PMT and CAT | several adapters, one CAM | numbers that move, mapping exhaustion |
| SAT>IP client (`satipc.cpp`) | RTSP client state, wanted and sent parameters | `satipc_commit`, replies, keep-alive, timeouts | acts as an adapter | replies out of step with requests |
| Sockets (`socketworks.cpp`, `utils/fifo.cpp`) | output fifo, high-priority queue | `sockets_writev_prio`, flush, forced close | carries every reply and interleaved stream | partial writes, unlocked timer writes |
| Hardware descrambler, DVB ioctls, netceiver, SRT, HTTP client, SSDP, status API, options, logging | | | | external, sequential or formatting: not modelled (section 8) |

Correct means, for each: a pool never hands an object out twice and loses none;
an adapter counts its streams exactly, has a master among them and keeps no pid
of a stream that left; a stream gets the transponder it asked for; a connection
only touches its own stream; the hardware filters equal the table; a section
reaches every filter of its pid; a client's byte stream keeps its frames whole;
a pid is descrambled for the program that runs and was subscribed first; a batch
is decrypted with the word it was scrambled with or not at all; what the masks,
the keys and the mapping say a CAM or a server has, it has; every wait for
somebody outside is watched and ends.

`hazards` in `PROJECT.json` lists, line by line, what a test would hardly reach,
with the properties that watch it.  Where the code runs into a hazard and the
models reach it, the properties except it and the hazard lists none: section 6
says which.

## 2. Status and plan

| Module | Models | Runs | Proved |
|---|---|---|---|
| `SlotLifecycle`, `SegmentedPool` | object pools | yes | all invariants and the refinement |
| `Sessions` | requests, streams, adapters | yes | all properties |
| `PidFilters` | pid table, section filters | yes | all properties |
| `Descrambling` | control words | yes | all properties |
| `CamSession` | link to a CAM | yes | all but liveness |
| `ContentControl` | CI+ pairing and keys | yes | all but liveness |
| `Dvbapi` | dvbapi keys | yes | all properties |
| `CamPmts` | packing of programs into CAPMTs | yes | all but liveness |
| `SatipClient` | the RTSP client | yes | - |
| `PmtElection`, `Ddci`, `SocketBuffer` | see below | yes | - (folds and sequences, section 7) |

Each component is a module of its own: they meet at narrow interfaces (a stream
is attached, a pid is marked, a program is sent, a word arrives) that each
module treats as an input with every value the other side can give.  The masks
of `tables.cpp` appear in `CamPmts`, `Dvbapi` and `Ddci`, each with the send of
its own CA.

Left, in this order: the proofs of `Synced` and `RightMux` of `SatipClient`;
registration of several CAs and `tables_close_device`; the lock order of stream,
adapter and device mutexes as a module.

## 3. Modules

### SlotLifecycle and SegmentedPool

`SlotLifecycle` is the abstract promise of a pool: each slot goes round free,
claimed, live, closing, one slot per step.  `SegmentedPool` is `obtain()` of
`utils/segmented_pool.h` with one action per atomic access: the load of a slot
pointer, the compare-exchange that plants an object, the test of `enabled`, the
compare-exchange on `allocated`, `fetch_add` and `fetch_sub` of the length,
`extend_to`.  `Obtain`, `Enable`, `Close`, `Shrink` and `Free` are the protocol
of the users: initialise and set `enabled`; clear `enabled` under the object's
mutex, clean up, clear `allocated` last.  Two kinds of users exist.  Most call
from any thread (`Serialised = FALSE`); the filters pool holds `filters_mutex`
around each call and is the only one that lowers the length
(`Serialised = TRUE`).  `untouched` is a history variable: the slots that have
been free since the running `obtain()` began.  `destroy_all`, `clear` and the
growth of the bucket directory are not modelled: the first two are documented
as single-threaded, and a bucket is published by one compare-exchange whose
loser adopts the winner's.

### Sessions

State: `stream` (the pool entries, with `timeout` reduced to whether one is
set, since any set timeout may expire), `conn` (stream number and whether the
close callback is there), `ad` (count, master, transponder, `do_tune`, and the
streams that own pids), `proc` (what a thread is in the middle of).  The main
thread handles requests; each adapter has a thread, in which the timeouts of
its streams run after the first PLAY.  A step is what a thread does under one
mutex: `start_play` is split where `close_stream` or `close_adapter` can come
in between (`PlayCheck`, `PlaySelect`, `PlayAttach`, `PlayParams`, `PlayTune`),
`close_stream` into `CloseDisable`, `CloseDetach`, `CloseUnlink`,
`CloseRelease`.  Failures are choices: an adapter that does not open, a
frontend that refuses, a full pid table, a transport socket that cannot be
made, a signal shared with another adapter.

Three pieces of history are kept.  `owner`, a field of a stream, is the set of
connections that created or resumed it.  `fault` becomes true when a handler
goes on with a stream that was closed after it was looked up, or drops a tune
that was due; `lost` is the set of adapters closed while streams used them, by
an error or by an idle timeout that looked before a stream came.
The code prevents none of these (section 6), and after one of them the count
of the adapter is wrong for good, so the properties about sharing speak of the
states before a fault and of the other adapters, and the run stops exploring
there (`CONSTRAINT BeforeFault`).  `RtspOwnsStream` is not restricted.

### PidFilters

One adapter: its pid table as a function of the pid, the set of filters open in
the hardware, the counters `active_pids`, `max_active_pids` and `max_pids`, and
the pool of section filters with `next` and `master`.  `setup` is the
installation, chosen in `Init` and constant after: whether pids=all is
emulated, the sizes of the table, of the demultiplexer and of the filter pool.
`Updated` is the set of outcomes of `update_pids`: deleted entries close, new
ones open in any order until one fails or the limit is met.  Marking
(`SyncPids`, `DefaultPid`, `EnsurePid`) and updating are separate critical
sections in the code and separate steps here.  What the election does to the
filters (`set_filter_flags`) is `SetFilterFlags` and `ClearFilterFlags`.

### SocketBuffer

The output of one RTSP connection that carries its stream interleaved.  `s` is
the socket: `fifo`, `prio` (`prio_data`), `flush` (`flush_enqued_data`),
`force_close`, `enabled`.  `wire`, `written` and `replies` are history.  Packets
are sequences of cells, the places where a partial write can stop.
`WriteDirect`, `QueueReply` and `WriteBuffered` are the three ways through
`sockets_writev_prio`, `FlushAll` and `FlushPrio` the two of `flush_socket`;
each of them holds the mutex of the socket and is one step.  `stream_timeout`
does not hold it: `TimerStart`, `TimerWrite` and `TimerBuffer` are its test of
the fifo, its `writev` and its buffering of the rest, with other operations in
between; the mutex of the stream only keeps stream data out (`MayWrite`).  A
write returns any part (`n`) or fails (`Outcome`), and a broken connection
forces the close (`Noted`).

### PmtElection

One adapter: `pids` (state, subscription, rank of the subscription, claimant),
`pmt` (state, layout, registered at the CA), `list` (`active_pmt`) and `pat`.
Everything changes under the mutex of the adapter, so a handler is a step:
`Election` is the pass of `pmt_pid_updated_pids` with the sort of the
candidates, the claims and the starts and stops in the order of the code.  Pids
keep a rank instead of `next_pid_order`: only comparisons matter.  Names of
channels, SDT and EIT are left out.

### Descrambling

The table of control words (`cws`, `ncws`, with `older` the order of their times)
and, per program, the parity, the word in use, `update_cw` and the batch being
gathered.  The adapter's thread searches under `cws_mutex` (`Search`) and
decrypts without it (`Apply`); `send_cw`, the expiry and the removal of a
program run in between.  Words are numbered by the period they scramble, so
that "the right word" can be said.  The ciphers are external: a word decrypts
exactly what was scrambled with it.  A program is received without a gap of a
whole period.

### SatipClient

`c` is the adapter and its `satipc` record with the connection, `srv` the
server.  A handler is a step; `satipc_set_pid` (mutex of the adapter) and
`satipc_reply` (mutex of the socket) can overlap in the code, which the steps
do not show.  The server answers as the protocol says or fails, at most
`MaxFaults` times: a refusal of `Codes`, a forgotten session, silence, a closed
connection.  `resumed` is history: a SETUP went out while the adapter had pids
that the next PLAY would not name (section 6).

### CamPmts, CamSession, ContentControl

Three views of the common interface.

`CamPmts` packs programs into the CAPMTs of a CAM.  `job` is what the thread
that holds the adapter's mutex is doing; the handlers of the CAM's socket do not
take that mutex and interleave with it: they share the masks (mutex of the
PMT), the table of CAPMTs (lock of the device, `locked` while `ca_teardown` has
it) and `ca_teardown_epoch`, kept as whether it moved since the send read it
(`torn`).  `cam` is what the CAM was told, by program number, so the masks can
be compared with it.

`CamSession` is the link: `dev` (handle, socket, state, session table, pending
command, watchdog), `link` (the socket: open, asked to close, torn down),
`init` (`dvbca_init_dev`, by the poller or by the opening of the adapter, not
atomic), `ad`, `mmi` (menu messages), `cam`.  The driver allows one open
handle.  An adapter that is opened while the CAM is in its handshake gets EBUSY,
that is NORETRY, and is not tried again; `Recovers` excepts exactly that.

`ContentControl` is CI+: `cc` (elements, secret, exponent, SAC keys), the two key
registers, the words each program was given, the file of pairings, the
certificate and the CAM.  A pairing is named by the exponent drawn for it, and
keys agree when what they are made of agrees.  The file may be cut off in the
middle of a write, or not be opened for it.  `Certs` are the states of
`device.pem`: two certificates, the second without a key that can be read, and
none; `unsigned` is history, set where the key could not be read and the host id
had been replaced already.  How a program uses its word after `send_cw` is in
`Descrambling`.

### Ddci

Devices (`slot`, `mapping`, EMM pids, whether the tables changed), the
candidates per service (`chan`, which `ddci.conf` may fix), programs with their
state at the CA table, sends in progress and the marks of the adapters' pid
tables.  `Choose` runs without a lock and `Register` under that of the device.
`WrittenAs`, `Back` and `PmtFor` are what happens to packets and to the PMT made
for the CAM, so `RoundTrip` can say that they agree.  A packet is looked at with
the table as it stands; how long it waits in the FIFO is not modelled.  Left out: masks that another
thread clears between choice and registration, version numbers beyond
"changed since the last table", a device opened again while programs run, CAT
versions.

### Dvbapi

`link`, `ca` (the entry of the CA table), `keys`, `pmt`, `srv` (what the server
knows), `inq` (its unread messages), `demux` (section filters on its behalf)
and `th`, where each thread is between two lock regions: the socket's thread
(messages, `dvbapi_close`, `connect_dvbapi` once a second) and one per adapter
(sends, closes, watchdog).  `keys_del` is two steps, since other threads add
keys between its count of the enabled keys and its message.  The server's
messages may arrive when the key they name is another program's.  `struck` is
history, for the two interleavings the code does not prevent (section 6).  Left
out: the mode with a local socket per key, ECM_INFO, the byte layout, adapters
and programs that are removed.

## 4. Runs

Every run passes: TLC visits all states within the bounds and finds no
violation.  For each property `mutants` in `PROJECT.json` names a plausible bug
of the code that TLC does catch under the same configuration.

| Run | Bounds | Properties |
|---|---|---|
| `SegmentedPool_shared` | 2 threads, 2 slots, callers not serialised | `ExclusiveClaim`, `NoSpuriousFull`, `ImplementsLifecycle`, `ObtainReturns` |
| `Sessions_shared` | 1 RTSP connection over UDP, 1 HTTP connection, 2 streams, 1 adapter that closes when idle or is lost, 2 muxes, pid tables that fill up | `CountExact`, `PidOwnersAttached`, `OwnMux`, `RtspOwnsStream` |
| `PidFilters_table` | 3 pids, one of them pids=all; a table and a demultiplexer of 2 with and without emulation and 1 filter; a table of 1 and 3 filters; at most 1 leaked count | `ActiveCount`, `HardwareMatches`, `SubscribedKept`, `DeliversAll` |
| `SocketBuffer_stream` | 3 packets of 3 cells, a fifo of 8 cells, room for 1 waiting reply | `DataWhole`, `RepliesKept`, `BufferDrains` |
| `Descrambling_words` | 2 programs, 2 words in the table, 4 periods of one program and 1 of the other | `OwnWord`, `NoGarbage`, `Noticed`, `LateWordsOlder` |
| `SatipClient_play` | 2 muxes, 2 pids, 3 kinds of servers, 4 refusals, 2 requests of streams, 1 failure | `Synced`, `RightMux`, `Recovers` |
| `CamPmts_packing` | 3 programs in 2 versions, 2 CAPMTs of 2 programs, 4 operations, 1 fault | `SentIsThere`, `NumbersDiffer`, `EventuallySent` |
| `CamSession_link` | 4 resources, 4 sessions, 1 menu message, 2 polls, 2 faults, 2 messages of the CAM's own | `Watched`, `ReadyHasCa`, `Recovers` |
| `ContentControl_pairing` | 6 exchanges, 5 keys (one begins with 0), 5 faults, 1 program, a file of 4 | `CredentialsAgree`, `KeyInUse`, `Settles` |
| `PmtElection_claims` | 2 programs of 2 layouts, 3 stream pids shared as audio/video, data or ECM | `AvClaimsRun`, `EarliestOwns`, `Stable` |
| `Ddci_share` | 3 programs of 2 adapters, 2 devices with 2 and 1 slots, one of them resets, pids up to 30 | `RoundTrip`, `NothingLeft`, `FoundInTwo` |
| `Dvbapi_keys` | 2 programs of 2 adapters, pools of 1 and of 2 keys, 2 filters per key, 1 unread message before the server waits | `HasKey`, `ServerKnows`, `NoOrphan` |

The bounds are the smallest in which the cases happen.  Two threads are what the
compare-exchanges race.  Two streams are one that stays and one that goes, and
two muxes make a retune differ from a move; the theorems cover more connections,
streams and adapters.  A table smaller than the set of pids fills up; a limit
below the number of entries is met; three filters are a head, a middle and a
tail.  A fifo of less than three packets overflows with the third (it always has
room for the rest of a packet partly sent: were it full of replies when
`stream_timeout` buffers its rest, the rest would be lost).  Two words are one
table that both programs want; four periods let a parity come back twice.  A
second version changes a program, a service id that is the number of a slot
makes program numbers collide, three programs on two places need packing and
wait.  Four resources include the two every CAM has and two that answer late.
More pairings than the file keeps push the oldest out.  A pool of one key is
exhausted by the second program.
`Stable` and `FoundInTwo` look ahead by evaluating the next pass or attempt, so
they need no fairness.

**Fairness.** Each `FairSpec` assumes only what a scheduler or a working peer
gives.  `SegmentedPool`: a thread inside `obtain()` keeps running; nobody has to
call it or close anything.  `SocketBuffer`: a flush in which the socket takes
something (the client reads; the poll loop asks for POLLOUT while the fifo holds
data) and the sweep that deletes a socket marked for closing.  `SatipClient`:
the server answers or the timeout of `satipc_timeout` comes, and a tune that is
due happens.  `CamPmts`: the adapter's thread finishes what it does and comes
back to every program that is pending (the demux pass runs over all of them),
the CAM's socket is handled, the poller reconnects.  `CamSession`: messages,
keep-alives, the watchdog and the poller's passes happen, `dvbca_init_dev` ends.
`ContentControl`: the exchange goes on while it can.  Faults are bounded and
never fair; operations of clients need not happen.  Where TLC would have to
evaluate ENABLED of a large disjunction, weak fairness is written with the
condition that enables it, which is the same formula.

**Deadlock** is checked except in `SocketBuffer`, `CamPmts` and
`ContentControl`, whose bounded inputs run out: packets, operations or keys are
used up and the system rests.

## 5. What the properties say that is easy to get wrong

`CountExact` lets the master be a stream that is about to leave (`close_stream`
disables a stream before it detaches it) or about to be counted (section 6); it
is silent about the states after a `fault` and about `lost` adapters, in which
the code miscounts.  `EventuallySent` asks that the CAM has the program (`InCam`)
and not only that the masks say so.  `CredentialsAgree` holds the host id to the
pairing except after `unsigned`, and then as long as no channel is up.
`RoundTrip` asks that a packet without a number comes back to nobody.
`SubscribedKept` is about streams, not section filters.  `OwnMux` lets an adapter have no
transponder after a tune that failed.  `ActiveCount` asks for equality only
where pids=all is not emulated.  `NoGarbage` speaks of batches that show the
right word or count as descrambled: a blind batch may be garbled, which is what
the code accepts.  `Synced` speaks of the moments in which the client has
nothing more to ask.  `ServerKnows` allows a key that has lost its filters,
since `connect_dvbapi` will close it as idle and announce the program again.

## 6. Behaviours that comments of the code rule out

The models reach these; the properties name them as exceptions, so each run
shows that there is no other one.

- `stream.cpp:392` ("Exclusive now (disabled, unclaimable): cleanup needs no
  lock."): `start_play` runs with a pointer that `read_rtsp` looked up before,
  and does not test the stream again; it can attach a stream that
  `stream_timeout` is closing, and the adapter counts it for good (`fault`).
- `stream.cpp:298-299`: the adapter chosen for a stream is stored before
  the stream is counted, so it can be elected master before it is.
- `adapter.cpp:433`: an adapter that is lost leaves its streams attached; when it
  is opened again its count does not include them (`lost`).  So it is after
  `adapter_timeout` (`adapter.cpp:202`) found no stream and one came, or one was
  still about to leave, before the close.
- `socketworks.cpp:1073-1076`: the number of a closed stream is taken from RTSP,
  RTP and RTCP sockets ("to prevent closing the stream created by another
  socket"), not from HTTP ones; `RtspOwnsStream` is therefore about RTSP.  Line
  1078 removes the close callback of a connection that lives on.
- `pmt.h:188` (a pid stays "if there is at least one filter with this type"):
  `del_filter` clears the flag of the first of two such filters before it is
  unlinked, and the pid goes (`pmt.cpp:327`).
- `adapter.cpp:974` and `1024`: emulated entries (`fd` -1) are counted when they
  open and not uncounted when they go.
- `socketworks.cpp:1460` (a reply is "flushed after the current packet"): when
  the fifo holds only the rest of a packet there is no next header, and the
  reply is written inside it.  `DataWhole` and `RepliesKept` therefore look at
  data and replies separately.
- `satipc.cpp:1732` ("ask the next PLAY command to send the pids"): after a
  reconnect that keeps the adapter no list of changes holds the pids, and SETUP
  is not followed by PLAY (`resumed`).  A TEARDOWN that was refused is never
  repeated (`StuckTeardown`).
- `tables.cpp:326` calls `close_pmt_for_ca` with the mutex of the PMT held, and
  the device's lock is taken below it; `ca_teardown` takes the two the other
  way round (`NoLockCycle`).
- `tables.cpp:315` and `ca.cpp:1332`: a send overtaken by a teardown returns
  before the masks are set; if the program stops before the next pass its place
  in the CAPMT stays, and a program packed next to it is not sent (`GivenUp`).
- `ca.cpp:2845-2867`: a CAM that closes its CA session and opens it again forgets
  its programs; the hashes of what was sent are dropped, the masks stay, and no
  pass sends the programs again.  `SentIsThere` and `EventuallySent` except a
  CAPMT without a hash.
- `tables.cpp:400`: the mask in `tables_close_device` is never shifted (not
  modelled: one CA per adapter).
- `ca.cpp:1339`: a key that begins with a 0 byte counts as no key for a program
  that joins (`ZeroFirst`).
- `ca.cpp:2051-2058`: the host id of a new certificate is stored before its
  private key is read.  When that fails the exchange does not start, and the AKH
  and the secret of the old pairing stand beside the new host id (`unsigned`).
- `ca.cpp:4238`: EBUSY at open is not retried (exception of `Recovers`).
- `ddci.cpp:95` and `1199-1202`: an entry for which no number is left keeps -1 and
  is rewritten all the same: its packets go to the CAM as null packets and
  `dd_ad_pids[-1]` is written (the models take this write for one without effect).
- `ddci.cpp:559` ("so always map it just in case"): CAT and TDT belong to the
  program that mapped them first and go with it.
- `dvbapi.cpp:636`: an idle key is unlocked before its program is closed, and
  `dvbapi_del_pmt` does not compare programs: it may delete the key another
  program has obtained (`struck`).

## 7. Proofs

The theorems hold for every value of the constants that the module's named
assumption allows: any number of threads, connections, streams, adapters,
programs, slots, keys and faults, without the bounds and the constraint of the
runs.  Each proof has the same plan: an inductive invariant, one lemma per
action or group of actions that it preserves it, and the properties as
consequences.  TLC checked each inductive invariant before it was proved.

**`SegmentedPool_proofs`** (assumptions: finitely many threads, a positive cap).
`LengthInv` is types, `Flags` (a thread at a program point has its slot
published, allocated, below the cap as that point implies), `ExclusiveClaim` and
`NoLeakedSlot`, `Mutex` (in the filters pool one thread at a time is inside),
`Below` (every index a thread works on is below the length) and `SizeSettles`,
`LiveBelowSize`.  `Below` is what makes `shrink_to` safe: it lowers the length
only over slots nobody uses.  `NoSpuriousFull` adds `Searched`: a slot free
since the call began is still ahead of the scan.  `PoolImplementsLifecycle` is
the refinement of `SlotLifecycle`: initial states map to initial states and
each step to a step of one slot or a stutter.

**`Sessions_proofs`.** `OwnInv` gives `RtspOwnsStream` without any restriction:
types; `Busy` (a thread that works, works on a stream); `CloseOne` (one thread
closes a stream, and its number is not reused until it is done); `Owned` (the
number a connection keeps is of a stream of its own, and it is forgotten before
`CloseRelease` gives the number up).  `Owned` alone is not inductive: between
`CloseUnlink` and `CloseRelease` a second closer could free a number that was
linked again, which `CloseOne` excludes.

`ShareInv` adds, while no `fault` happened (after one the code does miscount,
section 6, so the theorems about sharing are about the states before it): `PlayingHere` (the stream
`start_play` works on is live, and has no open adapter when one is sought);
`GoneEmpty` (an adapter that was not lost closes empty, so a reopened one may
start at count 0); `Counted` and `PidsOwned`, which are `CountExact` and
`PidOwnersAttached`; and three that carry the transponder through
`start_play`: `ArriveMux` (the adapter chosen has the parameters or is free),
`TuneMine` (who is about to tune is the master and its parameters are stored),
`OnMux` (`OwnMux`, suspended only until the stream is counted).  `OwnMux` needs
`Counted`, since `get_free_adapter` takes an adapter for free, and `tune()` looks
for others to close, by `sid_cnt`.

**`PidFilters_proofs`.** `PidsInv` is types, `HardwareMatches`, `ActiveCount`,
`SubscribedKept` (of streams; section filters alone do not keep a pid), and
`Kept`: a free slot of the table has no descriptor, and
neither it nor a deleted entry has a stream.  It is stated of the record that
the stages of `update_pids` pass on, so that each stage is one lemma.

`ChainInv` gives `DeliversAll`: the filters of each pid can be numbered from 0,
the master all of them name, along their next pointers without a gap, and the
last points nowhere (`Linked`).  The numbers are not in the state; `AppendLinks`
and `UnlinkLinks` say which numbering holds after `add_filter` and `del_filter`,
for a first, a middle and a last filter.  The walk is the recursive function
`Hop`; since no induction theorem can be used, `HopWalks` shows that it is
defined, and `WalkAlong` where it leads, by the least number of hops for which
that would fail (`UpTo`).

**`Descrambling_proofs`.** `WordsInv` adds to `OwnWord`, `NoGarbage` and
`Noticed`: `Held` (a slot a program has taken is enabled and its own, also
between batches: this keeps `send_cw` from reusing it), `Follows` and
`BatchIsCurrent` (the noted parity and the batch belong to this period or the one
before), `CheckedIsRight` (a word that was checked is the current one until the
program is told to look again; without it a blind batch after a checked one
could be garbled and count).  `Ordered` in `TypeOK` says that the times of the
enabled words are a strict total order, so there is always a newest one:
`send_cw` gives a late word a time before the checked one and after whatever is
older than that time (`TimedOrdered`).  `WordsLateOlder` is an action property:
only `SetDescr` and `Reset` move a time, and neither moves the word in use.

**`CamSession_proofs`.** `CamInv` is types, `DevOK` (the first entry of the
session table is for the resource manager, the command awaited is one its
session sends, an initialised CAM has a CA session after the first entry),
`OneLink` (handle, socket and state agree for every interleaving of poller,
adapter and socket thread), `Begun`, `Unspoken` and `CamKnown` (what the CAM has
and owes, the device knows: a closed session cannot be answered), `Watched`.
`ReadyHasCa` rests on `CamKnown`: while the resource manager is settled entry 1
is its own.  `CamMmiNumbered` is an action property: the number of the last
menu message grows with every change of the list, which stays in order.

**`ContentControl_proofs`.** `ChannelInv` is types, `ListOK` (the file holds
exchanges that took place, each once, the newest first, also after a write that
was cut off), `CcOK` (AKH and secret are of one pairing, and so is the host id
unless `unsigned`), `KnownOK` (a pairing the CAM knows took place),
`InExchange` (during an exchange both sides are at the newest exponent and the
host id is the one it was signed with), `SamePairing`, `KeysAgree`, `SameKeys` (the registers of both sides
agree and the programs with a place have them).  `InExchange` is what lets the
credentials be replaced one by one: each element refers to the same exponent.

**`Dvbapi_proofs`.** `DvbapiInv` is types, `CountOK` (the count of a key's
filters stays within their number), `AtWork`, `Owned` (a live key belongs to a
program whose `opaque` names it; `OneKey` follows), `TearsDown` and `Alone` (a
key in teardown is disabled, still allocated, and one thread's), `Excl` (the
adapter whose lock the socket's thread has does nothing), `Down` (without a
connection `dvbapi_close` is under way, or no program is registered and every
send that began before is stale), `OnTable`, `Keyed` (a registered program, and
one about to be, has its key).  `HasKey` is not inductive: `SetMask` may
register a program long after its key was obtained, and `Keyed`, `Down` and the
stale mark of the send cover what happens to the key in between.

`MsgInv`, on top of it, follows the messages.  The queue matters by its last
word on a filter: `Stopped` says that it is a stop, `Quiet` that this holds of
every filter a key has or will get.  `Tracked`: over a connection that works the
server has each of these filters or has stopped it.  `HashKnown`: what the server
knows under a key's number is the last CAPMT of the key, or the stop of all
programs took it and the key is quiet; that is the case of `keys_del` counting
no other key before another thread adds one.  `Version`: a program that is sent
was sent as it is now, also while its masks are still to be written, unless that
send is stale.  `DownFresh`: without a connection everything is as new except
the keys `dvbapi_close` has not passed.  `Parted`: the program that
`connect_dvbapi` closes has no other key.  `Orphans`: the key of a program that
is not registered was made while the connection was closed and the server does
not know it (`Silent`), or the program is in `struck`.  `InfoFirst`: the server's
name comes first, and the CA table entry is off until it is read.  `ServerKnows`
follows from `Version` and `HashKnown`, `NoOrphan` from `Orphans`; a silent key
is idle and `connect_dvbapi` deletes it.

**`CamPmts_proofs`** (assumption: finitely many slots, numbered from 0).
`PackInv` is types, `AtWork` (a send is for a program that runs and counts as
not sent until its masks are written), `SentRegistered` (so it is released
before it goes), `Distinct` (from the first program on the numbers of all slots
differ, those of empty ones too: the next program may land there), `Hashes` (a
kept hash belongs to a CAPMT in use, names its number, and the CAM has what it
lists) and, for every program that is marked as sent or will be when the
masks are written, that it is `There`.  `Hashes` makes the send that is left out
sound: an equal hash means the CAM has these streams.  The marks alone are not
inductive: between `TellCam` and `SetMasks` the mark is only intended, and a
teardown in between takes the place away; `torn` then excludes the mark.

Model-checked only:

- liveness (`ObtainReturns`, `BufferDrains`, `Settles`, `EventuallySent`, both
  `Recovers`): fairness and ENABLED are beyond the prover;
- `SocketBuffer`, `PmtElection` and `Ddci`: their steps are folds, selections and
  sorts of sequences, whose results need induction over data;
- `SatipClient`: not attempted.  Its `TypeOK`, like that of the other modules
  without proofs, documents the types.

## 8. Not modelled

Contents of transport packets, RTP framing, section reassembly, ciphers, tuning
parameters beyond equality of transponders.  The hardware descrambler
(`hw_descrambler.cpp`: kernel slots around ioctls), DVB frontends (`dvb.cpp`:
ioctls and parsing; failures are choices in `Sessions`), netceiver and SRT (thin
layers over external libraries), the HTTP client (one request per object, one
thread), SSDP, XML and status API (formatting of read-only state), logging,
strings, hashing, charsets, and options (the ones that change behaviour are
CONSTANTS).  `Sessions` leaves out SRT transports and the `fe=` pin of a
frontend; the event loop's reading, accepting and thread bookkeeping are left
out of `SocketBuffer`; registration of several CAs and `tables_close_device` of
the CA tables.
