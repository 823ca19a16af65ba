# A TLA+ verification of SRT Live Server

SRT Live Server (`src/`) receives MPEG-TS over SRT from *publishers* and hands
it to *players*. One process runs a main thread, a number of worker threads
(`worker_threads`), each of which drives a *group* of SRT sockets with one epoll
loop, and the threads of an HTTP server for the API. The specifications here
model the parts in which these threads, the network, or a long sequence of legal
calls can go wrong; TLC checks them on small instances and TLAPS proves the most
important properties for every value of the constants.

## The system

| component | state | operations | modelled in |
|---|---|---|---|
| `CSLSRecycleArray` | ring buffer, write position, byte count | `put`, `get` with a cursor owned by the reader | `RecycleArray` |
| `CSLSMapData` | stream -> ring and stored TS header, one rwlock | `add`, `remove`, `put`, `get`, `is_exist`, `check_ts_info` | `LiveStream`, `TsHeader`, `Sessions` |
| `CSLSRole` (publisher and player data path) | send buffer, cursor, idle timer, socket, webhook | `handler_read_data`, `handler_write_data`, `get_state`, `on_connect`, `check_http_passed`, `on_close`, `uninit` | `LiveStream`, `Sessions`, `HttpGate` |
| `CSLSListener` | listening socket | `handler`: accept, check, register, push; `uninit` | `Sessions`, `StreamIdCache`, `Relays`, `Manager` |
| `CSLSMapPublisher` | stream -> publisher role | `get_publisher`, `set_push_2_pushlisher`, `remove` | `Sessions`, `Relays` |
| `CSLSRoleList` | FIFO of roles without a group | `push`, `pop`, `erase` | `Sessions`, `Manager` |
| `CSLSGroup`, `CSLSEpollThread`, `CSLSThread` | the roles of one worker, its exit flags | `handler`, `idle_check` and its parts, `reload`, `clear`, `stop` | `Sessions`, `Relays`, `Manager` |
| `CSLSPlayer` statics | table of active consumers | `register_active`, `unregister_active` | `Sessions` |
| `CHttpClient`, `CTCPRole`, `CSLSArray` | one HTTP exchange: socket, queue, parsed answer, clocks | `open`, `handler`, `check_finished`, `check_timeout`, `check_repeat`, `close` | `HttpGate` |
| pullers, pushers and their managers | connections to other servers, reconnect timers, loop index | `start`, `connect_*`, `reconnect`, `add_reconnect_stream` | `Relays` |
| `CSLSDatabase` | SQLite tables, in-memory copy, two mutexes | `init`, `validateStreamId`, `verifyApiKey`, `addStreamId`, `deleteStreamId`, `logAccess`, lazy load | `StreamIdCache` |
| `CSLSApiServer` | rate limit windows, a pointer to the manager, its thread | rate limit, authentication, permissions, edits; `start`, `stop` | `StreamIdCache`, `Manager` |
| `CSLSManager`, `main` | listeners, groups, list and maps of one configuration; the old managers | `start`, `reload`, `check_invalid`, `single_thread_handler`, `stop`; main's loop | `Manager` |
| `conf`, the rest of `common`, `CSLSSrt`, log, test client, vendored headers | | | not modelled |

**How they interact.** A listener is itself a role in some group. Its handler
accepts a client, validates its stream id in the database, looks the stream up in
the registry, and either enters a publisher (array in `CSLSMapData`, then name in
`CSLSMapPublisher`) or makes a player that will read the stream's array; the role
goes to the role list, from which any group with a free place takes it. From then
on only that group's worker touches it: a publisher's handler puts what it reads
into the array, a player's gets and writes, both only once their webhook, if the
server block has one, was answered 200. At the end of every round a group starts
broken relays again, closes the roles that are invalid (broken, closed or idle for
too long) and takes a new one. The threads share the registry, the array map, the
role list, the relay managers and the consumers, each behind a lock of its own;
nothing is ever done under two of these locks. main watches for signals, drives
the statistics client, replaces the manager on a reload and takes old ones down
when their workers have ended.

**What is hard.** Check-then-act over two locks in the listener; two-step
removal in `CSLSPublisher::uninit` and `CSLSPuller::uninit`; roles changing owner;
a cursor that outlives the array it belongs to; readers overrun by the writer of a
ring; counts that wrap; a cache behind two mutexes taken in both orders; answers in
pieces, late or never; relay managers shared by timers of several groups and by
listeners; a reload while handlers run. `PROJECT.json` lists each of these at its
line with the properties for it.

**What makes each component correct.** The ring: readers get contiguous parts of
the stream in order, and lose only what the writer overwrote. The live stream: the
same, all the way to the socket, after a header of the same publisher. Sessions:
one source per stream, one owner per role, no table names a role its group has
deleted, names come free, accepted roles are served, starved players leave. The
webhook: no data before a 200, `on_close` opened once, a decision in the end.
Relays: one source, and what broke comes back. Stream ids: callers whose call
meets no error cannot tell table and copy apart, only permitted requests edit,
nobody waits for ever. The manager: the API, the workers and main never meet a
manager, map or listener that is deleted, a reload cuts no client that a group
holds, the process ends.

## Modules

- `Broadcast` - what a stream promises its players: an ordered, lossy broadcast
  with a bounded window. Abstract, it has no ring, lock or cursor.
- `RecycleArray` - the ring. `put` is two actions, `PutCopy` and `PutCount`,
  because the code adds to `m_nDataCount` after it released the ring's lock; the
  map's lock is the guard `MapLockShared`. A byte is the number of bytes put
  before it, so order, loss and repetition are visible. `total` and `next` are
  ghosts: what was put, and what a cursor stands for. `Refines` is the refinement of
  `Broadcast`.
- `TsHeader` - pure: what `sls_parse_ts_info` keeps of a packet, which pid it
  listens to, and when the stored header is built. A packet is what the parser tells
  apart.
- `LiveStream` (extends `RecycleArray` and `TsHeader`) - one name of the array map
  and the players' send path: header first, buffer of `handler_write_data`, short
  writes, `remove` when the publisher ends and `add` for the next one: a fresh array
  (`Add`), or, when the key still has one, that one (`TakeOver`; a puller leaves the
  registry before the map, and the loser of a race leaves its array behind). The ghost
  `heard` says how far the source the array was made for has come in sending PAT, PMT
  and a key frame.
- `Sessions` - listeners, list, groups, registry, array map and consumers. One
  action per critical section, so other workers run between any two; the
  variable `pc` holds what a worker's handler has in its locals meanwhile. A role
  is `new`, `accepted` (in a listener's handler), `queued`, `held` (in a group)
  or `deleted`.
- `HttpGate` - the HTTP client with its connection (an *exchange*), used by a role
  as its webhook or by main for the statistics. The operators `Opened`, `Sent`,
  `Handled`, `Close` are the client's methods, as sets of exchanges they may leave;
  the actions are their callers and the environment: an answer is a sequence of
  pieces that arrive in any segments, or not at all. A byte of a request is its number,
  negative from the moment a later request begins, so a left-over is visible. The ghosts
  are the webhooks a role has opened (`asked`) and the reports of its end that got out
  whole (`told`): `on_close` is opened while the role is closed, and `uninit` closes the
  client in the same call, so what that one call of `handler` gets out is all.
- `Relays` - the relay manager of the one name that can have one
  (`default/default`), its relay objects from `connect` to their end, the entries of
  the manager in the groups' lists, and its timers. `pc` is a worker's place between
  listener's handler, `check_reconnect_relay`, `check_invalid_sock` and
  `check_new_role`. A client may be the publisher of the name too: it is accepted in
  three steps (look, array, registry) and leaves in two (array, registry).
- `Manager` - main, its managers and their workers, where a role is just a listener
  or a client with a socket. One action per step of main or of a group's round that
  another thread can come between.
- `StreamTable` - a table of stream ids edited and read in single steps: the
  promise of the database. `StreamIdCache` - the implementation with its copy,
  lazy load and two mutexes, and the API's requests around the edits. A reader's
  shared critical section is one step; an exclusive one that takes a second lock
  inside is one step up to that lock. The database may fail at any time: a load whose
  statement cannot be prepared (`LoadFails`), one that ends at an error as if at the last
  row (`LoadCutShort`), an exception that lets the client in (`LoadThrows`,
  `ReadThrows`), an edit refused (`RefuseEdit`). The ghosts `failed` and `lost` say which
  calls met an error and whether a cut load has passed for a whole one.
- `RecycleArrayProofs`, `LiveStreamProofs`, `SessionsProofs`, `StreamIdCacheProofs`,
  `HttpGateProofs`, `ManagerProofs`, `RelaysProofs` - theorems and proofs.
- `MC*` - the modules TLC is given; they extend the component and add nothing but
  the values of constants.

An operator that no specification uses (`NoMapLock`, `AlwaysFree`,
`KeepCacheLock`, ...) stands right before the definition it is a faulty variant of:
a dropped guard, an off-by-one, a forgotten reset. `PROJECT.json` pairs each with
the property that catches it, which shows that the property can fail.

## Runs

| run | instance | what it shows |
|---|---|---|
| `ring` | ring of 6, packets of 1-3, two readers, room 4, blocks of 2, count modulo 12, 14 bytes | types, only published bytes, refinement of `Broadcast`, whole-lap loss, everybody catches up that does not look complete (93,560 states) |
| `live_stream` | ring of 4, packets of 1 and 3, one player, header, short writes, two arrays in turn, sources that take one over | for as long as a player reads the array it joined, what reaches its socket refines `Broadcast`; the header was captured beside that array, and is whole after a well-formed start (670,613 states) |
| `republish` (violated) | the same | a player that stays for the second publisher is given unwritten memory |
| `ts_header` (violated) | the same | a stream with an audio packet before its key frame never has a header |
| `sessions` | 2 publisher listeners, player listener, 2 workers of 3 places, 2 publishers, 1 player, 1 stream, sockets refused by epoll | one source, one owner, only the owner drops an array, no table names a role its group deleted; names come free, are served; starved players go |
| `sessions_orphan` (violated) | 2 publisher listeners | an array without publisher keeps its players for ever |
| `sessions_leak` (violated) | 1 publisher listener, epoll may refuse | the registry names a deleted publisher |
| `http` | a request of 2 bytes, bodies of 0 and 2, codes 200 and 403 | no data before a 200; `on_close` opened once and told at most once; a connection carries what was left over and its own request; a 200 that was read is respected; the gate decides; statistics are posted again (38,794 states) |
| `relays` | 2 workers (1 in mode `all`), 3 relay objects, 2 upstreams, 2 list entries, all four modes | a puller in use is the registered source; a puller without array goes; broken pullers and waiting pushers come back; the first that waits is not forgotten (366,043 states) |
| `manager` | one reload from 2 workers (or none) to 1 (or none), 2 places, one client, failing starts | API and workers never meet a deleted manager, map or listener; listeners point into the configuration in memory; a reload cuts only what no group took; the old manager goes; the process ends (289,488 states) |
| `stream_ids` | 1 player id, 1 publisher id, 1 worker, 2 API threads, limit 2, keys of all permissions, a database that may fail | table and copy act as one table; edits are permitted; calls return once the copy is loaded (204,929 states) |
| `stream_ids_locks` (violated) | the same | the two mutexes are taken in opposite orders |

**Bounds.**
`MaxTotal` bytes are put: with 14 bytes in a ring of 6 the writer overruns a
reader twice, the write position wraps twice and the count (modulo 12) once, and a
reader is 12 bytes behind, with position and count both equal to the writer's: the one
that looks as if it had everything; the readers are independent of each other, so two
are enough. Packet lengths that are no multiple
of the block length make every alignment of position and end of ring occur. A put
of `LiveStream` carries one transport packet for the header, so ten bytes are up to
ten packets: enough for tables and key frame in any order with others between.
In `Sessions`, a role object is used once, so the number of sessions is the number of
roles: two publishers of one stream meet in every order, and the player meets the
first, the second or none. Two workers with three places each are filled by three
listeners and three clients, so full groups occur. Two publisher listeners are what
`sls.conf` ships (`listen_publisher` and `listen_publisher_srtla`).
In `HttpGate` a request of two bytes is enough to be cut anywhere; the largest
answer has status line (two pieces), length, end of header and a body of two. A
role asks once and reports once; main opens the statistics client twice (start and
one reload) and again at every interval.
In `Relays` two upstreams make the order of loop and map matter; the hash is a
constant, `HashUrl`. In mode `all` one worker, because its three relay objects are
then needed by the upstreams; `MaxEntries` means "that many or more" there. `MayAsk`
bounds what listeners start: in mode `all` there are objects enough for what is under
way and what waits, in the other modes entries and relays stay below `MaxEntries`.
In `Manager` the number of managers is the number of reloads plus one; what a second
reload adds is one more old manager, and old managers share nothing.
In `StreamIdCache` two API threads are enough for an edit to meet an edit, a load and
a validation; all clients of the API count as one address. Rows do not depend on each
other but through a load, which copies any part of them, so one player id is enough:
it is in the table or not, and a load reads it or not.

**Deadlock** is checked except where the instance may really stop: the process has
ended (`manager`), the role is deleted or nothing answers (`http`), or two threads wait
for each other (`stream_ids`: that is the run `stream_ids_locks`).

**Fairness.** Workers loop for ever (`CSLSEpollThread::work`), and a round of the
loop handles a finite batch of events; hence weak fairness of what a worker does by
itself (`Progress`, `WorkerStep`), and none of what clients do (connecting, sending,
breaking). main's loop is the same (`MainStep`, `StatLoop`), clocks run (`TimeOut`,
`Tick`), and libsrt gives up on a peer that does not answer (`Relays!Starve`). The
idle timer of a role runs out when nothing refreshes it: `Sessions!Starve` is fair
only while no array exists for the role's stream. A role at the gate gets events of
its own socket (`Handle`): a player's can be written to, and a publisher is taken to
send (one that does not is closed by its idle timer, which the gate does not
refresh). In the ring, weak fairness of `PutCount` and of each reader's `Get`, which its loop calls again and again. API calls return (`ApiEnd`). Threads inside a
database call go on when the lock they want is free; since a `std::mutex` is not fair,
`LoadedCallsReturn` is about validations and edits that have begun, not about
requests that wait for `m_db_mutex`.

**Choices of the Manager model.** A signal is a choice of main's loop whenever it
looks at its flags. The API has one call at a time. A round of a group handles one
listener event at most and ends with `idle_check` in one step: what it touches is
private to the group but for the list, which has its lock. Leaving the loop and
`clear` are one step, for the same reason. A first start that fails ends the
process, so behaviours begin with a manager that started.

## Disagreements with the code's own comments

The five violated runs, described in `PROJECT.json` under `findings`:

1. `republish`: a player that waits for a new publisher "for timeout" uses its old
   cursor on the new ring. A fresh ring is not yet written where it reads.
2. `sessions_orphan`: the publisher that loses a race for a name leaves an array
   behind.
3. `sessions_leak`: a role refused by epoll is deleted without `uninit`.
4. `stream_ids_locks`: the load of the copy and an edit can wait for each other.
5. `ts_header`: the header parser takes the first pid with a time stamp, which may be
   the audio, for the one to find parameter sets in, and is done without the PMT.

Where one of these, or another weakness, would get in the way of a property, the
property says so in its own words, and the exception is a named state predicate:
`StopMissed` (an API server that is stopped before it listens is not stopped, and
main waits for it), single-thread managers in `OldManagerGoes` (nobody drives them after a
reload), `Leaked` and `Entries > 1` in `PullerReturns` (two entries of one manager
share a loop index), a split status line in `ReadIsRespected`, `SameArray` in
`LiveRefines`, `LooksComplete` in `CatchesUp` (a reader behind by a common multiple of
ring and count modulus has the writer's position and count), clients in the list of a
manager whose groups have all ended in `ReloadCutsOnlyQueued` (they are erased with it),
`lost` in `CacheIsTable` and `failed` in `ActsAsOneTable` (errors of the database). Each
is a hazard in `PROJECT.json` at its line, and each occurs in the instance of its run.

## Proofs

`RecycleArrayProofs` assumes `SizeAssumption` (a ring at least as long as a block
and as every packet) and nothing about the bounds TLC uses.

- The inductive invariant is `TypeOK`, `ArrInv` (slot `j` holds the last byte
  put there, computed from `total` and `writePos`), `CursorInv` (a cursor stands for a
  byte of the lap being written, of the lap before, or was overrun; a reader that
  has every byte has the current count) and `OnlyPublishedBytes`. The last clause of
  `CursorInv` is the one that matters: without it a reader at the write position could
  take an empty ring for a full one before the first lap is complete.
- `TypeCorrect`, `NoUnwrittenMemory` and `Implements` (the refinement of
  `Broadcast`: initial states map to initial states, `PutCopy` to `Publish`, gets to
  their abstract counterparts or to stutters) follow.
- `WholeLaps`, the action property `SkipsWholeLaps`, adds `PhaseInv`: the byte that a
  cursor's position would stand for had it not been overrun, and the byte its reader is
  to have next, are whole laps apart.

`LiveStreamProofs` extends `RecycleArrayProofs` and cites its lemmas on one put and one
get, and so assumes `SizeAssumption` too.

- `HeaderIsOwn` (the header goes with its array, not with its source: one that takes over
  an array takes over the header) and `HeaderIsWhole`. The invariant ties the stored header to the ring's
  lifetime (`Bound`: an entry exists only while the array does, and a put is only under
  way while it exists) and says what has been captured after each stage of a well-formed
  start (`GoodStart`); two lemmas say what one packet does to any header (`CheckType`,
  `CheckCaptures`).
- `PathImplements`, the refinement of `Broadcast` by the whole path from the publisher's
  packets to a player's socket. `LInv` says that the array holds the bytes put
  from its base on, and that the buffer of a player still reading the array it joined is
  empty, holds the header, or holds bytes up to its cursor.
- `OnlySentByPublisher`: what is sent to a player of the array it joined besides the
  header is bytes that were put, never memory nobody wrote. It follows from the steps of
  `Broadcast` and bounds the finding of run `republish`: only a player that outlived its
  publisher is sent such memory.

`SessionsProofs` assumes `RolesAssumption` (the kinds of roles are disjoint, the
publisher listeners finitely many).

- Neither `OneSource` nor `OneOwner` is inductive: a publisher is pushed some steps
  after it was registered, and a role is reaped because it was seen in a group. The
  invariant adds `HandshakeInv` (a role inside a listener's handler is `accepted`, is
  in no other handler, and from `registered` on the registry names it), `ReapInv` (the
  roles a group has still to look at are in the group) and `StageInv` (stage, list
  and groups agree).
- `TypeCorrect`, `OneSourceAlways`, `OneOwnerAlways`, and `DropsOwnArrayAlways`, an
  action property: a publisher that drops an array is in a group, so by `OneSource` it
  is the registered one.
- `LeavesNoTraceAlways`, an action property (a role deleted after it was taken over is in
  no map), adds `NameInv`: a role before the step of its handler that enters it in a map
  is in none.
- `RegisteredLives` and `ArraysAreAttended` bound the findings of the runs
  `sessions_leak` and `sessions_orphan`. Under `~EpollMayFail` no deleted publisher
  is ever registered: a refused socket is the only way to the stale pointer. With one
  publisher listener as well, an array has a registered publisher that is accepted, queued
  or held, or one between `add` and `set_push_2_pushlisher` (`SoleInv`: what its handler
  has seen of the registry is still so when it enters the role). So there are two ways to
  an array that outlasts its publishers, and to players that never starve: the race of
  two listeners, and the delete in `check_new_role`, which leaves array and registry entry
  behind. Both hypotheses are cases the code runs in: an epoll that takes every socket,
  and a configuration with one `server` block and no `listen_publisher_srtla`.

`StreamIdCacheProofs` assumes `ThreadsAssumption` (the markers are no threads or
ids).

- `CacheIsTable` is not inductive: in the middle of an edit the two differ. The
  invariant says how (`Agree`: by the edit of the thread that holds the mutex, and never in a row
  that the edit would lose), and what a thread's place in its call implies (`Calls`).
- `TypeCorrect`, `CacheCorrect`, `EditsPermitted`, and `ImplementsTable`: every step
  is a step of `StreamTable` or a stutter, where the abstract rows are the copy once it
  is loaded and the table before. An edit of a loaded copy takes effect when the copy
  is updated; the load itself is a stutter because the table and the copy it makes
  agree, and one that is cut short is `Forget`. A call that meets an error is
  `AskInVain`.
- `DeadlockOnlyOnFirstLoad` bounds the finding of run `stream_ids_locks`: once the copy is
  loaded no two threads wait for each other's lock, since a load looks at
  `m_cache_loaded` again under the exclusive lock (`LoadsOnce`).

`HttpGateProofs` assumes `HttpAssumption`. `NoDataBefore200` and `CloseIsOpenedOnce` from one
invariant: while the webhook decides, the code a client has read is the one its
connection's answer has (`Asking`), nobody is let in but by a 200 (`LetIn`), and the
webhooks opened follow from what the role has been through (`Reported`). The lemmas
before it say that driving a client changes neither state nor answer of its
connection. `OwnRequestCarried` and `ReadAnswerIsRespected` from another, `KState`: what the
connection has carried, what is left in `m_out_data` and what is queued make up the rest
of earlier requests and the request itself (`Carry`), and how far the client is in the
answer says whether it has its code (`Reads`). Both are shown of one call of `handler` at a time, for every
answer and every way a peer may split or close it.

`ManagerProofs` assumes `ManagerAssumption`. Every safety property of `Manager` is
proved, from one invariant, since each of them depends on where main is:

- `Control` says which managers there are at each step of main (started in order, at
  most one current, the old ones in `m_old_managers`), `WorkerInv` which of their workers
  run (one without a thread only while main drives it, and the maps of a manager exist
  as long as one of its workers does), `ServersInv` and `OpenInv` that
  exactly the listeners in `m_servers` accept, `RolesInv` that a role is in one list or
  one group of the manager it belongs to, and `ApiInv` which manager the API's calls use.
- `ApiAlwaysHasManager`, `MapsOutliveWorkersAlways`, `ServersAliveAlways`,
  `ListenersHaveConfAlways` and `CutsOnlyQueued` (an action property) follow, for any number
  of reloads, threads and clients.

`RelaysProofs` assumes `RelaysAssumption`. `PullerIsSource` is not inductive: a puller is
registered two steps before it is in the list and unregistered one before it is gone.
`PullInv` adds who is in between (one worker at most between registry and list, each
leaving relay the business of one worker); `Rounds` says that an entry a round has still
to look at is in the list, so that taking it cannot make the length negative.
`FirstNotForgottenAlways`, an action property, adds `WaitInv` (upstreams wait in mode
"all" alone, and a pusher takes no puller's steps) and goes from the step that shortens a list to
zero back to the success of `reconnect_all`, whose upstream is the first that waited.

**Only model-checked**: the liveness properties (`CatchesUp`, `NameFreed`, `NameServed`,
`StarvedPlayerGoes`, `SourceServed`, `PullerReturns`, `PusherReturns`, `GateDecides`,
`StatPostsAgain`, `LoadedCallsReturn`, `OldManagerGoes`, `ShutsDown`): fairness and ENABLED are
beyond the prover. Every invariant, action property and refinement of a passing run is a
theorem. The violated properties are of course not, but each of the five findings has one
that says when it cannot happen (for the stream header it is `HeaderIsWhole`, of the starts
with no audio or other video packet before the key frame).

## Not modelled, and why

HLS recording and statistics (output only: they write files, counters and JSON that
nothing decides on), log, configuration parsing (sequential, one thread), string,
time and hash helpers, the libsrt wrapper (pure I/O: its outcomes are the
environment's `Break`, short writes and refusals), the test client. An exception in an
edit of the stream ids, for want of memory. The latency
negotiation refuses a client without touching shared state. Use of a pointer after
its object was deleted, where the code takes no lock at all (the statistics' walk over
publishers and consumers, the player listener's publisher, a listener's socket while
main closes it), is listed as hazards, not as properties: nothing in the code could
make such a property hold. Growth and wrapping of the HTTP queue are not reached by
the HTTP client's users.

`json.hpp` and `httplib.h`, third-party headers, are 31,654 of the repository's
44,612 lines of implementation; most of the rest that no module maps is text: logging,
parsing of configuration and JSON, formatting of statistics.

## Plan

Done, the most important first: ring, live stream, sessions, stream ids; webhooks,
relays, manager, API requests, stream header; the proofs of all of them. What is left:

1. API threads in `Sessions` that walk registry and consumers, if the code gets a lock
   that makes the walk safe.
2. `HlsRecording`: files and play lists of a publisher, with failing opens.
3. Pure algorithms against reference definitions: splitting, hashing, the choice of
   the latency.
Every safety property of the runs is proved; new modules get their proofs with them.
