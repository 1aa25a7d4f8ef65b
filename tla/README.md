# Verification of redis-uya

redis-uya is a Redis-compatible server written in Uya: one process, one thread,
an epoll loop, data in memory, an append-only file and an RDB file beside it,
and replication by short polls. This directory holds TLA+ models of the parts of
it whose correctness depends on *order* (who runs between which two steps of whom,
what a crash or a lost answer leaves behind), the TLC runs that check them, and
proofs, checked by TLAPS, of what matters most about them. It also holds models
of the programs in `scripts/` that decide what the server is built from and what
is said about it: the generator of the command catalogue, the benchmark drivers,
the reports made of their figures and the checks of the documents.

Contents: 1 the system · 2 the modules · 3 the runs · 4 fairness · 5 the proofs ·
6 disagreements with the documentation · 7 what is not modelled · 8 plan.

Paths of the form `x/y.uya` below are relative to `src/src/`, those in `scripts/` to
`src/scripts/`.

---

## 1. The system

Everything the server does happens in one loop, `server_run` in
`server.uya`. One iteration runs, in this order:

1. `server_cron_at` (at most every 100 ms): active expiry, closing of idle clients,
   requests for replica acknowledgements, flush of the AOF buffer;
2. on a replica, the replication steps: full or incremental synchronisation,
   heartbeat, each a *blocking* exchange with the master;
3. `server_run_pending_bgsave_at`: reap a BGSAVE child, fork a requested one;
4. `server_run_pending_aof_rewrite_at`: reap a rewrite child, fork a requested one;
5. `server_run_blocked_clients_at`, then `server_run_buffered_clients_at`: clients
   that are blocked (BLPOP, WAIT, ...) and clients with input left, each skipped while
   a counter says that there are none;
6. `epoll_wait`, then accept, read, execute and write for the sockets that are ready.

So there is no data race inside the process. What is concurrent are the forked
children and the files they share with the parent, the other server of a
replication pair, the peers of the sockets, and the *logical* interleaving of
clients between two of their own commands.

| component | state it keeps | operations | hard behaviour | what makes it correct |
|---|---|---|---|---|
| **replication backlog** `replication/backlog.uya` | an SDS buffer, its dead prefix, the offset of its end, the replication id | append, trim, compact, window check, slice, open, reset, disable | the offset of the first byte is never stored but computed; trimming is lazy | what a replica is sent is exactly what it lacks; memory stays bounded |
| **persistence** `persistence/{aof,rdb,rewrite}.uya`, parts of `server.uya` | AOF write buffer and file, RDB file, the two request flags, two child pids, the rewrite buffer | append, flush, fsync, SAVE, BGSAVE, BGREWRITEAOF, load, shutdown | forked children with inherited buffers; a log swapped while commands arrive; a crash anywhere | a restart brings back a state the server was in, and no older than it must be |
| **replication link** `server.uya`, `replication/state.uya`, PSYNC in `command/executor.uya` | role, link state, upstream, id and offset followed | PSYNC full and incremental, heartbeat, REPLICAOF, restart | any step can fail and is retried; roles and ids change under way | a replica misses exactly the rest of its master's stream, and catches up |
| **transactions** `network/connection.uya`, `storage/engine.uya` | per connection: queue, watched keys with versions; engine: version table, sequence, number of watching clients | WATCH, UNWATCH, MULTI, EXEC, DISCARD, RESET | versions are only kept while somebody watches | EXEC runs iff nothing watched has changed |
| **event loop and clients** `server.uya`, `network/listener.uya` | 64 slots, per client an async frame, blocked and buffered flags and their counters | accept, read, resume, block, wake, time out, unblock, pause, kill, close | all of these can meet in one round | counters agree with the flags; a blocked client is answered once |
| **acknowledgements** `network/connection.uya` | ACK and FACK offsets of online replicas | WAIT, WAITAOF, GETACK | answers from an older stream | WAIT counts replicas that really have the write |
| **keyspace** `storage/engine.uya` | dict, expires, watch versions, memory limit | lookup, set, delete, expire, active expiry, eviction, SCAN | names used after the entry they are a slice of was freed; sampling | expired keys vanish; the three tables agree |
| **dict** `storage/dict.uya` | two tables and a rehash index | insert, find, delete, iterate, rehash step | every operation may run between two rehash steps | nothing lost, nothing twice |
| **objects** `storage/{object,sds}.uya` | lists, hashes, sets, sorted sets, streams | sequential containers | layout visible through SPOP | – |
| **executor** `command/executor.uya` | none of its own | about 250 commands | which of them touch versions, propagate, or change in place | replaying what was propagated gives the same data |
| **router, catalogue** `command/{router,catalog}.uya` | tables | lookup | – | – |
| **RESP** `network/protocol.uya` | cursor into the input | parse, format | input split anywhere | a prefix never parses as something else |
| **Pub/Sub, MONITOR, tracking, ACL, scripts** `network/connection.uya` | fixed-size registries | subscribe, publish, ... | full registries | – |
| **backup capture** `persistence/backup.uya` | a base and an increment file | start, append, finish | like a rewrite | base and increment together are the data |
| **slow log, latency**, **cluster tables**, **allocator, config, utilities** | rings, tables | sequential | – | – |
| **command catalogue generator** `scripts/generate_command_catalog.py`, **scope gate** `scripts/verify_command_scope.py` | a pool of futures, the entries, a base module, a wrapper, numbered parts, the matrix of the docs | fetch, parse, classify, sort, write file by file, judge | eight workers, retries, a first failure while others run; an interruption between two files | the catalogue is the index in its order; sources that build are of one run |
| **persistence and replication benchmarks** `scripts/benchmark_{persistence_v0_3_0,replication_v0_4_0}.py` | processes, their files, a deadline, samples, a report | start, write, save, stop, restart, REPLICAOF, wait, clean up | servers load, flush and lose their link when they please, with the master up too; every wait may raise; the driver may be killed | a sample measures what its case is named for; nothing is left behind |
| **throughput benchmarks** `scripts/benchmark_{v0_1_0,v0_8_0}.py`, **gap report** `scripts/report_v0_8_0_gaps.py`, **document checks** `scripts/verify_doc_truth.py` | reports, a baseline that is an older report, the debt queue, figures in the documents | measure, guard, judge, queue, cite, verify | three judgements of one measurement by different thresholds; files that change one by one | the judgements agree; green documents cite a run that was really compared |
| **io_uring evaluation and source contract** `scripts/evaluate_io_uring_v0_8_0.py` | – | probe, report | – | – |

How they interact: a command goes from the connection through the router to the
executor, which changes the keyspace (and with it the watch versions). If it
was a write, `connection_reply_with_transaction` then appends its normalised
form to four places, in this order: the AOF buffer, the rewrite buffer (while a
rewrite child runs), the backup increment, and the replication backlog. The
last three are views of one sequence of commands, and the models check that
they stay so. A replica's increment takes another path (`server.uya`, from the
socket to the keyspace and the AOF), which leaves the rewrite buffer out.

Beside the server, the scripts form a chain of files: the generator writes the
sources the server is built from and the command matrix, which the scope gate
judges; the benchmark drivers start the built server, kill and restart it, and write
reports; the gap report is made of one of those reports, a later benchmark may take it for
its baseline, and the document check compares the documents with the sources and with the
report they cite. Nothing locks or dates these files, so what matters is which
run of which program wrote what.

`PROJECT.json` lists under "hazards" every place where this code can go wrong
in a way a test would hardly reach, and the property that looks at it, or why
none does yet.

---

## 2. The modules

| module | what it is |
|---|---|
| `CommandStream` | abstract: a stream of bytes and the lowest offset still served |
| `Backlog` | the buffer of `backlog.uya`; **implements** `CommandStream` |
| `DurableStore` | abstract: a state, and the state a kill would bring back |
| `Persistence` | AOF, RDB, rewrite, children, crash, restart; **implements** `DurableStore` |
| `DirtyKeys` | abstract: watching, dirty, and EXEC by dirty flags |
| `Transactions` | WATCH/MULTI/EXEC with lazily kept versions; **implements** `DirtyKeys` |
| `Replication` | servers that follow each other; its backlog is the abstract stream |
| `Clients` | the event loop: slots, frames, blocked and buffered clients, CLIENT commands |
| `CommandMeta` | what is derived from the page of one command, and the scope gate over the matrix |
| `Catalogue` | the generator's pool, its order, the files it writes, its interruption |
| `CommandCatalogue` | composes `Catalogue` with `CommandMeta` |
| `Benchmarks` | the drivers of the persistence and replication benchmarks against live servers |
| `PerfReports` | throughput benchmarks, guard, gap report, documents and the check of them |
| `MC*` | constants and symmetry for TLC |
| `*_proofs` | the theorems |

Each implementation is an `INSTANCE ... WITH` refinement mapping, checked as a
`PROPERTY`, and proved as well (for `Persistence` while nobody saves, section 5).

**Backlog.** `history`, `history_start`, `master_offset` are the buffer, the
start index and the offset of the struct. `Trimmed` is `replication_backlog_trim`
with its early return and its compaction threshold, `FirstOffset`, `CanContinue`
and `SliceFrom` the functions of those names. `AppendCommand` is the whole
append with the trim behind it. `Reset` and `Disable` are the two ways of
REPLICAOF. `stream` is a history variable. The mapping sends `low` to the
computed `FirstOffset`.

**Persistence.** A value is the length of a list of like items: pushing is the
simplest command that is neither idempotent nor commutes with DEL, which is
what a log replayed once too often or in the wrong order shows. `aof_buf` is
the writer's buffer, `aof_file` what the kernel holds, `aof_synced` what is on
the medium. The children are records with a phase; their steps are "close what
was inherited" (which flushes the inherited copy of the buffer, as `aof_close`
does), "save", and "die". Writing an RDB file is `rdb_save_file_at` call by call, for SAVE
and for the BGSAVE child alike (`Saver`): unlink `<path>.tmp`, open it, write it in `Blocks`
pieces, rename it, and unlink it if anything failed. `tmp_file` is what has the temporary
name, `savers` how far each saver got and which file it has open, which may be one that
lost its name or became the RDB file meanwhile. The parent stands still during a SAVE
(`Running`), the child goes on. A file remembers for each piece the keyspace it was written
from, so that a short or a mixed one shows; what `rdb_load_file_at` makes of such a file is
`Loads`: a short one is dropped, as `server_load_persistence_at` does without a word, a mixed
one is dropped or loaded as a mixture. `overlap` and `rdb_overlap` are history: whether SAVE
and the child met, and whether they had when the RDB file was put in place. `StartBgsave`,
`ReapBgsave`, `StartRewrite`, `ReapRewrite` are the branches of the two `server_run_pending_*`
functions, with the guards as they stand there. `Restart` is `server_load_persistence_at`:
the RDB file, and the AOF over it. The mapping sends `durable` to what a
restart would load now.

**Replication.** An exchange of the replica is a variable of its own, `rpc`:
asked, answered (full, continue or error), lost. While it is not idle the
replica does nothing, since the call blocks its loop; that includes answering,
so two servers that were told to follow each other stop, in the model as in the
code. `Answer` is the master's whole decision. Each way to fail has an action,
and differs in what has been changed before it: `ApplyFullFails` changes
nothing but the link, `ReplayFails` leaves part of the increment in memory,
`PersistFails` all of it in memory and perhaps in the AOF. An id is the server, its life
and a time: `OpenId` the clock when the backlog was opened (`server.uya:2323`), `ResetId`,
at every REPLICAOF NO ONE of a life, the start time (614-617), which is read some lines later
(2338). Both are `now + port`, and mostly of one millisecond; then the first reset already
uses the opening id again. `same_ms` is whether they are, a choice that the first reset of a
life makes for the whole of it. `IdUsedOnce(m)` says that the id *m* has now stood for one
stream only in this life: no reset yet, or one whose id is not the opening one.

**Transactions.** `Execute` has one command for each *way of changing a key*
in the engine: overwrite, delete, rename, flush, set or remove a TTL, and the
lookup that deletes what it finds expired. `Touched` is
`engine_touch_watch_version` with its early return when nobody watches. EXEC is
taken apart into its check, each queued command, and its end, so that nothing
is atomic because the model says so: that other clients do not run in between
is what the single thread gives, and is the guard `Idle`. `SpecInPlace` adds
the commands that change an object without telling the engine.

**Clients.** The single thread is the whole difficulty of the state: from the
moment the loop polls a client's frame until the frame waits or returns, nothing
else runs. `at[c]` says where the frame of `c` is; a client is in `Running` when its
frame has the thread, and the actions of the loop and of the peers have the guard
`Idle`. The actions come in three groups. *Visits* of the loop, one for each of its
functions: `Accept`, `VisitBlocked`, `VisitBuffered`, `Readable`/`Writable` (an event
of a socket), `CloseIdle`. *Steps of a frame*, `server_client_async` from one wait to
the next: `Read`, the execution of a batch (`ExecuteInBatch`, `ExecuteLast`, `Block`),
what the executed requests want of the server (`ActPause`, `ActUnblock`, `ActKill`,
...) and `Reply`, which either leaves at once or waits for the peer. *The
environment*: requests arrive, peers leave, deadlines and pauses end. What peers do
while a frame runs is taken to happen between two polls, since a read may find any
part of it. The model of a read keeps `partial`, the half request at the end of the
buffer, because it is counted like a whole one. The counters `blocked_clients` and
`buffered_clients` are guards of the visits, as in the code: if one is too
low, somebody is never visited again. The order in which a round visits
the slots is left open, which only adds behaviours. Data is one list; PUSH, a pop
with a timeout and one without stand for everything that writes, blocks and unblocks.

**CommandMeta, Catalogue.** `CommandMeta` holds pure operators: `InferArity`, `InferFlags`,
`InferKeySpecs`, `ClassifyStatus`, `TargetVersion`, `ParseEntry` and `ScopeErrors` translate
the functions of those names (`ScopeErrors` is `parse_matrix` and `validate_entries`),
over pages that are records of the metadata fields that are read; `CallLengths` is the reference
the inferred arity is checked against. Arguments nest: what the code computes by recursion over
them is a recursive function over `Argument`, the argument nodes there are, and `ArgumentAssumption`
says that each is a record whose `Depth` is larger than that of what is nested in it, as in
every JSON document (TLC evaluates it over the arguments of the run, and `PagesAssumption`
over its pages: a title has a word, arguments are a list of nodes). The four hand-kept name
lists are CONSTANTS. `Catalogue`
is a state machine over one program counter: `TakeTask`, `FetchFails`,
`FetchRaises`, `FetchSucceeds` are the workers, `Collect` and `CollectFailure` what `as_completed`
hands over, `Drained` the end of the executor's `with` block, `SortEntries` the sort
after it, and then one action for each file that is written or removed. It takes
`Parse` and `Classified` as constant operators; `CommandCatalogue` states what needs
both modules.
A title is the sequence of its words, a file is the number of the run that wrote it
(`gen`, history) and what it holds. Both the filter of the links and the sort of the
entries are `Arranged`: position *n* of the result is the position of the source with the
*n*-th `Place` by the key, ties in their old order, which is what a stable filter or sort
leaves. `SitesAssumption` says that the entry of a page has the name of the page
(`parse_entry` takes it from there), and TLC evaluates it over all sites.

**Benchmarks.** A case is a sequence of steps (`script`), one for each statement of its
function that talks to a server, waits, or reads the clock; an action takes the step the
driver is at. The servers' steps (`Load`, `Flush`, `LinkUp`, `Poll`, `PollFails`, `LinkLost`)
are modelled from how the scripts observe them and from `server.uya`. A replica may lose its
link at any time, with the master up or down (`LinkLost`: a heartbeat, a full
synchronisation or an answer fails), and after a poll whose data it could not append or
fsync (`PollFails`); it is then configured and connects again by `LinkUp`. `Raise` is an
exception at any step, `StopProcess` and `CleanUp` the `finally`, `Killed` the end of the driver
without it. A write carries whether the run that is measured made it (`own`), because files with the
same names may be there from a killed one. A replay is a fold of `Written` over the writes
of a log. `AbsentAssumption` says that what stands for "no file" is none of the data (TLC
evaluates it). That a report is complete (`OneRowPerCase`) is said with a map from the cases
to their rows, in order, rather than by cutting the rows of one implementation out of the
report.

**PerfReports.** Figures are integers in the units the scripts print (requests per second,
hundredths, microseconds), with the rounding of each place: `int()` cuts, `:.2f` rounds, and
factors like 0.90 * 0.98 become 882 / 1000. `Statuses`, the guard and the matrix are the
judgements of `benchmark_v0_8_0.py` (with the default thresholds of the guard; lines 544-548
let the environment replace them), `GapRows` and `DebtQueue` those of
`report_v0_8_0_gaps.py`, `DocErrors` that of `verify_doc_truth.py`. Each program run is an
action, a benchmark is four (its baseline is read before it measures); between any two of
them sources and documents may change. A report of v0.1.0 has a row for ping only: the names
of its other cases are not those the other programs look for.

Conventions: a definition named after a bug it introduces (commented
"Mutation") is not part of any specification; it is the plausible slip of the
definition that follows it, and each checked property has one that breaks it.
History variables (`stream`, `ops`, `flushed`, `synced_ops`, `seen`, `rev`, `held`,
`sent`, `answered`, `carried_out`, `gen`, `own`, `since`, `overlap`, `rdb_overlap`) are
read by no guard except the bounds, and by `WaitAof` to keep it from
repeating itself.

---

## 3. The runs

Times are for two workers on a small machine.

| run | what it checks | bounds | states |
|---|---|---|---|
| `backlog` | `TypeOK`, `SliceIsRestOfStream`, `MemoryBounded`, `ImplementsStream` | window 3, compaction at 4, chunks of 0–2 bytes, 9 bytes per stream | 3,584 |
| `persistence` | `TypeOK`, `RestartRestores`, `ImplementsDurableStore`, with rewrites, crashes, shutdowns | 2 keys, buffer of 2 commands, 4 writes, 2 crashes | 430,228 |
| `persistence_live` | `OneChildAtATime`, `RdbIsSnapshot`, `BgsaveCompletes`, `RewriteCompletes`; BGSAVE, BGREWRITEAOF, SAVE, stalling clients | 1 key, 1 write, an RDB file of 2 writes, one request per batch | 135,034 |
| `replication` | `TypeOK`, `MissesRestOfStream`, `ReplicaAofHoldsData`, `CatchesUp` | 2 servers, window 2, 3 writes, 1 REPLICAOF NO ONE, 1 restart, 1 failure | 652,645 |
| `transactions` | `TypeOK`, `WatchersAreCounted`, `ImplementsDirtyKeys` | 2 clients, 2 keys, 3 commands, 2 per queue | 1,078,481 |
| `clients` | `TypeOK`, `CountersAgree`, `RequestsInOrder`, `CarriedOutOnce`, `PauseHolds`, `RequestsAnswered`, `BlockedClientsServed` | 2 clients, 3 requests of 8 kinds, 2 connections, a buffer of 2 requests | 196,111 |
| `catalogue` | `TypeOK`, `CatalogueFollowsIndex`, `ServedByItsPart`, `BuildableIsOneGeneration`, `ScopeGateAgrees`, `InferredMetaIsSafe`, `RunsEnd` | 10 sites of up to 3 links and one site for each of some 180 argument lists × 3 categories, 2 runs, 2 workers, 2 attempts, parts of 2 entries named in an alphabet of 2 letters | 258,155 |
| `benchmarks` | `SampleIsReal`, `SampleHoldsDataset`, `ReportIsComplete`, `NothingLeftBehind`, `RunsEnd` | 2 rounds per case, 2 runs of the drivers | 1,180,624 |
| `perf_reports` | `StatusesAgree`, `DebtIsQueued`, `GreenMeansCompared` | 4 programs run in any order, 2 report files, 4 cases, all combinations of 7 pairs of figures | 4,297,026 |
| `bgsave_duplicates`, `watch_in_place`, `pipelined_block` | one property each, violated: section 6 | | |

Why the bounds are enough for what is asked:

* *backlog.* The window is smaller than the compaction threshold, so all three
  branches of the trim occur, with chunks that overshoot either limit, and nine
  bytes take the buffer through two compactions. (The theorems remove the bounds.)
* *persistence.* Four writes fill the two-command buffer twice, so that a flush by
  overflow happens before, during and after a rewrite; with two keys a write to
  one can be lost while the other's is kept, which one counter could not tell.
  Two crashes allow a rewrite, a crash, and a crash of what was recovered.
  BGSAVE is left out of this run because section 6 is about what it breaks;
  `persistence_live` has it, together with SAVE. There one write tells a snapshot from the
  next, and two writes of an RDB file are a file that is begun and one that is whole.
* *replication.* With a window of 2 and 3 writes a replica can be inside,
  at the edge of and outside the window. One restart and one reset give every
  combination of roles; one failure can strike any exchange. The reset may draw the id the
  server opened with or another (`same_ms`). `MissesRestOfStream` and `CatchesUp` speak of
  masters with `IdUsedOnce`; of the others they are false, at the first reset (section 6).
* *transactions.* Two clients are one who watches and one who disturbs, each
  of which can be either; two keys are needed for RENAME and for a change
  of a key that is not watched. The sets of clients and keys are symmetric,
  and the run has no liveness property, so symmetry is sound.

* *clients.* One client blocks, pauses or reads slowly while the other pushes,
  unblocks or kills it; three requests are a block, something that meets it, and
  something behind it in the same buffer. A buffer of two is filled by the blocked
  request and the input behind it. (The `Close` in `VisitBlocked`, for a request that does
  not fit, is the code's error path. It is never taken: `TypeOK` bounds the two together,
  and `BlockedGoesBack` proves it.) Two connections let a slot be used again by a client
  the first one left a pause for. Only pushes are sent behind unanswered requests (`Pipelined`):
  a pop behind another request is what `pipelined_block` is about, and an UNBLOCK that fails
  behind one loses replies (`server.uya:2064`, section 7); either breaks
  `CarriedOutOnce` or `RequestsInOrder` for a reason of its own.

* *catalogue.* Two runs are one that leaves files and one that meets them; three links with
  parts of two give a full part, a partial last one, and a second run with more or fewer
  parts than the first. Two workers finish in either order, two attempts are a failure with
  and without another try. The names of the alphabet of two letters change their length
  twice below `MaxParts`. The argument lists nest to depth two with every type, token,
  optional and `multiple`, which is where the recursion differs from a count.
* *benchmarks.* Two rounds let a sample meet the files of the round before it, two runs of a
  driver those of one that was killed. A dataset is a first and a last key, enough to tell a
  prefix of the AOF from the whole.
* *perf_reports.* Four programs are the longest chain that matters: a benchmark, the
  documents edited after it, another change, the check. The seven pairs put a figure above,
  at and just below each threshold, without Redis and with a zero; all combinations over the
  four cases let every item of the queue compete with the others.

Deadlock is checked except in `backlog`, `clients`, `catalogue`, `benchmarks`,
`perf_reports` and the replication runs. There a behaviour may really stop: the last run
of a script has ended, all requests of the bound are answered, the bounded stream of the
backlog is full on a server that nobody resets, and two servers told to follow each
other are both blocked in a call for ever.

`ConfirmedWritesSurvive` in `Persistence` (what WAITAOF confirmed survives a
power failure) is part of no run, since it does not hold of the code: see sections 5 and 6.

---

## 4. Fairness

* `Persistence!FairSpec`: strong fairness of the reaping and starting actions,
  because the loop calls both functions in each iteration, between the commands: a SAVE,
  during which the loop does nothing else, only puts them off. Weak fairness of
  a running SAVE, and of each
  child's end, because a child writes a file and exits or is killed. None of
  clients: a client may stop reading for ever. A rewrite does not start while
  any client has unsent output, so `RewriteCompletes` is about behaviours in
  which they eventually read; `BgsaveCompletes` needs no such condition.
* `Replication!FairSpec`: weak fairness of a server's replication step (it is
  tried in each iteration, by timer) and of the answer (the master's loop serves
  the socket). A server that is blocked in a call is not expected to answer.
  None of clients, operators, failures or restarts. `CatchesUp` is conditional
  on the two servers keeping their roles; "in the end" is when the bounded
  writes and failures are over.

* `Clients!FairSpec`: weak fairness of the running frame (it has the thread);
  strong fairness of `Attend(c)`, for each client, because every round of the loop
  looks at every blocked and buffered client and epoll is level-triggered, but
  others run in between and may disable the visit for a while; of `TimePasses`,
  because pauses and deadlines end. None of peers: nobody has to send,
  read or leave. `RequestsAnswered` therefore excepts a client whose peer does not
  read and one that waits for an item without a timeout. `CloseIdle` and the
  failures have no fairness either.

* `Catalogue!FairSpec`: weak fairness of "a worker or `main` takes a step", for the threads
  run and every request has a timeout. Nobody has to start or interrupt a run; that
  `RunsEnd` holds all the same is the bound on the attempts.
* `Benchmarks!FairSpec`: weak fairness of the driver's step, which includes `Raise`, since
  every wait has a deadline. None of the servers: they may never load, flush or connect, and
  a run ends by its deadlines.
* `PerfReports` has no liveness property: nobody has to run these programs.

---

## 5. The proofs

All theorems are about every value of the constants that satisfies the named
`ASSUME` of the module: any set of bytes, keys, clients, servers or links, any window,
threshold, bound. Where a theorem has a further hypothesis it is in its statement, is met by the
run that checks the property (`ConfirmedWritesSurvive`, which no run checks, apart), and is
needed: a run or a kept configuration shows what happens without it.

| hypothesis | of | without it |
|---|---|---|
| `NobodySaves`: no SAVE, no BGSAVE | restarts and the refinement of `Persistence` | `bgsave_duplicates`, `MCSaveRestart.cfg`: a restart counts commands twice |
| `NoneConfirmedDuringRewrite`: no WAITAOF is answered while a rewrite child runs | `ConfirmationsHold` | `MCPowerFailure.cfg`: a power failure takes a confirmed write |
| `~rdb_overlap`: the save that put the RDB file in place met no other (in `RdbIsSnapshot`) | `RdbIsOneMoment` | `MCSaveMeetsBgsave.cfg`: the RDB file is short or of two moments |
| `crashes = 0`: the process has not ended (in `RdbIsSnapshot`, for "a state the server was in") | `RdbIsOneMoment` | a restart makes the state of the AOF the history, and the RDB file may be ahead of what the AOF kept |
| `IdUsedOnce(m)`: the id of the master has stood for one stream in its life (in the properties) | streams of `Replication` | `MCReplidReuse.cfg`: two streams have one id |
| `NothingWaitsPipelined`: no blocking request or UNBLOCK behind an unanswered one | order of requests of `Clients` | `pipelined_block`: requests are executed twice |

**`Backlog_proofs`.** The invariants of the runs are not inductive: the window
says nothing of the contents of the buffer. `IInv` adds that the offset is the
length of the stream, that the dead prefix is inside the buffer and below the
threshold, that the live part is within the limit and no longer than the
stream, and that byte *i* of the live part is the byte of the stream at the
computed offset. `MemoryIsBounded` is the physical bound: between two operations the buffer
with its dead prefix is shorter than size limit and compaction threshold together, five
windows with the program's 16384 and 65536 bytes. `TrimmedKeepsTail` says of the
three branches of the trim at once that what stays live is the tail of what was live; with it
`AppendIInv` is the only step that needs an argument. From `IInv` follow `TypeCorrect`,
`MemoryIsBounded`, `SliceIsCorrect` (that two suffixes agree because their bytes
do) and `BacklogImplementsStream`, for which `AppendMovesFirstOffset` shows
that the computed first offset moves exactly as the window of the abstract stream.

**`Persistence_proofs`.** `OneChild`: a BGSAVE child and a rewrite child never
exist together, though both may be requested in one batch. `ChildInv` adds that
the phases are phases. The argument is the crossed guards of the two start
actions; the other steps only move a phase forward (`PhaseStep`). What this buys:
a BGSAVE child that flushes an inherited buffer flushes it into the AOF it was
forked with, never into one a rewrite has put in its place.

What a restart loads is a fold over the log, and the library's induction theorems cannot be
instantiated here (they take an operator as a parameter). That the naturals are well-founded
can be cited without one, and gives `LeastElement`: a set of numbers that is not empty has a
least one. With it `FoldExists` shows that the recursive function behind `FoldLeft` is what
its equation says, and `ReplayAppend`, that replaying one command more is applying it to
what the others gave. `StoreInv` is then three statements beside the types. `LogsAreMemory`:
replaying the file and the buffer gives the dataset, and while a rewrite runs, so does
replaying the child's snapshot and the rewrite buffer. `HistoryIsKept`: the dataset is the
result of all writes so far, and what is in the file that of those counted as flushed.
`LogOnly`: with nobody saving there is neither an RDB file nor an inherited buffer.
`RestartRestores` alone is not inductive, since it says nothing of the rewrite buffer before
the reaping swaps the files. From `StoreInv` follow `RestartsRestore`, `LogHoldsHistory`
(the property `bgsave_duplicates` violates with one BGSAVE) and, action by action,
`PersistenceImplementsStore`. `RdbIsOneMoment` is about SAVE, BGSAVE and their files. `WritingInv`
says which file a saver has open and what is in it: as long as the two have not met
(`Meeting`), a saver that writes has the temporary name, and the file there holds just the
blocks it has written of its own snapshot (`Partial`); a file that is open under the RDB
file's name, or one of two authors, exists only after a meeting. So what is renamed into
place is whole, wherever a save failed or was killed before. `SnapshotInv` adds that this
snapshot, like the keyspace, is a state the server was in at one moment.

A power failure leaves some prefix of the AOF, at least what was fsynced. `LogFollows(a, c)`
says of a file that each of its prefixes of `c` commands or more restores a moment of the
history from `a` on, that the buffer holds the commands that follow the file (`Follows`), and
that a running rewrite has a snapshot of a moment not before `a` and all commands since. It
is kept by every step (`FollowsStep`), and swapping the files gives it for `c = 1`, the
snapshot (`FollowsSwap`); `FollowersReplay` is the lemma about sequences behind both. With
`a = c = 0` it is `PowerFailureRestoresAMoment`: what is left is never a mixture, a write
twice, or a gap. With `a = synced_ops` and `c = aof_synced` it says that confirmed writes are
in every such prefix, and one step breaks it: a WAITAOF during a rewrite moves `a` past the
snapshot, and when the files are swapped only the snapshot is fsynced. `ConfirmationsHold`
proves `ConfirmedWritesSurvive` of the behaviours without that step
(`NoneConfirmedDuringRewrite`), so that it is the only way to lose a confirmed write.

**`Replication_proofs`.** `ReplicaInv` is the types, `ReplicaAofHoldsData`, and
`ExchangesAreInOrder`: what a replica may be doing while an exchange is where it is. It
gives `ReplicationTyped` and `ReplicaAofIsDurable`. `MissesRestOfStream` is about connected
replicas only, and not inductive, because the answer that will connect one is under way
while the master goes on, or stops being master. `AnswersFit` says of every pair of servers,
by the *id* they name and not by who follows whom, that the data, the snapshot and the delta
fit the stream of that id (`DataFits`, `SnapshotFits`, `DeltaFits`); `IdsAreMinted` says
that an id nobody minted is held by nobody, so that a new stream under it fits everything
(`NewIdFits`). `AnswersFit` is claimed of the masters with `IdUsedOnce` alone: a reset that
draws an id for the second time ends the claim for that server (`PromotionIdIsMinted`) and
for no other, and a restart brings it back. `ReplicaMissesOnlyTheRest` and
`IdAndOffsetNameADataset` (two servers with the same id and offset hold the same data) follow.

**`Clients_proofs`.** For every choice of requests and clients: `ClientsTyped`;
`CountersAreRight`, that `blocked_clients` and `buffered_clients` are the numbers of the
clients they count in every state, in the middle of a frame too; `PauseIsHeld`. `ClientsInv`
adds that one frame runs at a time (`OneRuns`), what a closed or blocked slot keeps
(`SlotsAreClean`), what is left of a call between two polls (`CallsAreInOrder`), and that a
held client whose frame is about to run has nothing the pause is about. `OneMore`, `OneLess`
and `ShiftCounts` say how a cardinality changes when one client changes, and each step of
the counters is one of them. With `NothingWaitsPipelined`, `OrderInv` adds that a blocked
request is one request and that the calls have carried out exactly what they will answer
(`CarriedOutAhead`): `RequestsStayInOrder`, `AnsweredIsCarriedOut`, and `NothingIsRepeated`,
the property `pipelined_block` violates.

**`Transactions_proofs`.** `TxInv` strengthens the type invariant and the count of
watchers with `Registered` (a client is counted iff it watches) and
`VersionsAreOld` (no version, kept or remembered, is ahead of the sequence, so
the next one is new). `CommandEffect` reduces all commands to one fact: what a
command changes, it touches. `TransactionsImplementDirtyKeys` then maps
every step: a touch makes the key's version differ from every remembered one,
and while `watch_clients` is 0 nobody watches, so nothing that is skipped could
have been noticed. `NoStaleTransaction` proves `WatchedKeysUnchanged` of `Spec`;
the run `watch_in_place` shows it false of `SpecInPlace`. Together they say
that the in-place commands are the *only* way around WATCH.

**`Benchmarks_proofs`.** The four safety properties, for every number of rounds and of runs. None is
inductive: a sample is one state, and what it shows was made sure of up to fifteen steps earlier,
while servers loaded, flushed, polled and lost their link in between.

* The scripts are sequences put together from others (`PopulateDataset`, `Pair`), so they
  are first written out, step by step (`SaveSteps`, ..., `ReconnectSteps`); what all have in
  common is in `Course`.
* `DriverInv` = `ControlInv` (the driver is at a step of a case that exists) and
  `RunningInv` (which servers run there: no replica before its step, no server after its
  part of the `finally`, no snapshot after a persistence run) and `NothingLeftBehind`
  itself, which follows (`NothingIsLeftBehind`).
* `ReportInv`: the lines are those of the jobs done, one for each, so that a report is those
  of all jobs; the rest is the arithmetic of `(job - 1) // len(impls)`
  (`ReportsAreComplete`).
* `WordsInv`: no snapshot holds the word the reconnect case waits for, and before the last
  write no log of the run's own does. Without it a replica could already have the value, and
  the sample would measure nothing. A log that a killed run left may have it: hence `OldLog`
  in `SampleIsReal`.
* `TableInv`: for each case a table by step of what has happened since the clock was read,
  what the link is, and whether the pair agrees. `Turns` says what a driver's step changes;
  a `...Turn` lemma carries each table over the driver's steps, an `...Aside` lemma over the
  servers'. `Saw(what)` is that all of `what` has happened and nothing else but a link that
  was lost by itself, `Reached` that what was set came to the replica, by a poll or with the
  link that was made again. The line that matters is the one of the reconnect after
  `disconnected`: from there the link can only be up again by a `linked` that counts.
  `SampleIsReal` therefore has two cases: exactly what was meant, or all of it and a
  disturbance (`Disturbed`, `Meant`), since a driver that polls cannot see a link that was
  lost and made again between two looks. `SamplesAreReal` is the
  last line of each table.
* `KeptInv`: the same for the data. While the first server runs, its log and its buffer
  together are the planned writes so far (`Wrote`); after SIGTERM the log is a prefix of the
  plan (`Kept`); a restart that holds the *last* key was made from the whole of it
  (`AllOfTwo`, `AllOfFive`: the last key is in no shorter prefix, with a snapshot under it
  or without). With Redis nothing is lost but older writes may be there, so that the claim
  is `Keeps` instead of equality (`RedisData`). It gives `SamplesHoldTheDataset`.

What a replay computes is a fold over a set of positions, without an equation for sequences.
`FoldExists` gives the recursive function behind it one, by induction on the well-founded
order of the naturals, as in `Persistence_proofs`; `ReplayedTraces` then says that a replay
is the last of a sequence of states, each the one before with one write (`Traces`), and
`ReplayedAppend` and `ReplayedIn` (what every write keeps, a replay keeps) are what the rest
uses.

**`Catalogue_proofs`.** Five invariants. `GenInv` follows `gen`
through the program: whatever is in the parts is of one run, because the old ones are all
gone before the first new one is written, and each file that this run has passed carries its
number (`PartsAreNeverMixed`). `TypesInv` bounds the attempts and says that what is
collected are entries of pages that had metadata (`CatalogueTyped`). `LayoutInv` says that
the parts on disk are the slices of the entries written so far, under their names. Names are
a recursive function; `LabelsDiffer` shows that no two numbers have one name, for every
alphabet, by a least counterexample over its equation (`LabelUnfolds`, itself proved, not
assumed). With `PartBounds`, the arithmetic of `part_count` and of the index, follow
`BuildableSourcesAgree` and `EveryIndexIsServed`. `OrderInv` is about a function that
exists, `Origin`: it takes each entry to the link it was made of, is one to one, and reaches
exactly the links that are no longer waiting. A worker's result extends it by one, and the
sort permutes it (`ArrangedByKey`: the places of `Arranged` are a permutation, by keys that
do not decrease). When all is collected it is a bijection, hence the lengths agree; when
each name is one link's, its values do not decrease, and such a bijection is the identity
(`AscendingIsIdentity`): `WrittenInIndexOrder`.

What is derived of one page recurses over its arguments, and TLA+ does not promise that such
an equation has a solution. `Recursion` proves it once, for any rule whose value of a node
needs only the values of nodes of smaller rank: solutions on the nodes below each rank exist
and agree. `MinTokensUnfolds`, `IsVariableUnfolds` and `LengthsUnfolds` are the equations of
the three functions, with `Depth` as the rank. `FewestWords` says, by the same induction,
that every number of words an argument can take is at least what the generator counts for
it, and the only one if the argument is not variable; `LeastSum` and `SingleSum` carry that
through the sum over a list, `InferredArity` to the call. `WritesAreMarked` is the part about
keys, and `InferredMetadataIsSafe` both, of every page a run collects. `GateInv` says that
the matrix on disk is `MatrixRow` of pages that were in an index, and after a run that ended
well of exactly its pages. `RowsAreClean` goes through the checks of the gate: of such rows
it can only report that there are none, a name that occurs twice and a deferred command of
tier A
(`GateAgreesWithGenerator`).

**`PerfReports_proofs`.** `PerfInv` says of every report on disk that each of its rows is
what `Row` makes of some figures (`GoodReport`), of the gap report that it was made of such
a report, and of a verdict without errors that it was reached over one in which nothing was
wrong. It is kept by every program and every edit (`PerfStep`), so that the three properties
are facts of a single row: `StatusOfRow` compares the thresholds of the two judges with
their rounding, `PassMeansCompared` takes the guard apart, `WorstIsSlowest` shows that
`Slower` has a minimum among two cases (`QueueKnowsTheWorst`, of the cases the code queues:
a critical PING and a SET in watch it does not). The assumption is `FiguresAssumption`: redis-uya is
always measured, and figures are naturals (TLC evaluates it; that sorting samples yields one
of them is not proved).

Only model-checked: liveness and fairness, which are out of the prover's reach. Every safety
property of the passing runs is a theorem, `RestartRestores`, the refinement and
`RdbIsSnapshot` under the hypotheses of the table above; without them `RestartRestores` and
`ConfirmedWritesSurvive` are false.

---

## 6. Disagreements with the documentation

Three are runs of their own whose counterexample follows the code; `PROJECT.json`
quotes the lines of the documents.

* `bgsave_duplicates` – BGSAVE forks without flushing the AOF buffer, the child
  closes the inherited writer, which flushes the copy: the commands are in
  the file twice. BGREWRITEAOF flushes first.
* `watch_in_place` – LPUSH on an existing list touches no version.
* `pipelined_block` – a request that blocks behind others of its batch: the whole
  batch is kept as the blocked request, its replies are dropped, and every iteration of
  the loop executes the requests in front of the blocking one again.

The models show more, which no document contradicts in so many words. The
configurations are kept and are run by hand, `tlc -config X.cfg M`:

* `MCSaveRestart.cfg` (`MCPersistence`) – the RDB file is loaded and the *whole* AOF
  replayed over it, although SAVE leaves the AOF alone: what is not idempotent counts
  twice, and `RestartRestores` fails.
* `MCPowerFailure.cfg` (`MCPersistence`) – a write, a WAITAOF that confirms it while a rewrite
  child runs, the swap of the files: the new file was fsynced before the rewrite buffer was
  appended to it, and `ConfirmedWritesSurvive` fails (`server.uya:2482` to 2519).
* `MCMutualWait.cfg` (`MCPersistence`) – BGSAVE and BGREWRITEAOF accepted in one batch
  (`MaxBatch = 2`) each wait for the other's request to go away.
* `MCSaveMeetsBgsave.cfg` (`MCPersistence`) – SAVE does not ask whether a BGSAVE child runs
  (`command/executor.uya:19538`), and both write `<path>.tmp`. While SAVE writes, the child
  unlinks its file and opens a new one; SAVE renames that one, empty so far, and answers OK:
  the RDB file is not a whole dump (`RdbIsWhole`, eleven states). If the server dies then, it
  starts without the snapshot, and says nothing (`server.uya:1318-1326`).
* `MCReplidReuse.cfg` (`MCReplication`) – a reset starts a stream at offset 0 under an id
  derived from the start time and the port only, mostly the very id the server opened with.
  After one REPLICAOF NO ONE (`MaxResets = 1`) offsets of the earlier stream pass for
  offsets of the new one: a replica that followed before is answered CONTINUE, gets the new
  stream's bytes or none, and lacks what lies between. `EveryIdNamesData`, which is
  `SameOffsetSameData` without `IdUsedOnce`, fails.
* `MCAbsoluteGreen.cfg` (`MCPerfReports`) – the guard's column "throughput" says pass when the
  rate *or* the rate relative to Redis is kept, and the document check, whose error speaks
  of the absolute throughput guard (`scripts/verify_doc_truth.py:157`), takes either.

Disagreements that no run shows yet (a rewrite on a replica loses increments, a
CLIENT UNBLOCK that fails replaces replies of its batch, ...) are among the hazards
or in section 7. What modelling the scripts brought up, beyond their properties:

* *Catalogue.* 19 names are in the full and in the partial list, and partial wins. The group
  "acl" is in no tier. A mandatory argument with a token is counted as one word, one that
  may be repeated as none, and a title of several words as one, so that an inferred arity
  understates, which is why `InferredMetaIsSafe` bounds it from one side only. The wrapper
  is written before the old parts are removed: an interruption between the two (lines
  1425–1427) leaves a new wrapper over old parts, which builds, and of which
  `BuildableIsOneGeneration` says that it is at least no mixture of parts. When
  `render_docs` raises, new sources stay beside an old matrix which the scope gate passes.
* *Benchmarks.* redis-uya has no handler for SIGTERM, so that what its AOF buffer holds is
  lost at the restart the driver makes: a recovery can fail for no fault of recovery, and a
  reconnect may silently lose writes. All servers of redis-uya started from one directory
  share `build/dump.rdb`. The persistence driver removes the AOF by the name Redis used
  before version 7. The first servers of a run are started before its `try`. The check of
  the mixed recovery asks only for keys the AOF holds, and would pass without the RDB file.
  Of three runs, p50, p95 and p99 are one number. A
  link that is lost and made again during a measurement is in the sample, unnoticed.
* *PerfReports.* Without a baseline the guard is skipped and the exit code is 0. A report is
  written although its guard missed. A rate may pass the floor and still be critical, since
  the floor is cut to an integer. A critical PING gets no item in the queue. `50000` is
  looked for as a substring. A gap report is not compared with the report it was made of.
  The first benchmark compares redis-uya with an AOF to a Redis without one.

---

## 7. What is not modelled, and why

* Allocation failure, formatting, logging, the encoding of files: no property is about them.
* A torn write: the AOF of the model is cut between commands only.
* A kill takes the children with it. A child that outlives a killed parent is left out; a
  BGSAVE child among them, which goes on writing `<path>.tmp` beside the next server's saves.
* A rewrite child writes its file in one step: its temporary file has one writer at a time as
  long as `waitpid` succeeds (section 8).
* Write errors of the AOF (the command is then executed but not logged), a rewritten AOF
  that is renamed but cannot be opened, a `waitpid` that fails: section 8.
* Time: a key with a TTL may be found expired at any lookup; timers of retries may fire at
  any moment.
* Online replicas with ACK and FACK, and the second command form, SYNC.
* Six behaviours of the server that were met while modelling and that no property covers:
  the socket of a blocked client is not read, so its leaving is noticed late
  (`server.uya:2679`); REPLICAOF takes effect after the batch it is in (2038); a failing
  CLIENT UNBLOCK overwrites output of its batch (2064); a transaction is appended to the AOF
  command by command without MULTI and EXEC around it (`network/connection.uya:13444`); a
  rewrite may write a command longer than the 16384 bytes a replay reads
  (`persistence/aof.uya:1285`); a deadline outlives an early refusal
  (`network/connection.uya:11918`).
* Of the generator: `subcommands`, `build_info_value` and the encoders (they are derived and
  not used, or formatting), the four name tables entry by entry, a write that is cut off in
  the middle of a file, `oneof` and `block` arguments that lack the field `arguments` (a list
  without nodes is modelled).
* Of the drivers: the RESP exchange itself, ports taken between being found and being bound,
  a pipe of a server that nobody drains. Of AOF files that are left over, the replication
  driver's own are excluded (`OldLog`) when `SampleHoldsDataset` is stated, as its names are
  new but for a reused port.
* Of the drivers' replicas: a replay that breaks off half way. The increments of the drivers
  are one command long: none of it (`LinkLost`) or all of it (`PollFails`) is in the data.
* Of the reports: the requests of a case, CPU and latency percentiles other than p99,
  formatting of the tables, thresholds set by the environment.
* Everything whose row in `PROJECT.json` says `not_modelled`; for sequential code behind one
  call (containers, parsers, tables) unit tests do as well.

---

## 8. Plan

In this order:

1. `Keyspace` – typed values in dict, expires and versions, active expiry, eviction, one
   action per family of commands, with what each appends. Properties: replaying what was
   appended gives the same data; no empty containers; an expired key is removed in the end.
2. `Clients`, extended – replies sent from stored values, pipelined UNBLOCK, deferred
   REPLICAOF, and with them the composition with `Replication`.
3. `Dict` – operations between rehash steps refine a plain map; iteration misses nothing.
4. `Acks` – WAIT and WAITAOF against the real positions of the replicas.
5. `Persistence` – a power failure as an action, write errors, failed opening
   after the rename, backup capture as a second increment, a rewrite on a replica.
6. The rest of the scripts – the RESP encoders and probes of the drivers, the io_uring
   evaluation.
7. Proofs – the refinement of `Dict`, when there is one.
