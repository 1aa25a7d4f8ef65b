----------------------------- MODULE Benchmarks -----------------------------
(***************************************************************************)
(* scripts/benchmark_persistence_v0_3_0.py and                             *)
(* scripts/benchmark_replication_v0_4_0.py: a driver starts servers, sends *)
(* them commands, waits with deadlines for what it measures, takes a       *)
(* sample, and in `finally' stops the servers and removes their files; a   *)
(* report is written when all cases are done.  The servers run beside it:  *)
(* they load, flush, synchronise and lose their link when they please.     *)
(*                                                                         *)
(* A case is the sequence of steps of its function (script); an action     *)
(* takes the step the driver is at.  A write carries a word for its value  *)
(* and whether the run being measured made it (`own', history): what an    *)
(* earlier, killed run left in files is not its own.                       *)
(***************************************************************************)
EXTENDS Integers, Sequences, SequencesExt, Folds

CONSTANTS
    Absent,     \* no file, no key
    Rounds,     \* REDIS_UYA_PERSIST_BENCH_RUNS, REDIS_UYA_REPL_BENCH_RUNS
    MaxMains    \* bound: how often a driver is started

ASSUME BenchmarksAssumption == Rounds \in Nat \ {0} /\ MaxMains \in Nat

VARIABLES
    pc,         \* idle, job, finally or next
    suite, impls, job, step,    \* the driver, what it measures, where it is
    raised,     \* an exception is on its way out
    proc,       \* role -> none, loading or up
    store,      \* role -> the data in memory
    log, buf,   \* the AOF of the master on disk, and what it has not flushed
    rdb,        \* build/dump.rdb, which all servers of redis-uya share
    left,       \* impl -> the AOF an earlier run left
    link,       \* the replica's: none, configured or connected
    since,      \* history: what happened since the clock was read, or Off
    sent,       \* history: what this run wrote
    samples, lines, report, outcome, mains

driver == <<pc, suite, impls, job, step, raised, samples, lines, report, outcome, mains>>
servers == <<proc, store, log, buf, rdb, left, link>>
history == <<since, sent>>
vars == <<driver, servers, history>>

Keys == {"first", "last", "key", "extra"}
Words == {"x", "base", "newer", "value", "after"}
Entry == [word : Words, own : BOOLEAN]
Data == [Keys -> Entry \cup {Absent}]
Roles == {"server", "replica"}
Empty == [k \in Keys |-> Absent]
Off == {"off"}

ASSUME AbsentAssumption == Absent \notin Words \cup Entry \cup Data

-----------------------------------------------------------------------------
(* The functions of the cases, step by step. *)
Do(what) == [do |-> what]
Start(role, how) == [do |-> "start", role |-> role, how |-> how]
Set(key, word) == [do |-> "set", key |-> key, word |-> word]
WaitValue(word) == [do |-> "value", word |-> word]
Check(keys, words) == [do |-> "check", keys |-> keys, words |-> words]

PopulateDataset == <<Set("first", "x"), Set("last", "x")>>
PopulateMaster == PopulateDataset \o <<Set("key", "value")>>

SaveOnce ==
    <<Start("server", "fresh")>> \o PopulateDataset \o <<Do("clock"), Do("save"), Do("sample")>>

(* Mutation: the first key is asked for, which is in every prefix of the   *)
(* AOF.                                                                    *)
RecoveryAofAsksForFirst ==
    <<Start("server", "fresh")>> \o PopulateDataset \o
    <<Do("stop"), Do("clock"), Start("server", "existing"), Check(<<"first">>, <<"x">>),
      Do("sample")>>

RecoveryAofOnce ==
    <<Start("server", "fresh")>> \o PopulateDataset \o
    <<Do("stop"), Do("clock"), Start("server", "existing"), Check(<<"last">>, <<"x">>),
      Do("sample")>>

RecoveryRdbAofOnce ==
    <<Start("server", "fresh")>> \o PopulateDataset \o
    <<Set("key", "base"), Do("save"), Set("key", "newer"), Set("extra", "value"),
      Do("stop"), Do("clock"), Start("server", "existing"),
      Check(<<"key", "extra">>, <<"newer", "value">>), Do("sample")>>

Pair == <<Start("server", "scenario"), Start("replica", "scenario")>>

FullSyncOnce ==
    Pair \o PopulateMaster \o
    <<Do("clock"), Do("replicaof"), Do("connected"), WaitValue("value"), Do("sample")>>

IncrementalSyncOnce ==
    Pair \o PopulateMaster \o
    <<Do("replicaof"), Do("connected"), WaitValue("value"),
      Do("clock"), Set("key", "newer"), WaitValue("newer"), Do("sample")>>

(* Mutation: nobody waits until the replica has noticed.                   *)
ReconnectWithoutNotice ==
    Pair \o PopulateMaster \o
    <<Do("replicaof"), Do("connected"), WaitValue("value"),
      Do("stop"), Do("clock"), Start("server", "existing"),
      Do("connected"), Set("key", "after"), WaitValue("after"), Do("sample")>>

ReconnectOnce ==
    Pair \o PopulateMaster \o
    <<Do("replicaof"), Do("connected"), WaitValue("value"),
      Do("stop"), Do("disconnected"), Do("clock"), Start("server", "existing"),
      Do("connected"), Set("key", "after"), WaitValue("after"), Do("sample")>>

PersistenceCases ==
    <<[name |-> "save", script |-> SaveOnce],
      [name |-> "restart_recovery_aof", script |-> RecoveryAofOnce],
      [name |-> "restart_recovery_rdb_aof", script |-> RecoveryRdbAofOnce]>>
ReplicationCases ==
    <<[name |-> "full_sync", script |-> FullSyncOnce],
      [name |-> "incremental_sync", script |-> IncrementalSyncOnce],
      [name |-> "reconnect_recovery", script |-> ReconnectOnce]>>

CasesOf(s) == IF s = "persistence" THEN PersistenceCases ELSE ReplicationCases
Cases == CasesOf(suite)
(* The jobs of main: every case for redis-uya, then for Redis if it is     *)
(* installed.                                                              *)
Case == Cases[((job - 1) \div Len(impls)) + 1]
Impl == impls[((job - 1) % Len(impls)) + 1]

-----------------------------------------------------------------------------
(* Files and servers. *)
Written(data, w) == [data EXCEPT ![w.key] = [word |-> w.word, own |-> w.own]]
Replayed(writes, over) == FoldLeft(Written, over, writes)

(* redis-uya loads the RDB file of its directory and the AOF over it;      *)
(* Redis, with appendonly, only its AOF.                                   *)
Recovered(writes) ==
    Replayed(writes, IF Impl = "redis-uya" /\ rdb # Absent THEN rdb ELSE Empty)

Foreign(writes) == [i \in DOMAIN writes |-> [writes[i] EXCEPT !.own = FALSE]]
ForeignData(data) ==
    IF data = Absent THEN Absent
    ELSE [k \in Keys |-> IF data[k] = Absent THEN Absent ELSE [data[k] EXCEPT !.own = FALSE]]

(* What cleanup() of the driver removes.  Redis keeps its AOF in           *)
(* appendonlydir, of which only the replication driver knows.              *)
CleanupRemovesLog == suite = "replication" \/ Impl = "redis-uya"
CleanupRemovesRdb == suite = "persistence" /\ Impl = "redis-uya"
Cleanup ==
    /\ log' = <<>>
    /\ left' = IF CleanupRemovesLog THEN left ELSE [left EXCEPT ![Impl] = log]
    /\ rdb' = IF CleanupRemovesRdb THEN Absent ELSE rdb

Happened(events) == since' = IF since = Off THEN Off ELSE since \cup events

(* What the servers do on their own. *)
Load(role) ==
    /\ proc[role] = "loading"
    /\ proc' = [proc EXCEPT ![role] = "up"]
    /\ store' = [store EXCEPT ![role] = Recovered(IF role = "server" THEN log ELSE <<>>)]
    /\ UNCHANGED <<driver, log, buf, rdb, left, link, history>>

Flush ==
    /\ proc["server"] = "up" /\ buf # <<>>
    /\ log' = log \o buf /\ buf' = <<>>
    /\ UNCHANGED <<driver, proc, store, rdb, left, link, history>>

LinkUp ==
    /\ link = "configured" /\ proc = [r \in Roles |-> "up"]
    /\ link' = "connected" /\ Happened({"linked"})
    /\ store' = [store EXCEPT !["replica"] = store["server"]]
    /\ UNCHANGED <<driver, proc, log, buf, rdb, left, sent>>

(* Also the master that was started again: PSYNC with its old replid is    *)
(* answered by a full resynchronisation, and the state stays `connected'.  *)
Poll ==
    /\ link = "connected" /\ proc = [r \in Roles |-> "up"]
    /\ store["replica"] # store["server"]
    /\ store' = [store EXCEPT !["replica"] = store["server"]]
    /\ Happened({"polled"})
    /\ UNCHANGED <<driver, proc, log, buf, rdb, left, link, sent>>

(* What the poll brought is in the data, but not in the replica's AOF.     *)
PollFails ==
    /\ link = "connected" /\ proc = [r \in Roles |-> "up"]
    /\ store["replica"] # store["server"]
    /\ store' = [store EXCEPT !["replica"] = store["server"]]
    /\ link' = "configured" /\ Happened({"polled", "lost"})
    /\ UNCHANGED <<driver, proc, log, buf, rdb, left, sent>>

(* A heartbeat or a poll fails, whether the master is up or not.           *)
LinkLost ==
    /\ link = "connected" /\ proc["replica"] = "up"
    /\ link' = "configured" /\ Happened({"lost"})
    /\ UNCHANGED <<driver, proc, store, log, buf, rdb, left, sent>>

ServerStep == (\E r \in Roles : Load(r)) \/ Flush \/ LinkUp \/ Poll \/ PollFails \/ LinkLost

-----------------------------------------------------------------------------
Init ==
    /\ pc = "idle" /\ suite = "none" /\ impls = <<>> /\ job = 1 /\ step = 1 /\ raised = FALSE
    /\ proc = [r \in Roles |-> "none"] /\ store = [r \in Roles |-> Empty]
    /\ log = <<>> /\ buf = <<>> /\ left = [i \in {"redis-uya", "redis"} |-> <<>>]
    /\ rdb \in {Absent, [Empty EXCEPT !["key"] = [word |-> "value", own |-> FALSE]]}
    /\ link = "none" /\ since = Off /\ sent = Empty
    /\ samples = 0 /\ lines = <<>> /\ report = [s \in {"persistence", "replication"} |-> Absent]
    /\ outcome = "none" /\ mains = 0

(* main.  The ports are new, but may be those of a run whose files are     *)
(* still there.                                                            *)
Main(s, i) ==
    /\ pc = "idle" /\ mains < MaxMains
    /\ pc' = "job" /\ suite' = s /\ impls' = i /\ job' = 1 /\ step' = 1
    /\ raised' = FALSE /\ samples' = 0 /\ lines' = <<>>
    /\ outcome' = "none" /\ mains' = mains + 1
    /\ \E known \in SUBSET DOMAIN left :
          left' = [f \in DOMAIN left |-> IF f \in known THEN left[f] ELSE <<>>]
    /\ proc' = [r \in Roles |-> "none"] /\ link' = "none"
    /\ UNCHANGED <<report, store, log, buf, rdb, history>>

Step == Case.script[step]
At(what) == pc = "job" /\ Step.do = what
Advance ==
    /\ step' = step + 1
    /\ UNCHANGED <<pc, suite, impls, job, raised, samples, lines, report, outcome, mains>>

(* The first server of a run: the persistence driver cleans up first, the  *)
(* replication driver relies on the names of its files being new.          *)
StartFresh ==
    /\ At("start") /\ Step.role = "server" /\ Step.how # "existing"
    /\ IF Step.how = "fresh" /\ CleanupRemovesLog
       THEN log' = <<>>
       ELSE log' = Foreign(left[Impl])
    /\ rdb' = IF Step.how = "fresh" /\ CleanupRemovesRdb THEN Absent ELSE ForeignData(rdb)
    /\ proc' = [proc EXCEPT !["server"] = "loading"] /\ buf' = <<>> /\ link' = "none"
    /\ store' = [r \in Roles |-> Empty]
    /\ since' = Off /\ sent' = Empty
    /\ Advance /\ UNCHANGED left

StartExisting ==
    /\ At("start") /\ (Step.role = "replica" \/ Step.how = "existing")
    /\ proc' = [proc EXCEPT ![Step.role] = "loading"]
    /\ Happened({"started"})
    /\ Advance /\ UNCHANGED <<store, log, buf, rdb, left, link, sent>>

SetKey ==
    /\ At("set") /\ proc["server"] = "up"
    /\ LET write == [key |-> Step.key, word |-> Step.word, own |-> TRUE] IN
       /\ store' = [store EXCEPT !["server"] = Replayed(<<write>>, @)]
       /\ sent' = Replayed(<<write>>, sent)
       /\ IF Impl = "redis-uya"
          THEN buf' = Append(buf, write) /\ UNCHANGED log
          ELSE log' = Append(log, write) /\ UNCHANGED buf
    /\ Happened({"set"})
    /\ Advance /\ UNCHANGED <<proc, rdb, left, link>>

SaveRdb ==
    /\ At("save") /\ proc["server"] = "up"
    /\ rdb' = IF Impl = "redis-uya" THEN store["server"] ELSE rdb
    /\ Happened({"saved"})
    /\ Advance /\ UNCHANGED <<proc, store, log, buf, left, link, sent>>

ReplicaOf ==
    /\ At("replicaof") /\ proc["replica"] = "up"
    /\ link' = "configured"
    /\ Advance /\ UNCHANGED <<proc, store, log, buf, rdb, left, history>>

Word(data, key) == IF data[key] = Absent THEN Absent ELSE data[key].word

WaitConnected == At("connected") /\ proc["replica"] = "up" /\ link = "connected"
WaitDisconnected == At("disconnected") /\ proc["replica"] = "up" /\ link = "configured"
WaitForValue ==
    At("value") /\ proc["replica"] = "up" /\ Word(store["replica"], "key") = Step.word
AsExpected == \A i \in DOMAIN Step.keys : Word(store["server"], Step.keys[i]) = Step.words[i]
CheckRecovered == At("check") /\ proc["server"] = "up" /\ AsExpected

Wait ==
    /\ WaitConnected \/ WaitDisconnected \/ WaitForValue \/ CheckRecovered
    /\ Advance /\ UNCHANGED <<servers, history>>

(* stop_process: SIGTERM ends redis-uya at once, with the AOF buffer it    *)
(* has; Redis has written its AOF before it answered.                      *)
StopMaster ==
    /\ At("stop")
    /\ proc' = [proc EXCEPT !["server"] = "none"] /\ buf' = <<>>
    /\ Advance /\ UNCHANGED <<store, log, rdb, left, link, history>>

ReadClock ==
    /\ At("clock") /\ since' = IF link = "configured" THEN {"down"} ELSE {}
    /\ Advance /\ UNCHANGED <<servers, sent>>

TakeSample ==
    /\ At("sample")
    /\ pc' = "finally" /\ step' = 1 /\ samples' = samples + 1
    /\ UNCHANGED <<suite, impls, job, raised, lines, report, outcome, mains, servers, history>>

(* Mutation: the wait for the link has no deadline. *)
RaiseOnlyFromCommands ==
    /\ pc = "job" /\ Step.do \notin {"clock", "stop", "sample", "connected"}
    /\ IF Step.do = "start" /\ Step.how # "existing"
       THEN pc' = "idle" /\ outcome' = "not started" /\ UNCHANGED <<step, raised>>
       ELSE pc' = "finally" /\ step' = 1 /\ raised' = TRUE /\ UNCHANGED outcome
    /\ UNCHANGED <<suite, impls, job, samples, lines, report, mains, servers, history>>

(* A deadline passes, the answer is not the one expected, a program cannot *)
(* be started.  The first servers of a run are started before the `try'.   *)
Raise ==
    /\ pc = "job" /\ Step.do \notin {"clock", "stop", "sample"}
    /\ IF Step.do = "start" /\ Step.how # "existing"
       THEN pc' = "idle" /\ outcome' = "not started" /\ UNCHANGED <<step, raised>>
       ELSE pc' = "finally" /\ step' = 1 /\ raised' = TRUE /\ UNCHANGED outcome
    /\ UNCHANGED <<suite, impls, job, samples, lines, report, mains, servers, history>>

(* Mutation: the master that was started again has a name of its own, and  *)
(* the first one is stopped twice.                                         *)
StopFirstMaster(role) ==
    /\ pc = "finally" /\ step = (IF role = "server" THEN 1 ELSE 2)
    /\ proc' = IF role = "server" /\ Case.name = "reconnect_recovery" /\ since # Off THEN proc
               ELSE [proc EXCEPT ![role] = "none"]
    /\ buf' = IF role = "server" THEN <<>> ELSE buf
    /\ Advance /\ UNCHANGED <<store, log, rdb, left, link, history>>

(* The `finally' of a run. *)
StopProcess(role) ==
    /\ pc = "finally" /\ step = (IF role = "server" THEN 1 ELSE 2)
    /\ proc' = [proc EXCEPT ![role] = "none"]
    /\ buf' = IF role = "server" THEN <<>> ELSE buf
    /\ Advance /\ UNCHANGED <<store, log, rdb, left, link, history>>

(* Mutation: main writes what it has when a case fails. *)
CleanUpAndReport ==
    /\ pc = "finally" /\ step = 3
    /\ Cleanup
    /\ IF raised
       THEN pc' = "idle" /\ outcome' = "failed" /\ report' = [report EXCEPT ![suite] = lines]
       ELSE pc' = "next" /\ UNCHANGED <<outcome, report>>
    /\ link' = "none" /\ since' = Off /\ step' = 1
    /\ UNCHANGED <<suite, impls, job, raised, samples, lines, mains, proc, store, buf, sent>>

CleanUp ==
    /\ pc = "finally" /\ step = 3
    /\ Cleanup
    /\ IF raised THEN pc' = "idle" /\ outcome' = "failed" ELSE pc' = "next" /\ UNCHANGED outcome
    /\ link' = "none" /\ since' = Off /\ step' = 1
    /\ UNCHANGED <<suite, impls, job, raised, samples, lines, report, mains, proc, store, buf,
                   sent>>

(* run_case and the loop of main. *)
NextRound ==
    /\ pc = "next" /\ samples < Rounds
    /\ pc' = "job"
    /\ UNCHANGED <<suite, impls, job, step, raised, samples, lines, report, outcome, mains,
                   servers, history>>

ResultLine == [case |-> Case.name, impl |-> Impl, samples |-> samples]

NextJob ==
    /\ pc = "next" /\ samples = Rounds
    /\ lines' = Append(lines, ResultLine) /\ samples' = 0
    /\ IF job < Len(Cases) * Len(impls)
       THEN pc' = "job" /\ job' = job + 1 /\ UNCHANGED <<report, outcome>>
       ELSE /\ pc' = "idle" /\ outcome' = "passed"
            /\ report' = [report EXCEPT ![suite] = lines'] /\ UNCHANGED job
    /\ UNCHANGED <<suite, impls, step, raised, mains, servers, history>>

(* The driver is killed: no `finally'; its servers and files stay.  (The   *)
(* servers hold their ports, so no later run meets them.)                  *)
Killed ==
    /\ pc # "idle"
    /\ pc' = "idle" /\ outcome' = "killed"
    /\ left' = [left EXCEPT ![Impl] = log]
    /\ since' = Off /\ sent' = Empty
    /\ UNCHANGED <<suite, impls, job, step, raised, samples, lines, report, mains,
                   proc, store, log, buf, rdb, link>>

DriverStep ==
    \/ StartFresh \/ StartExisting
    \/ SetKey \/ SaveRdb \/ ReplicaOf
    \/ Wait \/ StopMaster \/ ReadClock \/ TakeSample
    \/ Raise
    \/ (\E r \in Roles : StopProcess(r)) \/ CleanUp
    \/ NextRound \/ NextJob

Next ==
    \/ \E s \in {"persistence", "replication"},
          i \in {<<"redis-uya">>, <<"redis-uya", "redis">>} : Main(s, i)
    \/ DriverStep
    \/ ServerStep
    \/ Killed

Spec == Init /\ [][Next]_vars

(* The driver runs on; no server is assumed to answer. *)
FairSpec == Spec /\ WF_vars(DriverStep)

-----------------------------------------------------------------------------
(* Between the clock and the sample happened what the case is named for,   *)
(* all of it and nothing else: in particular a reconnect is measured from  *)
(* a link known to be down, so that a stale `connected' does not pass for  *)
(* the new one.  A link may be lost by itself while a replica is measured: *)
(* then making it again is in the sample too, and may have brought what a  *)
(* poll should have.  (Only a pair whose ports, and so whose AOF, are those*)
(* of a killed run may recover the very value the driver waits for.)       *)
Measured ==
    [save |-> {"saved"},
     restart_recovery_aof |-> {"started"},
     restart_recovery_rdb_aof |-> {"started"},
     full_sync |-> {"linked"},
     incremental_sync |-> {"set", "polled"},
     reconnect_recovery |-> {"down", "started", "linked", "set", "polled"}]

Disturbed == "lost" \in since \/ "down" \in since \ Measured[Case.name]
Meant ==
    /\ Measured[Case.name] \ {"polled"} \subseteq since
    /\ since \subseteq Measured[Case.name] \cup {"down", "lost", "linked", "polled"}
    /\ "linked" \in since \/ "polled" \in since

OldLog == \E i \in DOMAIN log : ~log[i].own
SampleIsReal ==
    At("sample") /\ (suite = "replication" => ~OldLog) =>
        since = Measured[Case.name] \/ (Disturbed /\ Meant)

(* The servers a sample is taken of hold what the run wrote: asking for    *)
(* the last keys is enough, since an AOF keeps a prefix of the writes.     *)
(* What a killed run left in the files is not measured with it on          *)
(* redis-uya's side of the persistence benchmark.  (A master killed with   *)
(* unflushed writes loses them in the reconnect case, unnoticed.)          *)
Own(k) == sent[k] # Absent
SampleHoldsDataset ==
    At("sample") =>
        /\ suite = "replication" /\ ~OldLog => store["replica"] = store["server"]
        /\ Case.name # "reconnect_recovery" => \A k \in Keys : Own(k) => store["server"][k] = sent[k]
        /\ suite = "persistence" /\ Impl = "redis-uya" =>
              store["server"] = sent /\ ~OldLog

(* The rows about an implementation, in the order of the cases.            *)
RowsOf(rows, impl) == {i \in DOMAIN rows : rows[i].impl = impl}
OneRowPerCase(rows, impl, cases) ==
    \E at \in [DOMAIN cases -> DOMAIN rows] :
        /\ \A i, j \in DOMAIN cases : i < j => at[i] < at[j]
        /\ RowsOf(rows, impl) = {at[i] : i \in DOMAIN cases}
        /\ \A i \in DOMAIN cases : rows[at[i]].case = cases[i].name

(* A report has a line for every case and every implementation measured,   *)
(* each made of as many samples as it says; a driver that failed leaves    *)
(* the report of an earlier one.                                           *)
ReportIsComplete ==
    \A s \in DOMAIN report : report[s] # Absent =>
        /\ \A i \in DOMAIN report[s] : report[s][i].samples = Rounds
        /\ OneRowPerCase(report[s], "redis-uya", CasesOf(s))
        /\ RowsOf(report[s], "redis") # {} => OneRowPerCase(report[s], "redis", CasesOf(s))

(* A driver that ends by itself leaves no server running and no AOF of     *)
(* redis-uya behind, wherever it failed, unless the second server of a     *)
(* pair could not be started.                                              *)
NothingLeftBehind ==
    /\ outcome \in {"passed", "failed"} => proc = [r \in Roles |-> "none"] /\ log = <<>>
    /\ outcome = "not started" => proc["replica"] = "none"
    /\ outcome = "passed" /\ suite = "persistence" => rdb = Absent

(* A driver ends although no server is assumed to answer. *)
RunsEnd == pc # "idle" ~> pc = "idle"
=============================================================================
