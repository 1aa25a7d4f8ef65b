---------------------------- MODULE Replication ----------------------------
(***************************************************************************)
(* How a redis-uya replica follows its master (src/server.uya: PSYNC by    *)
(* short polls, full and incremental synchronisation, heartbeat, REPLICAOF *)
(* and restarts; src/command/executor.uya and src/network/connection.uya:  *)
(* the master's answers).  The replica's side of an exchange is a blocking *)
(* call inside its event loop: from the request to the end of the answer a *)
(* replica does nothing else, and serves nobody.                           *)
(*                                                                         *)
(* A write is a number, a dataset the sequence of the writes it comes      *)
(* from, an offset a number of writes.  A master's backlog is taken from   *)
(* its specification in module CommandStream, which module Backlog proves  *)
(* the buffer to implement: the whole stream is kept, and what may still   *)
(* be asked for is computed.  `aof' is everything appended to the AOF, of  *)
(* which the first `aof_synced' writes are on the medium.                  *)
(***************************************************************************)
EXTENDS Integers, Sequences

CONSTANTS
    Node,
    NoNode,
    SizeLimit,     \* writes a backlog still serves
    MaxWrites,     \* bound: writes of a behaviour
    MaxResets,     \* bound: REPLICAOF NO ONE of a behaviour
    MaxRestarts,   \* bound: restarts of a behaviour
    MaxFailures    \* bound: lost connections, failed replays and heartbeats

ASSUME ReplicationAssumption ==
    /\ NoNode \notin Node
    /\ SizeLimit \in Nat \ {0}
    /\ MaxWrites \in Nat
    /\ MaxResets \in Nat
    /\ MaxRestarts \in Nat
    /\ MaxFailures \in Nat

VARIABLES
    role,             \* replication_role
    link,             \* replication_state (connecting is part of syncing)
    upstream,         \* config.replicaof_host and _port
    db,               \* the dataset
    aof, aof_synced,
    replid, stream,   \* the backlog: its id and what was appended to it
    master_replid,    \* id of the stream a replica follows
    master_offset,    \* how much of it the replica has
    rpc,              \* the exchange a replica is blocked in
    life,             \* which start of a server this is
    same_ms,          \* its backlog was opened in the millisecond of start_ms
    resets,           \* REPLICAOF NO ONE since then
    writes, promotions, restarts, failures

dataset == <<db, aof, aof_synced>>
backlog == <<replid, stream>>
progress == <<master_replid, master_offset>>
config == <<role, upstream>>
counters == <<life, same_ms, resets, writes, promotions, restarts, failures>>
vars == <<config, link, dataset, backlog, progress, rpc, counters>>

-----------------------------------------------------------------------------
(* Replication ids are hashes of a time and the port: the time the backlog *)
(* was opened at start-up, and for every REPLICAOF NO ONE the time the     *)
(* server started, which is read a moment later: mostly in the same        *)
(* millisecond, and then it makes the same id again.  Which it was in this *)
(* life shows at the first reset, and is chosen there.                     *)
Replid == [node : Node, start : 0..MaxRestarts, seed : {"open_ms", "start_ms"}]
NoReplid == [node |-> NoNode]
OpenId(n, start) == [node |-> n, start |-> start, seed |-> "open_ms"]
ResetId(n, start, same) ==
    [node |-> n, start |-> start, seed |-> IF same THEN "open_ms" ELSE "start_ms"]

Write == 1..MaxWrites
Dataset == Seq(Write)

Role == {"master", "replica"}
Link == {"none", "configured", "syncing", "connected"}

(* An exchange: nothing, a request on its way, or an answer on its way. *)
Idle == [kind |-> "idle"]
Ask(m, id, offset) == [kind |-> "ask", to |-> m, id |-> id, offset |-> offset]
FullResync(id, offset, snapshot) ==
    [kind |-> "fullresync", id |-> id, offset |-> offset, data |-> snapshot]
Continue(offset, delta) == [kind |-> "continue", offset |-> offset, data |-> delta]
ErrorReply == [kind |-> "error"]
Lost == [kind |-> "lost"]

Runs(n) == rpc[n] = Idle

-----------------------------------------------------------------------------
(* The backlog. *)
Offset(m) == Len(stream[m])

FirstOffset(m) == IF Offset(m) > SizeLimit THEN Offset(m) - SizeLimit ELSE 0

(* What the buffer still holds of the stream after the first `offset'. *)
SliceFrom(m, offset) ==
    LET from == IF offset >= FirstOffset(m) THEN offset ELSE FirstOffset(m)
    IN SubSeq(stream[m], from + 1, Offset(m))

CanContinue(m, id, offset) ==
    /\ id = replid[m]
    /\ FirstOffset(m) <= offset
    /\ offset <= Offset(m)

Init ==
    /\ role = [n \in Node |-> "master"]
    /\ link = [n \in Node |-> "none"]
    /\ upstream = [n \in Node |-> NoNode]
    /\ db = [n \in Node |-> <<>>]
    /\ aof = [n \in Node |-> <<>>]
    /\ aof_synced = [n \in Node |-> 0]
    /\ replid = [n \in Node |-> OpenId(n, 0)]
    /\ stream = [n \in Node |-> <<>>]
    /\ master_replid = [n \in Node |-> NoReplid]
    /\ master_offset = [n \in Node |-> 0]
    /\ rpc = [n \in Node |-> Idle]
    /\ writes = 0
    /\ resets = [n \in Node |-> 0]
    /\ life = [n \in Node |-> 0]
    /\ same_ms = [n \in Node |-> FALSE]
    /\ promotions = 0
    /\ restarts = 0
    /\ failures = 0

Fails ==
    /\ failures < MaxFailures
    /\ failures' = failures + 1
    /\ UNCHANGED <<life, same_ms, resets, writes, promotions, restarts>>

(* A client's write; a replica refuses it. *)
ClientWrites(m) ==
    /\ Runs(m)
    /\ role[m] = "master"
    /\ writes < MaxWrites
    /\ writes' = writes + 1
    /\ db' = [db EXCEPT ![m] = Append(@, writes')]
    /\ aof' = [aof EXCEPT ![m] = Append(@, writes')]
    /\ stream' = [stream EXCEPT ![m] = Append(@, writes')]
    /\ UNCHANGED <<config, link, aof_synced, replid, progress, rpc, life, same_ms, resets,
                   promotions, restarts, failures>>

-----------------------------------------------------------------------------
(* The replica asks: PSYNC ? -1 while it is only configured, and PSYNC     *)
(* with the id and offset it has when it is connected.                     *)
AskFull(r) ==
    /\ Runs(r)
    /\ role[r] = "replica"
    /\ link[r] = "configured"
    /\ link' = [link EXCEPT ![r] = "syncing"]
    /\ rpc' = [rpc EXCEPT ![r] = Ask(upstream[r], NoReplid, 0)]
    /\ UNCHANGED <<config, dataset, backlog, progress, counters>>

AskMore(r) ==
    /\ Runs(r)
    /\ role[r] = "replica"
    /\ link[r] = "connected"
    /\ rpc' = [rpc EXCEPT ![r] = Ask(upstream[r], master_replid[r], master_offset[r])]
    /\ UNCHANGED <<config, link, dataset, backlog, progress, counters>>

Reply(m, ask) ==
    IF role[m] # "master" THEN ErrorReply
    ELSE IF CanContinue(m, ask.id, ask.offset)
         THEN Continue(Offset(m), SliceFrom(m, ask.offset))
         ELSE FullResync(replid[m], Offset(m), db[m])

(* The master answers in one step of its event loop. *)
Answer(r) ==
    /\ rpc[r].kind = "ask"
    /\ LET m == rpc[r].to
       IN /\ Runs(m)
          /\ rpc' = [rpc EXCEPT ![r] = Reply(m, rpc[r])]
    /\ UNCHANGED <<config, link, dataset, backlog, progress, counters>>

ConnectionLost(r) ==
    /\ rpc[r].kind \in {"ask", "fullresync", "continue"}
    /\ rpc' = [rpc EXCEPT ![r] = Lost]
    /\ Fails
    /\ UNCHANGED <<config, link, dataset, backlog, progress>>

(* Mutation: the old writer, with the synced length of the old file, stays.*)
ApplyFullKeepsWriter(r) ==
    /\ rpc[r].kind = "fullresync"
    /\ aof' = [aof EXCEPT ![r] = rpc[r].data]
    /\ db' = [db EXCEPT ![r] = rpc[r].data]
    /\ master_replid' = [master_replid EXCEPT ![r] = rpc[r].id]
    /\ master_offset' = [master_offset EXCEPT ![r] = rpc[r].offset]
    /\ link' = [link EXCEPT ![r] = "connected"]
    /\ rpc' = [rpc EXCEPT ![r] = Idle]
    /\ UNCHANGED <<config, aof_synced, backlog, counters>>

(* +FULLRESYNC: the snapshot becomes the AOF, which is fsynced, then the   *)
(* dataset, then id and offset are taken over.                             *)
ApplyFull(r) ==
    /\ rpc[r].kind = "fullresync"
    /\ aof' = [aof EXCEPT ![r] = rpc[r].data]
    /\ aof_synced' = [aof_synced EXCEPT ![r] = Len(rpc[r].data)]
    /\ db' = [db EXCEPT ![r] = rpc[r].data]
    /\ master_replid' = [master_replid EXCEPT ![r] = rpc[r].id]
    /\ master_offset' = [master_offset EXCEPT ![r] = rpc[r].offset]
    /\ link' = [link EXCEPT ![r] = "connected"]
    /\ rpc' = [rpc EXCEPT ![r] = Idle]
    /\ UNCHANGED <<config, backlog, counters>>

(* The answer breaks off after its header, its checksum or the snapshot is *)
(* wrong, or the AOF cannot be rewritten.  (An AOF that is renamed and     *)
(* then cannot be opened again is left out.)                               *)
ApplyFullFails(r) ==
    /\ rpc[r].kind = "fullresync"
    /\ link' = [link EXCEPT ![r] = "configured"]
    /\ rpc' = [rpc EXCEPT ![r] = Idle]
    /\ Fails
    /\ UNCHANGED <<config, dataset, backlog, progress>>

(* Mutation: the delta is not fsynced. *)
ApplyMoreUnsynced(r) ==
    /\ rpc[r].kind = "continue"
    /\ db' = [db EXCEPT ![r] = @ \o rpc[r].data]
    /\ aof' = [aof EXCEPT ![r] = @ \o rpc[r].data]
    /\ master_offset' = [master_offset EXCEPT ![r] = rpc[r].offset]
    /\ rpc' = [rpc EXCEPT ![r] = Idle]
    /\ UNCHANGED <<config, link, aof_synced, backlog, master_replid, counters>>

(* +CONTINUE: the delta is replayed, appended to the AOF and fsynced, and  *)
(* only then the offset advances.                                          *)
ApplyMore(r) ==
    /\ rpc[r].kind = "continue"
    /\ db' = [db EXCEPT ![r] = @ \o rpc[r].data]
    /\ aof' = [aof EXCEPT ![r] = @ \o rpc[r].data]
    /\ aof_synced' = [aof_synced EXCEPT ![r] = Len(aof'[r])]
    /\ master_offset' = [master_offset EXCEPT ![r] = rpc[r].offset]
    /\ rpc' = [rpc EXCEPT ![r] = Idle]
    /\ UNCHANGED <<config, link, backlog, master_replid, counters>>

(* Mutation: after a failed replay the replica goes on from its old offset.*)
ReplayFailsStaysConnected(r, k) ==
    /\ rpc[r].kind = "continue"
    /\ k < Len(rpc[r].data)
    /\ db' = [db EXCEPT ![r] = @ \o SubSeq(rpc[r].data, 1, k)]
    /\ rpc' = [rpc EXCEPT ![r] = Idle]
    /\ Fails
    /\ UNCHANGED <<config, link, aof, aof_synced, backlog, progress>>

(* The replay stops after k writes: they stay in the dataset, and the next *)
(* synchronisation is a full one.                                          *)
ReplayFails(r, k) ==
    /\ rpc[r].kind = "continue"
    /\ k < Len(rpc[r].data)
    /\ db' = [db EXCEPT ![r] = @ \o SubSeq(rpc[r].data, 1, k)]
    /\ link' = [link EXCEPT ![r] = "configured"]
    /\ rpc' = [rpc EXCEPT ![r] = Idle]
    /\ Fails
    /\ UNCHANGED <<config, aof, aof_synced, backlog, progress>>

(* The append or the fsync fails, after the replay. *)
PersistFails(r) ==
    /\ rpc[r].kind = "continue"
    /\ db' = [db EXCEPT ![r] = @ \o rpc[r].data]
    /\ aof' \in {aof, [aof EXCEPT ![r] = @ \o rpc[r].data]}
    /\ link' = [link EXCEPT ![r] = "configured"]
    /\ rpc' = [rpc EXCEPT ![r] = Idle]
    /\ Fails
    /\ UNCHANGED <<config, aof_synced, backlog, progress>>

(* -ERR, because the upstream is a replica itself. *)
ApplyError(r) ==
    /\ rpc[r].kind = "error"
    /\ link' = [link EXCEPT ![r] = "configured"]
    /\ rpc' = [rpc EXCEPT ![r] = Idle]
    /\ UNCHANGED <<config, dataset, backlog, progress, counters>>

(* Mutation: the state of a full synchronisation that failed is left. *)
GiveUpStaysSyncing(r) ==
    /\ rpc[r].kind = "lost"
    /\ rpc' = [rpc EXCEPT ![r] = Idle]
    /\ UNCHANGED <<config, link, dataset, backlog, progress, counters>>

(* No answer: a full synchronisation starts over, an incremental one is    *)
(* tried again from where it was.                                          *)
GiveUp(r) ==
    /\ rpc[r].kind = "lost"
    /\ link' = IF link[r] = "syncing" THEN [link EXCEPT ![r] = "configured"] ELSE link
    /\ rpc' = [rpc EXCEPT ![r] = Idle]
    /\ UNCHANGED <<config, dataset, backlog, progress, counters>>

(* PING is not answered: the next synchronisation is a full one. *)
HeartbeatFails(r) ==
    /\ Runs(r)
    /\ role[r] = "replica"
    /\ link[r] = "connected"
    /\ link' = [link EXCEPT ![r] = "configured"]
    /\ Fails
    /\ UNCHANGED <<config, dataset, backlog, progress, rpc>>

-----------------------------------------------------------------------------
(* REPLICAOF host port *)
SetReplica(n, m) ==
    /\ Runs(n)
    /\ role' = [role EXCEPT ![n] = "replica"]
    /\ upstream' = [upstream EXCEPT ![n] = m]
    /\ link' = [link EXCEPT ![n] = "configured"]
    /\ stream' = [stream EXCEPT ![n] = <<>>]
    /\ replid' = [replid EXCEPT ![n] = NoReplid]
    /\ master_replid' = [master_replid EXCEPT ![n] = NoReplid]
    /\ master_offset' = [master_offset EXCEPT ![n] = 0]
    /\ UNCHANGED <<dataset, rpc, counters>>

(* REPLICAOF NO ONE, to a replica or to a master. *)
ResetToMaster(n) ==
    /\ Runs(n)
    /\ promotions < MaxResets
    /\ promotions' = promotions + 1
    /\ resets' = [resets EXCEPT ![n] = @ + 1]
    /\ role' = [role EXCEPT ![n] = "master"]
    /\ upstream' = [upstream EXCEPT ![n] = NoNode]
    /\ link' = [link EXCEPT ![n] = "none"]
    /\ stream' = [stream EXCEPT ![n] = <<>>]
    /\ \E same \in BOOLEAN :
          /\ resets[n] > 0 => same = same_ms[n]
          /\ same_ms' = [same_ms EXCEPT ![n] = same]
          /\ replid' = [replid EXCEPT ![n] = ResetId(n, life[n], same)]
    /\ master_replid' = [master_replid EXCEPT ![n] = NoReplid]
    /\ master_offset' = [master_offset EXCEPT ![n] = 0]
    /\ UNCHANGED <<dataset, rpc, life, writes, restarts, failures>>

(* The server dies, whatever it is doing, and is started again as a        *)
(* master: the AOF comes back up to a point not before what was synced,    *)
(* and who waits for an answer waits no more.                              *)
Restart(n) ==
    /\ restarts < MaxRestarts
    /\ restarts' = restarts + 1
    /\ life' = [life EXCEPT ![n] = restarts']
    /\ same_ms' = [same_ms EXCEPT ![n] = FALSE]
    /\ resets' = [resets EXCEPT ![n] = 0]
    /\ \E k \in aof_synced[n]..Len(aof[n]) :
          /\ db' = [db EXCEPT ![n] = SubSeq(aof[n], 1, k)]
          /\ aof' = [aof EXCEPT ![n] = SubSeq(aof[n], 1, k)]
    /\ role' = [role EXCEPT ![n] = "master"]
    /\ upstream' = [upstream EXCEPT ![n] = NoNode]
    /\ link' = [link EXCEPT ![n] = "none"]
    /\ stream' = [stream EXCEPT ![n] = <<>>]
    /\ replid' = [replid EXCEPT ![n] = OpenId(n, restarts')]
    /\ master_replid' = [master_replid EXCEPT ![n] = NoReplid]
    /\ master_offset' = [master_offset EXCEPT ![n] = 0]
    /\ rpc' = [r \in Node |->
                 IF r = n THEN Idle
                 ELSE IF rpc[r].kind = "ask" /\ rpc[r].to = n THEN Lost
                 ELSE rpc[r]]
    /\ UNCHANGED <<aof_synced, writes, promotions, failures>>

Next ==
    \E n \in Node :
        \/ ClientWrites(n)
        \/ AskFull(n)
        \/ AskMore(n)
        \/ Answer(n)
        \/ ConnectionLost(n)
        \/ ApplyFull(n)
        \/ ApplyFullFails(n)
        \/ ApplyMore(n)
        \/ \E k \in 0..MaxWrites : ReplayFails(n, k)
        \/ PersistFails(n)
        \/ ApplyError(n)
        \/ GiveUp(n)
        \/ HeartbeatFails(n)
        \/ \E m \in Node \ {n} : SetReplica(n, m)
        \/ ResetToMaster(n)
        \/ Restart(n)

Spec == Init /\ [][Next]_vars

(* A server that is not blocked runs its replication steps, and answers.   *)
ReplicationStep(n) ==
    AskFull(n) \/ AskMore(n) \/ ApplyFull(n) \/ ApplyMore(n) \/ ApplyError(n) \/ GiveUp(n)

FairSpec == Spec /\ \A n \in Node : WF_vars(ReplicationStep(n)) /\ WF_vars(Answer(n))

-----------------------------------------------------------------------------
(* The types of the replication fields of a server; no more of the AOF is  *)
(* synced than there is.                                                   *)
RpcType ==
    {Idle, ErrorReply, Lost}
    \cup [kind : {"ask"}, to : Node, id : Replid \cup {NoReplid}, offset : Nat]
    \cup [kind : {"fullresync"}, id : Replid, offset : Nat, data : Dataset]
    \cup [kind : {"continue"}, offset : Nat, data : Dataset]

TypeOK ==
    /\ role \in [Node -> Role]
    /\ link \in [Node -> Link]
    /\ upstream \in [Node -> Node \cup {NoNode}]
    /\ db \in [Node -> Dataset]
    /\ aof \in [Node -> Dataset]
    /\ aof_synced \in [Node -> Nat]
    /\ \A n \in Node : aof_synced[n] <= Len(aof[n])
    /\ replid \in [Node -> Replid \cup {NoReplid}]
    /\ stream \in [Node -> Dataset]
    /\ master_replid \in [Node -> Replid \cup {NoReplid}]
    /\ master_offset \in [Node -> Nat]
    /\ rpc \in [Node -> RpcType]
    /\ writes \in 0..MaxWrites
    /\ resets \in [Node -> 0..promotions]
    /\ promotions \in 0..MaxResets
    /\ life \in [Node -> 0..restarts]
    /\ same_ms \in [Node -> BOOLEAN]
    /\ restarts \in 0..MaxRestarts
    /\ failures \in 0..MaxFailures

Follows(r, m) ==
    /\ role[m] = "master"
    /\ role[r] = "replica"
    /\ link[r] = "connected"
    /\ master_replid[r] = replid[m]

(* The id of m's stream is that of no earlier stream: m has not been reset *)
(* since it started, or once and with another millisecond.                 *)
IdUsedOnce(m) == resets[m] = 0 \/ (resets[m] = 1 /\ ~same_ms[m])

(* What a connected replica misses of the master whose stream it follows   *)
(* is exactly the stream after its offset, through lost answers, failed    *)
(* replays, windows overrun, promotions and restarts on either side, if    *)
(* the id of the stream was not used before.                               *)
MissesRestOfStream ==
    \A r, m \in Node :
        Follows(r, m) /\ IdUsedOnce(m) =>
            /\ master_offset[r] <= Offset(m)
            /\ db[m] = db[r] \o SubSeq(stream[m], master_offset[r] + 1, Offset(m))

(* An id that was used once and an offset name a dataset: a replica that   *)
(* has the id and the offset of a master has its data.  This is what lets  *)
(* a master answer PSYNC with +CONTINUE.                                   *)
SameOffsetSameData ==
    \A r, m \in Node :
        Follows(r, m) /\ IdUsedOnce(m) /\ master_offset[r] = Offset(m) => db[r] = db[m]

(* The same of every id.  The code does not have this property: REPLICAOF  *)
(* NO ONE to a master starts a stream that mostly has the id of the one    *)
(* before it.                                                              *)
EveryIdNamesData ==
    \A r, m \in Node :
        Follows(r, m) /\ master_offset[r] = Offset(m) => db[r] = db[m]

(* A connected replica that stops, by a kill or a power failure, comes     *)
(* back from its AOF alone with the dataset it had.                        *)
ReplicaAofHoldsData ==
    \A r \in Node :
        role[r] = "replica" /\ link[r] = "connected" =>
            aof[r] = db[r] /\ aof_synced[r] = Len(aof[r])

(* A replica of a server that stays a master ends up with its data, when   *)
(* connections stop failing and writes stop coming (the bounds), if the id *)
(* of the master's stream was not used before.                             *)
CatchesUp ==
    \A r \in Node, m \in Node :
        <>[](role[r] = "replica" /\ upstream[r] = m /\ role[m] = "master" /\ IdUsedOnce(m))
            => <>[](db[r] = db[m])
=============================================================================
