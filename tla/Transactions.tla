---------------------------- MODULE Transactions ----------------------------
(***************************************************************************)
(* WATCH, MULTI, EXEC and DISCARD (src/network/connection.uya) over the    *)
(* keyspace and its watch versions (src/storage/engine.uya).  A version is *)
(* kept for a key only while some client watches something: the engine     *)
(* counts those clients, and EXEC compares versions.                       *)
(*                                                                         *)
(* Values are abstract: `rev' counts the changes of a key, and no property *)
(* but that of EXEC is told from it.  Time is abstract: a key with a TTL   *)
(* may be found expired whenever somebody looks.  Of the commands there is *)
(* one for each way to change a key; those that pass the versions by are   *)
(* kept apart in SpecInPlace.                                              *)
(***************************************************************************)
EXTENDS Naturals, Sequences, FiniteSets

CONSTANTS
    Client,
    Key,
    NoClient,
    MaxCommands,   \* bound: commands of a behaviour
    MaxQueue       \* bound: commands in one MULTI

Op == {"get", "set", "del", "rename", "flushall", "expire", "persist"}

ASSUME TransactionsAssumption ==
    /\ IsFiniteSet(Client)
    /\ NoClient \notin Client
    /\ MaxCommands \in Nat
    /\ MaxQueue \in Nat

VARIABLES
    exists,             \* keys of db.dict
    expires,            \* keys of db.expires
    rev,                \* how often a key was changed
    watch_versions,     \* db.watch_versions, 0 for a key it does not have
    watch_seq,
    watch_clients,
    active,             \* inside MULTI
    queue,
    watched,            \* the versions of the keys a client watches
    watch_registered,
    running,            \* whose EXEC runs
    reply,              \* what the last EXEC of a client said
    seen,               \* history: rev of a key when it was watched
    commands

keyspace == <<exists, expires, rev, watch_versions, watch_seq>>
watches == <<watched, watch_registered, watch_clients, seen>>
vars == <<keyspace, watches, active, queue, running, reply, commands>>

Command ==
    {cmd \in [op : Op, key : Key, to : Key] : cmd.op # "rename" => cmd.to = cmd.key}

NoWatch == [k \in {} |-> 0]

Init ==
    /\ exists = {}
    /\ expires = {}
    /\ rev = [k \in Key |-> 0]
    /\ watch_versions = [k \in Key |-> 0]
    /\ watch_seq = 1
    /\ watch_clients = 0
    /\ active = [c \in Client |-> FALSE]
    /\ queue = [c \in Client |-> <<>>]
    /\ watched = [c \in Client |-> NoWatch]
    /\ watch_registered = [c \in Client |-> FALSE]
    /\ running = NoClient
    /\ reply = [c \in Client |-> "none"]
    /\ seen = [c \in Client |-> NoWatch]
    /\ commands = 0

-----------------------------------------------------------------------------
(* What a command does to the keyspace. *)
Changed(K) == rev' = [k \in Key |-> IF k \in K THEN rev[k] + 1 ELSE rev[k]]

(* Mutation: the sequence stands still. *)
TouchedKeepsSeq(K) ==
    IF watch_clients = 0 \/ K = {}
    THEN UNCHANGED <<watch_versions, watch_seq>>
    ELSE /\ UNCHANGED watch_seq
         /\ watch_versions' =
               [k \in Key |-> IF k \in K THEN watch_seq ELSE watch_versions[k]]

(* The keys get a number nobody has seen.  FLUSHALL and RENAME give their  *)
(* keys one each, which nobody compares.                                   *)
Touched(K) ==
    IF watch_clients = 0 \/ K = {}
    THEN UNCHANGED <<watch_versions, watch_seq>>
    ELSE /\ watch_seq' = watch_seq + 1
         /\ watch_versions' =
               [k \in Key |-> IF k \in K THEN watch_seq' ELSE watch_versions[k]]

Keys(present, volatile) == exists' = present /\ expires' = volatile

NoEffect == UNCHANGED keyspace

SetKey(k) ==
    /\ Keys(exists \cup {k}, expires \ {k})
    /\ Changed({k})
    /\ Touched({k})

DeleteKey(k) ==
    /\ Keys(exists \ {k}, expires \ {k})
    /\ Changed({k} \cap exists)
    /\ Touched({k} \cap exists)

(* A lookup deletes the key it finds expired. *)
LookupExpired(k) == k \in expires /\ DeleteKey(k)

GetKey(k) == NoEffect \/ LookupExpired(k)

(* Mutation: the TTL moves to the new name and stays with the old one. *)
RenameKeyKeepsTtl(k, j) ==
    IF k = j \/ k \notin exists
    THEN NoEffect
    ELSE /\ Keys((exists \ {k}) \cup {j},
                 (expires \ {j}) \cup (IF k \in expires THEN {j} ELSE {}))
         /\ Changed({k, j})
         /\ Touched({k, j})

RenameKey(k, j) ==
    IF k = j \/ k \notin exists
    THEN NoEffect
    ELSE /\ Keys((exists \ {k}) \cup {j},
                 (expires \ {k, j}) \cup (IF k \in expires THEN {j} ELSE {}))
         /\ Changed({k, j})
         /\ Touched({k, j})

FlushAll ==
    /\ Keys({}, {})
    /\ Changed(exists)
    /\ Touched(exists)

(* The key may be found expired, or the TTL be zero. *)
ExpireKey(k) ==
    \/ k \notin exists /\ NoEffect
    \/ k \in exists /\ DeleteKey(k)
    \/ /\ k \in exists
       /\ Keys(exists, expires \cup {k})
       /\ Changed({k})
       /\ Touched({k})

PersistKey(k) ==
    \/ k \notin expires /\ NoEffect
    \/ LookupExpired(k)
    \/ /\ k \in expires
       /\ Keys(exists, expires \ {k})
       /\ Changed({k})
       /\ Touched({k})

Execute(cmd) ==
    \/ cmd.op = "get" /\ GetKey(cmd.key)
    \/ cmd.op = "set" /\ SetKey(cmd.key)
    \/ cmd.op = "del" /\ DeleteKey(cmd.key)
    \/ cmd.op = "rename" /\ RenameKey(cmd.key, cmd.to)
    \/ cmd.op = "flushall" /\ FlushAll
    \/ cmd.op = "expire" /\ ExpireKey(cmd.key)
    \/ cmd.op = "persist" /\ PersistKey(cmd.key)

-----------------------------------------------------------------------------
(* What a client does.  While an EXEC runs nothing else does. *)
Idle == running = NoClient

Counted ==
    /\ commands < MaxCommands
    /\ commands' = commands + 1

ClientCommand(c, cmd) ==
    /\ Idle
    /\ ~active[c]
    /\ Execute(cmd)
    /\ Counted
    /\ UNCHANGED <<watches, active, queue, running, reply>>

QueueCommand(c, cmd) ==
    /\ Idle
    /\ active[c]
    /\ Len(queue[c]) < MaxQueue
    /\ queue' = [queue EXCEPT ![c] = Append(@, cmd)]
    /\ Counted
    /\ UNCHANGED <<keyspace, watches, active, running, reply>>

Multi(c) ==
    /\ Idle
    /\ ~active[c]
    /\ active' = [active EXCEPT ![c] = TRUE]
    /\ queue' = [queue EXCEPT ![c] = <<>>]
    /\ UNCHANGED <<keyspace, watches, running, reply, commands>>

(* Mutation: the client is counted for every key. *)
WatchCountsKeys(c, k) ==
    /\ Idle
    /\ ~active[c]
    /\ watched' = [watched EXCEPT ![c] =
                     [j \in DOMAIN @ \cup {k} |-> IF j = k THEN watch_versions[k] ELSE @[j]]]
    /\ seen' = [seen EXCEPT ![c] =
                     [j \in DOMAIN @ \cup {k} |-> IF j = k THEN rev[k] ELSE @[j]]]
    /\ watch_clients' = watch_clients + 1
    /\ watch_registered' = [watch_registered EXCEPT ![c] = TRUE]
    /\ UNCHANGED <<keyspace, active, queue, running, reply, commands>>

(* A key watched again is watched from now on. *)
Watch(c, k) ==
    /\ Idle
    /\ ~active[c]
    /\ watched' = [watched EXCEPT ![c] =
                     [j \in DOMAIN @ \cup {k} |-> IF j = k THEN watch_versions[k] ELSE @[j]]]
    /\ seen' = [seen EXCEPT ![c] =
                     [j \in DOMAIN @ \cup {k} |-> IF j = k THEN rev[k] ELSE @[j]]]
    /\ watch_clients' = IF watch_registered[c] THEN watch_clients ELSE watch_clients + 1
    /\ watch_registered' = [watch_registered EXCEPT ![c] = TRUE]
    /\ UNCHANGED <<keyspace, active, queue, running, reply, commands>>

ClearWatches(c) ==
    /\ watched' = [watched EXCEPT ![c] = NoWatch]
    /\ seen' = [seen EXCEPT ![c] = NoWatch]
    /\ watch_clients' = IF watch_registered[c] THEN watch_clients - 1 ELSE watch_clients
    /\ watch_registered' = [watch_registered EXCEPT ![c] = FALSE]

ClearQueue(c) ==
    /\ active' = [active EXCEPT ![c] = FALSE]
    /\ queue' = [queue EXCEPT ![c] = <<>>]

Unwatch(c) ==
    /\ Idle
    /\ ~active[c]
    /\ ClearWatches(c)
    /\ UNCHANGED <<keyspace, active, queue, running, reply, commands>>

Discard(c) ==
    /\ Idle
    /\ active[c]
    /\ ClearQueue(c)
    /\ ClearWatches(c)
    /\ UNCHANGED <<keyspace, running, reply, commands>>

(* RESET, or the connection is closed. *)
Reset(c) ==
    /\ Idle
    /\ ClearQueue(c)
    /\ ClearWatches(c)
    /\ UNCHANGED <<keyspace, running, reply, commands>>

WatchesMatch(c) == \A k \in DOMAIN watched[c] : watch_versions[k] = watched[c][k]

Exec(c) ==
    /\ Idle
    /\ active[c]
    /\ WatchesMatch(c)
    /\ running' = c
    /\ reply' = [reply EXCEPT ![c] = "array"]
    /\ UNCHANGED <<keyspace, watches, active, queue, commands>>

ExecAborts(c) ==
    /\ Idle
    /\ active[c]
    /\ ~WatchesMatch(c)
    /\ ClearQueue(c)
    /\ ClearWatches(c)
    /\ reply' = [reply EXCEPT ![c] = "null"]
    /\ UNCHANGED <<keyspace, running, commands>>

ExecNext(c) ==
    /\ running = c
    /\ queue[c] # <<>>
    /\ Execute(Head(queue[c]))
    /\ queue' = [queue EXCEPT ![c] = Tail(@)]
    /\ UNCHANGED <<watches, active, running, reply, commands>>

ExecEnds(c) ==
    /\ running = c
    /\ queue[c] = <<>>
    /\ ClearQueue(c)
    /\ ClearWatches(c)
    /\ running' = NoClient
    /\ UNCHANGED <<keyspace, reply, commands>>

Next ==
    \E c \in Client :
        \/ \E cmd \in Command : ClientCommand(c, cmd) \/ QueueCommand(c, cmd)
        \/ Multi(c)
        \/ \E k \in Key : Watch(c, k)
        \/ Unwatch(c)
        \/ Discard(c)
        \/ Reset(c)
        \/ Exec(c)
        \/ ExecAborts(c)
        \/ ExecNext(c)
        \/ ExecEnds(c)

Spec == Init /\ [][Next]_vars

-----------------------------------------------------------------------------
(* LPUSH, SADD, HSET and their like create a key through the keyspace, but *)
(* an object that is there they change in place, and no version with it.   *)
Push(c, k) ==
    /\ Idle
    /\ ~active[c]
    /\ \/ k \notin exists /\ SetKey(k)
       \/ k \in expires /\ SetKey(k)
       \/ /\ k \in exists
          /\ Changed({k})
          /\ UNCHANGED <<exists, expires, watch_versions, watch_seq>>
    /\ Counted
    /\ UNCHANGED <<watches, active, queue, running, reply>>

NextInPlace == Next \/ \E c \in Client, k \in Key : Push(c, k)

SpecInPlace == Init /\ [][NextInPlace]_vars

-----------------------------------------------------------------------------
(* The types of the keyspace and of a connection's transaction; a key with *)
(* a TTL is a key of the keyspace.                                         *)
TypeOK ==
    /\ exists \subseteq Key
    /\ expires \subseteq exists
    /\ rev \in [Key -> Nat]
    /\ watch_versions \in [Key -> Nat]
    /\ watch_seq \in Nat
    /\ watch_clients \in Nat
    /\ active \in [Client -> BOOLEAN]
    /\ queue \in [Client -> Seq(Command)]
    /\ DOMAIN watched = Client
    /\ DOMAIN seen = Client
    /\ \A c \in Client :
          /\ DOMAIN watched[c] \subseteq Key
          /\ \A k \in DOMAIN watched[c] : watched[c][k] \in Nat
    /\ watch_registered \in [Client -> BOOLEAN]
    /\ running \in Client \cup {NoClient}
    /\ reply \in [Client -> {"none", "null", "array"}]

(* engine.watch_clients, which decides whether versions are kept at all,   *)
(* is the number of clients that watch something, through any order of     *)
(* WATCH, UNWATCH, DISCARD, EXEC, RESET and closed connections.            *)
WatchersAreCounted ==
    watch_clients = Cardinality({c \in Client : DOMAIN watched[c] # {}})

(* A transaction runs only if no key its client watches was changed since. *)
WatchedKeysUnchanged ==
    [][\A c \in Client :
          running # c /\ running' = c
            => \A k \in DOMAIN watched[c] : rev[k] = seen[c][k]]_vars

(* Versions kept lazily are as good as dirty flags: EXEC runs a queue if   *)
(* no key its client watches was changed, aborts if one was, and nothing   *)
(* but its own commands changes a key before it is done.                   *)
Dirty == INSTANCE DirtyKeys WITH
    watching <- {w \in Client \X Key : w[2] \in DOMAIN watched[w[1]]},
    dirty <- {w \in Client \X Key :
                 /\ w[2] \in DOMAIN watched[w[1]]
                 /\ watched[w[1]][w[2]] # watch_versions[w[2]]}

ImplementsDirtyKeys == Dirty!Spec
=============================================================================
