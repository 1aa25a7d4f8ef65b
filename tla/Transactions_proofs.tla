------------------------ MODULE Transactions_proofs ------------------------
(***************************************************************************)
(* Proved here for every finite set of clients, every set of keys and      *)
(* every bound: the types, that watch_clients counts the clients that      *)
(* watch, and that Transactions implements DirtyKeys.  Of a command only   *)
(* one thing matters (lemma Effect): what it changes it touches.           *)
(***************************************************************************)
EXTENDS Transactions, FiniteSetTheorems, TLAPS

Watching == {c \in Client : DOMAIN watched[c] # {}}

(* A client is registered exactly while it watches something. *)
Registered ==
    /\ \A c \in Client : watch_registered[c] <=> DOMAIN watched[c] # {}
    /\ \A c \in Client : DOMAIN seen[c] = DOMAIN watched[c]

(* No version, current or remembered, is ahead of the sequence: the next   *)
(* one differs from all of them.                                           *)
VersionsAreOld ==
    /\ \A k \in Key : watch_versions[k] <= watch_seq
    /\ \A c \in Client : \A k \in DOMAIN watched[c] : watched[c][k] <= watch_seq

TxInv == TypeOK /\ WatchersAreCounted /\ Registered /\ VersionsAreOld

(* How the keyspace may change: what is changed is touched. *)
Effect(K) ==
    /\ K \subseteq Key
    /\ exists' \subseteq Key
    /\ expires' \subseteq exists'
    /\ Changed(K)
    /\ Touched(K)

LEMMA NothingChanges ==
    ASSUME TypeOK, NoEffect
    PROVE  Effect({})
<1>1. rev' = [k \in Key |-> IF k \in {} THEN rev[k] + 1 ELSE rev[k]]
    BY DEF TypeOK, NoEffect, keyspace
<1> QED
    BY <1>1 DEF TypeOK, NoEffect, keyspace, Effect, Changed, Touched

LEMMA DeleteEffect ==
    ASSUME TypeOK, NEW k \in Key, DeleteKey(k)
    PROVE  Effect({k} \cap exists)
BY DEF TypeOK, DeleteKey, Keys, Effect

(* Every command leaves a proper keyspace and touches what it changes. *)
LEMMA CommandEffect ==
    ASSUME TypeOK, NEW cmd \in Command, Execute(cmd)
    PROVE  \E K : Effect(K)
<1> DEFINE k == cmd.key
           j == cmd.to
<1>0. k \in Key /\ j \in Key
    BY DEF Command
<1>1. CASE NoEffect
    BY <1>1, NothingChanges
<1>2. CASE DeleteKey(k)
    BY <1>0, <1>2, DeleteEffect
<1>3. CASE SetKey(k)
  <2>1. Effect({k})
      BY <1>0, <1>3 DEF TypeOK, SetKey, Keys, Effect
  <2> QED BY <2>1
<1>4. CASE RenameKey(k, j) /\ ~NoEffect
  <2>1. Effect({k, j})
      BY <1>0, <1>4 DEF TypeOK, RenameKey, Keys, Effect
  <2> QED BY <2>1
<1>5. CASE FlushAll
  <2>1. Effect(exists)
      BY <1>5 DEF TypeOK, FlushAll, Keys, Effect
  <2> QED BY <2>1
<1>6. CASE ExpireKey(k)
  <2>1. CASE NoEffect \/ DeleteKey(k)
      BY <2>1, <1>1, <1>2
  <2>2. CASE k \in exists /\ Keys(exists, expires \cup {k}) /\ Changed({k}) /\ Touched({k})
    <3>1. Effect({k})
        BY <1>0, <2>2 DEF TypeOK, Keys, Effect
    <3> QED BY <3>1
  <2> QED BY <1>6, <2>1, <2>2 DEF ExpireKey
<1>7. CASE PersistKey(k)
  <2>1. CASE NoEffect \/ DeleteKey(k)
      BY <2>1, <1>1, <1>2
  <2>2. CASE k \in expires /\ Keys(exists, expires \ {k}) /\ Changed({k}) /\ Touched({k})
    <3>1. Effect({k})
        BY <1>0, <2>2 DEF TypeOK, Keys, Effect
    <3> QED BY <3>1
  <2> QED BY <1>7, <2>1, <2>2 DEF PersistKey, LookupExpired
<1> QED
    BY <1>1, <1>2, <1>3, <1>4, <1>5, <1>6, <1>7 DEF Execute, GetKey, LookupExpired

-----------------------------------------------------------------------------
LEMMA NobodyWatches == DOMAIN NoWatch = {}
BY DEF NoWatch

LEMMA WatchersAreFinite ==
    /\ IsFiniteSet(Watching)
    /\ Cardinality(Watching) \in Nat
<1>1. IsFiniteSet(Client) /\ Watching \in SUBSET Client
    BY TransactionsAssumption DEF Watching
<1> QED
    BY <1>1, FS_Subset, FS_CardinalityType

(* A client that forgets its watches is counted out, if it was counted in. *)
LEMMA ClearInv ==
    ASSUME TxInv, NEW c \in Client, ClearWatches(c)
    PROVE  /\ DOMAIN watched' = Client /\ DOMAIN seen' = Client
           /\ \A d \in Client : watched'[d] = IF d = c THEN NoWatch ELSE watched[d]
           /\ watch_registered' \in [Client -> BOOLEAN]
           /\ watch_clients' \in Nat
           /\ WatchersAreCounted'
           /\ Registered'
<1> USE DEF TxInv, TypeOK, Registered
<1>1. /\ DOMAIN watched' = Client /\ DOMAIN seen' = Client
      /\ \A d \in Client : watched'[d] = IF d = c THEN NoWatch ELSE watched[d]
      /\ \A d \in Client : seen'[d] = IF d = c THEN NoWatch ELSE seen[d]
      /\ watch_registered' \in [Client -> BOOLEAN]
      /\ \A d \in Client : watch_registered'[d] = IF d = c THEN FALSE ELSE watch_registered[d]
    BY DEF ClearWatches
<1>2. Watching' = Watching \ {c}
    BY <1>1, NobodyWatches DEF Watching
<1>3. Cardinality(Watching') = IF c \in Watching THEN Cardinality(Watching) - 1
                                                 ELSE Cardinality(Watching)
    BY <1>2, WatchersAreFinite, FS_RemoveElement
<1>4. c \in Watching <=> watch_registered[c]
    BY DEF Watching
<1>5. watch_clients = Cardinality(Watching)
    BY DEF WatchersAreCounted, Watching
<1>6. watch_clients' = Cardinality(Watching')
    BY <1>3, <1>4, <1>5 DEF ClearWatches
<1>7. Cardinality(Watching') \in Nat
    BY <1>2, WatchersAreFinite, FS_RemoveElement, FS_CardinalityType
<1>8. WatchersAreCounted'
    BY <1>6 DEF WatchersAreCounted, Watching
<1>9. Registered'
    BY <1>1, NobodyWatches
<1> QED
    BY <1>1, <1>6, <1>7, <1>8, <1>9

(* A client is counted in when it watches its first key. *)
LEMMA WatchInv ==
    ASSUME TxInv, NEW c \in Client, NEW k \in Key, Watch(c, k)
    PROVE  TxInv'
<1> USE DEF TxInv, TypeOK, Registered
<1>1. /\ DOMAIN watched' = Client /\ DOMAIN seen' = Client
      /\ \A d \in Client : d # c => watched'[d] = watched[d] /\ seen'[d] = seen[d]
      /\ DOMAIN watched'[c] = DOMAIN watched[c] \cup {k}
      /\ DOMAIN seen'[c] = DOMAIN watched[c] \cup {k}
      /\ \A j \in DOMAIN watched'[c] :
            watched'[c][j] = IF j = k THEN watch_versions[k] ELSE watched[c][j]
      /\ watch_registered' \in [Client -> BOOLEAN]
      /\ \A d \in Client : watch_registered'[d] = IF d = c THEN TRUE ELSE watch_registered[d]
    BY DEF Watch
<1>2. Watching' = Watching \cup {c}
  <2>1. DOMAIN watched'[c] # {}
      BY <1>1
  <2>2. \A d \in Client : DOMAIN watched'[d] # {} <=> DOMAIN watched[d] # {} \/ d = c
      BY <1>1, <2>1
  <2>3. Watching' = {d \in Client : DOMAIN watched'[d] # {}}
      BY DEF Watching
  <2> QED BY <2>2, <2>3 DEF Watching
<1>3. Cardinality(Watching') = IF c \in Watching THEN Cardinality(Watching)
                                                 ELSE Cardinality(Watching) + 1
    BY <1>2, WatchersAreFinite, FS_AddElement
<1>4. c \in Watching <=> watch_registered[c]
    BY DEF Watching
<1>5. watch_clients = Cardinality(Watching)
    BY DEF WatchersAreCounted, Watching
<1>6. watch_clients' = Cardinality(Watching')
    BY <1>3, <1>4, <1>5 DEF Watch
<1>7. WatchersAreCounted'
    BY <1>6 DEF WatchersAreCounted, Watching
<1>8. Registered'
    BY ZenonT(60), <1>1
<1>9. UNCHANGED <<exists, expires, rev, watch_versions, watch_seq, active, queue, running, reply>>
    BY DEF Watch, keyspace
<1>10. VersionsAreOld'
    BY ZenonT(60), <1>1, <1>9 DEF VersionsAreOld
<1>11. watch_clients' \in Nat
    BY <1>3, <1>6, WatchersAreFinite
<1>12. \A d \in Client : /\ DOMAIN watched'[d] \subseteq Key
                         /\ \A j \in DOMAIN watched'[d] : watched'[d][j] \in Nat
  <2>1. DOMAIN watched'[c] \subseteq Key
      BY <1>1
  <2>2. \A j \in DOMAIN watched'[c] : watched'[c][j] \in Nat
    <3>1. watch_versions[k] \in Nat
        OBVIOUS
    <3>2. \A j \in DOMAIN watched[c] : watched[c][j] \in Nat
        OBVIOUS
    <3> QED BY <1>1, <3>1, <3>2
  <2>3. \A d \in Client : d # c => watched'[d] = watched[d]
      BY <1>1
  <2> QED BY <2>1, <2>2, <2>3
<1>13. TypeOK'
    BY <1>1, <1>9, <1>11, <1>12
<1> QED
    BY <1>7, <1>8, <1>10, <1>13

(* A command leaves the watches alone and no version ahead of the sequence. *)
LEMMA EffectInv ==
    ASSUME TxInv, NEW K, Effect(K), UNCHANGED watches, UNCHANGED <<active, running, reply>>,
           queue' \in [Client -> Seq(Command)]
    PROVE  TxInv'
<1> USE DEF TxInv
<1>1. UNCHANGED <<watched, watch_registered, watch_clients, seen>>
    BY DEF watches
<1>2. /\ exists' \subseteq Key /\ expires' \subseteq exists'
      /\ rev' \in [Key -> Nat]
    BY DEF TypeOK, Effect, Changed
<1>3. /\ watch_versions' \in [Key -> Nat]
      /\ watch_seq' \in Nat /\ watch_seq <= watch_seq'
      /\ \A k \in Key : watch_versions'[k] <= watch_seq'
  <2>1. CASE UNCHANGED <<watch_versions, watch_seq>>
      BY <2>1 DEF TypeOK, VersionsAreOld
  <2>2. CASE /\ watch_seq' = watch_seq + 1
             /\ watch_versions' =
                   [k \in Key |-> IF k \in K THEN watch_seq' ELSE watch_versions[k]]
      BY <2>2 DEF TypeOK, VersionsAreOld
  <2> QED BY <2>1, <2>2 DEF Effect, Touched
<1>4. TypeOK'
    BY <1>1, <1>2, <1>3 DEF TypeOK
<1>5. VersionsAreOld'
    BY <1>1, <1>3 DEF VersionsAreOld, TypeOK
<1> QED
    BY <1>1, <1>4, <1>5 DEF WatchersAreCounted, Registered
-----------------------------------------------------------------------------
LEMMA TxInit == Init => TxInv
<1> SUFFICES ASSUME Init
             PROVE  TxInv
    OBVIOUS
<1> USE NobodyWatches DEF Init
<1>1. Registered /\ VersionsAreOld
    BY DEF Registered, VersionsAreOld
<1>2. Watching = {}
    BY DEF Watching
<1>3. WatchersAreCounted
    BY <1>2, FS_EmptySet DEF WatchersAreCounted, Watching
<1>4. TypeOK
    BY DEF TypeOK
<1> QED
    BY <1>1, <1>3, <1>4 DEF TxInv

(* The keyspace and the sequence stay; a queue or a reply may change. *)
LEMMA ClearStep ==
    ASSUME TxInv, NEW c \in Client, ClearWatches(c), UNCHANGED keyspace,
           active' \in [Client -> BOOLEAN],
           queue' \in [Client -> Seq(Command)],
           running' \in Client \cup {NoClient},
           reply' \in [Client -> {"none", "null", "array"}]
    PROVE  TxInv'
<1>1. UNCHANGED <<exists, expires, rev, watch_versions, watch_seq>>
    BY DEF keyspace
<1>2. \A d \in Client : /\ DOMAIN watched'[d] \subseteq Key
                        /\ \A k \in DOMAIN watched'[d] : watched'[d][k] \in Nat
    BY ClearInv, NobodyWatches DEF TxInv, TypeOK
<1>3. TypeOK'
    BY <1>1, <1>2, ClearInv DEF TxInv, TypeOK
<1>4. VersionsAreOld'
    BY <1>1, ClearInv, NobodyWatches DEF TxInv, VersionsAreOld
<1> QED
    BY <1>3, <1>4, ClearInv DEF TxInv

LEMMA ClearQueueType ==
    ASSUME TypeOK, NEW c \in Client, ClearQueue(c)
    PROVE  active' \in [Client -> BOOLEAN] /\ queue' \in [Client -> Seq(Command)]
BY DEF TypeOK, ClearQueue

(* Neither the keyspace nor a watch changes. *)
LEMMA QuietStep ==
    ASSUME TxInv, UNCHANGED <<keyspace, watches>>,
           active' \in [Client -> BOOLEAN],
           queue' \in [Client -> Seq(Command)],
           running' \in Client \cup {NoClient},
           reply' \in [Client -> {"none", "null", "array"}]
    PROVE  TxInv'
BY DEF TxInv, TypeOK, WatchersAreCounted, Registered, VersionsAreOld, keyspace, watches

LEMMA TxStep == TxInv /\ [Next]_vars => TxInv'
<1> SUFFICES ASSUME TxInv, [Next]_vars
             PROVE  TxInv'
    OBVIOUS
<1>0. TypeOK
    BY DEF TxInv
<1>1. ASSUME NEW c \in Client, NEW cmd \in Command, ClientCommand(c, cmd)
      PROVE  TxInv'
  <2>1. PICK K : Effect(K)
      BY <1>0, <1>1, CommandEffect DEF ClientCommand
  <2> QED BY <1>0, <1>1, <2>1, EffectInv DEF ClientCommand, TypeOK
<1>2. ASSUME NEW c \in Client, NEW cmd \in Command, QueueCommand(c, cmd)
      PROVE  TxInv'
    BY <1>0, <1>2, QuietStep DEF QueueCommand, TypeOK
<1>3. ASSUME NEW c \in Client, Multi(c)
      PROVE  TxInv'
    BY <1>0, <1>3, QuietStep DEF Multi, TypeOK
<1>4. ASSUME NEW c \in Client, NEW k \in Key, Watch(c, k)
      PROVE  TxInv'
    BY <1>4, WatchInv
<1>5. ASSUME NEW c \in Client, Unwatch(c)
      PROVE  TxInv'
    BY <1>0, <1>5, ClearStep DEF Unwatch, TypeOK
<1>6. ASSUME NEW c \in Client, Discard(c) \/ Reset(c)
      PROVE  TxInv'
    BY <1>0, <1>6, ClearStep, ClearQueueType DEF Discard, Reset, TypeOK
<1>7. ASSUME NEW c \in Client, Exec(c)
      PROVE  TxInv'
    BY <1>0, <1>7, QuietStep DEF Exec, TypeOK
<1>8. ASSUME NEW c \in Client, ExecAborts(c)
      PROVE  TxInv'
    BY <1>0, <1>8, ClearStep, ClearQueueType DEF ExecAborts, TypeOK
<1>9. ASSUME NEW c \in Client, ExecNext(c)
      PROVE  TxInv'
  <2>1. Head(queue[c]) \in Command /\ queue' \in [Client -> Seq(Command)]
      BY <1>0, <1>9 DEF ExecNext, TypeOK
  <2>2. PICK K : Effect(K)
      BY <1>0, <1>9, <2>1, CommandEffect DEF ExecNext
  <2> QED BY <1>9, <2>1, <2>2, EffectInv DEF ExecNext
<1>10. ASSUME NEW c \in Client, ExecEnds(c)
       PROVE  TxInv'
    BY <1>0, <1>10, ClearStep, ClearQueueType DEF ExecEnds, TypeOK
<1>11. CASE UNCHANGED vars
    BY <1>0, <1>11, QuietStep DEF vars, TypeOK
<1> QED
    BY <1>1, <1>2, <1>3, <1>4, <1>5, <1>6, <1>7, <1>8, <1>9, <1>10, <1>11 DEF Next

THEOREM Invariance == Spec => []TxInv
BY TxInit, TxStep, PTL DEF Spec

(* The types, and that a key with a TTL is a key of the keyspace, for      *)
(* every set of clients and keys and through every command.                *)
THEOREM TypeCorrect == Spec => []TypeOK
<1>1. TxInv => TypeOK
    BY DEF TxInv
<1> QED
    BY <1>1, Invariance, PTL

(* The counter that decides whether versions are kept never loses or       *)
(* invents a client, whichever way clients stop watching.                  *)
THEOREM WatchersCounted == Spec => []WatchersAreCounted
<1>1. TxInv => WatchersAreCounted
    BY DEF TxInv
<1> QED
    BY <1>1, Invariance, PTL
-----------------------------------------------------------------------------
(* The refinement mapping, named. *)
Pairs == {w \in Client \X Key : w[2] \in DOMAIN watched[w[1]]}
DirtyPairs == {w \in Client \X Key :
                 /\ w[2] \in DOMAIN watched[w[1]]
                 /\ watched[w[1]][w[2]] # watch_versions[w[2]]}

LEMMA PairType == \A w \in Client \X Key : w[1] \in Client /\ w[2] \in Key
OBVIOUS

(* With the versions untouched nobody watches; with the versions touched a *)
(* watched key gets one that nobody remembers.  Either way what is changed *)
(* becomes dirty, and nothing else does.                                   *)
LEMMA EffectIsChange ==
    ASSUME TxInv, NEW K, Effect(K), UNCHANGED watches, UNCHANGED <<running, reply>>
    PROVE  Dirty!Change(K)
<1>1. UNCHANGED <<watched, watch_clients>>
    BY DEF watches
<1>2. Pairs' = Pairs
    BY <1>1 DEF Pairs
<1>3. DirtyPairs' = DirtyPairs \cup {w \in Pairs : w[2] \in K}
  <2>1. CASE watch_clients = 0
    <3>1. Watching = {}
        BY <2>1, WatchersAreFinite, FS_EmptySet DEF TxInv, WatchersAreCounted, Watching
    <3>2. Pairs = {} /\ DirtyPairs = {}
        BY <3>1, PairType DEF Pairs, DirtyPairs, Watching
    <3>3. DirtyPairs' = {}
        BY <1>2, <3>2 DEF Pairs, DirtyPairs
    <3> QED BY <3>2, <3>3
  <2>2. CASE K = {}
    <3>1. UNCHANGED watch_versions
        BY <2>2 DEF Effect, Touched
    <3> QED BY <1>1, <2>2, <3>1 DEF DirtyPairs
  <2>3. CASE watch_clients # 0 /\ K # {}
    <3>1. /\ watch_seq' = watch_seq + 1
          /\ \A k \in Key : watch_versions'[k] = IF k \in K THEN watch_seq' ELSE watch_versions[k]
        BY <2>3 DEF Effect, Touched
    <3>2. ASSUME NEW c \in Client, NEW k \in DOMAIN watched[c]
          PROVE  watched[c][k] # watch_versions'[k]
                   <=> k \in K \/ watched[c][k] # watch_versions[k]
      <4>1. /\ k \in Key /\ watched[c][k] \in Nat /\ watch_seq \in Nat
            /\ watched[c][k] <= watch_seq
          BY DEF TxInv, TypeOK, VersionsAreOld
      <4> QED BY <3>1, <4>1
    <3>3. \A w \in Client \X Key :
             w \in DirtyPairs' <=> w \in DirtyPairs \/ (w \in Pairs /\ w[2] \in K)
        BY <1>1, <3>2, PairType DEF Pairs, DirtyPairs
    <3>4. /\ DirtyPairs' \subseteq Client \X Key
          /\ DirtyPairs \subseteq Client \X Key /\ Pairs \subseteq Client \X Key
        BY DEF Pairs, DirtyPairs
    <3> QED BY <3>3, <3>4
  <2> QED BY <2>1, <2>2, <2>3
<1> QED
    BY <1>2, <1>3 DEF Effect, Changed, Dirty!Change, Pairs, DirtyPairs

LEMMA ClearIsForgotten ==
    ASSUME TxInv, NEW c \in Client, ClearWatches(c), UNCHANGED watch_versions
    PROVE  Pairs' = Pairs \ Dirty!Of(c) /\ DirtyPairs' = DirtyPairs \ Dirty!Of(c)
<1>1. \A d \in Client : watched'[d] = IF d = c THEN NoWatch ELSE watched[d]
    BY ClearInv
<1>2. \A w \in Client \X Key : w \in Dirty!Of(c) <=> w[1] = c
    BY PairType DEF Dirty!Of
<1>3. Pairs \ Dirty!Of(c) = {w \in Pairs : w[1] # c}
    BY <1>2 DEF Pairs
<1>4. DirtyPairs \ Dirty!Of(c) = {w \in DirtyPairs : w[1] # c}
    BY <1>2 DEF DirtyPairs
<1>5. Pairs' = {w \in Pairs : w[1] # c}
    BY <1>1, PairType, NobodyWatches DEF Pairs
<1>6. DirtyPairs' = {w \in DirtyPairs : w[1] # c}
    BY <1>1, PairType, NobodyWatches DEF DirtyPairs
<1> QED
    BY <1>3, <1>4, <1>5, <1>6

LEMMA WatchIsWatch ==
    ASSUME TxInv, NEW c \in Client, NEW k \in Key, Watch(c, k)
    PROVE  Dirty!Watch(c, k)
<1>1. /\ \A d \in Client : d # c => watched'[d] = watched[d]
      /\ watched'[c] = [j \in DOMAIN watched[c] \cup {k} |->
                          IF j = k THEN watch_versions[k] ELSE watched[c][j]]
    BY DEF Watch, TxInv, TypeOK
<1>2. UNCHANGED watch_versions
    BY DEF Watch, keyspace
<1>3. \A w \in Client \X Key : w = <<c, k>> <=> w[1] = c /\ w[2] = k
    OBVIOUS
<1>4. \A w \in Client \X Key :
         /\ w \in Pairs' <=> w \in Pairs \/ w = <<c, k>>
         /\ w \in DirtyPairs' <=> w \in DirtyPairs /\ w # <<c, k>>
    BY <1>1, <1>2, <1>3, PairType DEF Pairs, DirtyPairs
<1>5. /\ Pairs' \subseteq Client \X Key /\ DirtyPairs' \subseteq Client \X Key
      /\ Pairs \subseteq Client \X Key /\ DirtyPairs \subseteq Client \X Key
    BY DEF Pairs, DirtyPairs
<1>6. Pairs' = Pairs \cup {<<c, k>>} /\ DirtyPairs' = DirtyPairs \ {<<c, k>>}
    BY <1>4, <1>5
<1> QED
    BY <1>6 DEF Watch, Idle, keyspace, Dirty!Watch, Pairs, DirtyPairs

(* EXEC's test of versions is DirtyKeys' test of flags. *)
LEMMA MatchIsClean ==
    ASSUME TxInv, NEW c \in Client
    PROVE  WatchesMatch(c) <=> DirtyPairs \cap Dirty!Of(c) = {}
<1>1. \A w \in Client \X Key : w \in Dirty!Of(c) <=> w[1] = c
    BY PairType DEF Dirty!Of
<1>2. DOMAIN watched[c] \subseteq Key
    BY DEF TxInv, TypeOK
<1>3. ASSUME WatchesMatch(c)
      PROVE  DirtyPairs \cap Dirty!Of(c) = {}
    BY <1>1, <1>3 DEF WatchesMatch, DirtyPairs
<1>4. ASSUME DirtyPairs \cap Dirty!Of(c) = {}, NEW k \in DOMAIN watched[c]
      PROVE  watch_versions[k] = watched[c][k]
  <2>1. <<c, k>> \in Client \X Key /\ <<c, k>>[1] = c /\ <<c, k>>[2] = k
      BY <1>2
  <2>2. <<c, k>> \notin DirtyPairs
      BY <1>1, <1>4, <2>1
  <2> QED BY <2>1, <2>2 DEF DirtyPairs
<1> QED
    BY <1>3, <1>4 DEF WatchesMatch
(* Versions kept only while somebody watches, and compared at EXEC, do what *)
(* dirty flags would: for every set of clients and keys a transaction runs  *)
(* exactly when no key its client watches was changed since.                *)
THEOREM TransactionsImplementDirtyKeys == Spec => ImplementsDirtyKeys
<1>1. Init => Dirty!Init
    BY NobodyWatches DEF Init, Dirty!Init
<1>2. TxInv /\ [Next]_vars => [Dirty!Next]_(Dirty!dvars)
  <2> SUFFICES ASSUME TxInv, [Next]_vars
               PROVE  [Dirty!Next]_(Dirty!dvars)
      OBVIOUS
  <2>0. TypeOK
      BY DEF TxInv
  <2>1. ASSUME UNCHANGED <<rev, watched, watch_versions, running, reply>>
        PROVE  UNCHANGED Dirty!dvars
      BY <2>1 DEF Dirty!dvars
  <2>2. ASSUME NEW K, Effect(K), UNCHANGED watches, UNCHANGED <<running, reply>>
        PROVE  Dirty!Next
    <3>1. K \in SUBSET Key
        BY <2>2 DEF Effect
    <3> QED BY <2>2, <3>1, EffectIsChange DEF Dirty!Next
  <2>3. ASSUME NEW c \in Client, ClearWatches(c), running = NoClient,
               UNCHANGED <<keyspace, running, reply>>
        PROVE  Dirty!Next
    <3>1. Dirty!Forget(c)
        BY <2>3, ClearIsForgotten DEF keyspace, Dirty!Forget, Pairs, DirtyPairs
    <3> QED BY <3>1 DEF Dirty!Next
  <2>4. ASSUME NEW c \in Client, NEW cmd \in Command, ClientCommand(c, cmd)
        PROVE  Dirty!Next
    <3>1. PICK K : Effect(K)
        BY <2>0, <2>4, CommandEffect DEF ClientCommand
    <3> QED BY <2>2, <2>4, <3>1 DEF ClientCommand
  <2>5. ASSUME NEW c \in Client, Multi(c) \/ \E cmd \in Command : QueueCommand(c, cmd)
        PROVE  UNCHANGED Dirty!dvars
      BY <2>1, <2>5 DEF QueueCommand, Multi, keyspace, watches
  <2>6. ASSUME NEW c \in Client, NEW k \in Key, Watch(c, k)
        PROVE  Dirty!Next
      BY <2>6, WatchIsWatch DEF Dirty!Next
  <2>7. ASSUME NEW c \in Client, Unwatch(c) \/ Discard(c) \/ Reset(c)
        PROVE  Dirty!Next
      BY <2>3, <2>7 DEF Unwatch, Discard, Reset, Idle
  <2>8. ASSUME NEW c \in Client, Exec(c)
        PROVE  Dirty!Next
    <3>1. Dirty!Begin(c)
        BY <2>8, MatchIsClean
        DEF Exec, Idle, keyspace, watches, Dirty!Begin, Pairs, DirtyPairs
    <3> QED BY <3>1 DEF Dirty!Next
  <2>9. ASSUME NEW c \in Client, ExecAborts(c)
        PROVE  Dirty!Next
    <3>1. Dirty!Abort(c)
        BY <2>9, MatchIsClean, ClearIsForgotten
        DEF ExecAborts, Idle, keyspace, Dirty!Abort, Pairs, DirtyPairs
    <3> QED BY <3>1 DEF Dirty!Next
  <2>10. ASSUME NEW c \in Client, ExecNext(c)
         PROVE  Dirty!Next
    <3>1. Head(queue[c]) \in Command
        BY <2>0, <2>10 DEF ExecNext, TypeOK
    <3>2. PICK K : Effect(K)
        BY <2>0, <2>10, <3>1, CommandEffect DEF ExecNext
    <3> QED BY <2>2, <2>10, <3>2 DEF ExecNext
  <2>11. ASSUME NEW c \in Client, ExecEnds(c)
         PROVE  Dirty!Next
    <3>1. Dirty!End(c)
        BY <2>11, ClearIsForgotten DEF ExecEnds, keyspace, Dirty!End, Pairs, DirtyPairs
    <3> QED BY <3>1 DEF Dirty!Next
  <2>12. CASE UNCHANGED vars
      BY <2>1, <2>12 DEF vars, keyspace, watches
  <2> QED
      BY <2>4, <2>5, <2>6, <2>7, <2>8, <2>9, <2>10, <2>11, <2>12 DEF Next
<1> QED
    BY <1>1, <1>2, Invariance, PTL DEF Spec, ImplementsDirtyKeys, Dirty!Spec
-----------------------------------------------------------------------------
(* A watched key whose version still matches has not been changed. *)
MatchMeansUnchanged ==
    \A c \in Client : \A k \in DOMAIN watched[c] :
        watched[c][k] = watch_versions[k] => rev[k] = seen[c][k]

LEMMA EffectKeepsMatch ==
    ASSUME TxInv, MatchMeansUnchanged, NEW K, Effect(K), UNCHANGED watches
    PROVE  MatchMeansUnchanged'
<1>1. UNCHANGED <<watched, seen, watch_clients>>
    BY DEF watches
<1>2. SUFFICES ASSUME NEW c \in Client, NEW k \in DOMAIN watched[c],
                      watched[c][k] = watch_versions'[k]
               PROVE  rev'[k] = seen[c][k]
    BY <1>1 DEF MatchMeansUnchanged
<1>3. /\ k \in Key /\ watched[c][k] \in Nat /\ watch_seq \in Nat
      /\ watched[c][k] <= watch_seq
    BY DEF TxInv, TypeOK, VersionsAreOld
<1>4. watch_clients # 0
  <2>1. c \in Watching
      BY DEF Watching
  <2> QED
      BY <2>1, WatchersAreFinite, FS_EmptySet DEF TxInv, WatchersAreCounted, Watching
<1>5. k \notin K /\ watch_versions'[k] = watch_versions[k]
    BY <1>2, <1>3, <1>4 DEF Effect, Touched, TxInv, TypeOK
<1>6. rev'[k] = rev[k]
    BY <1>3, <1>5 DEF Effect, Changed
<1> QED
    BY <1>2, <1>5, <1>6 DEF MatchMeansUnchanged

LEMMA ClearKeepsMatch ==
    ASSUME TxInv, MatchMeansUnchanged, NEW c \in Client, ClearWatches(c), UNCHANGED keyspace
    PROVE  MatchMeansUnchanged'
<1>1. \A d \in Client : /\ watched'[d] = IF d = c THEN NoWatch ELSE watched[d]
                        /\ seen'[d] = IF d = c THEN NoWatch ELSE seen[d]
    BY DEF ClearWatches, TxInv, TypeOK
<1>2. UNCHANGED <<rev, watch_versions>>
    BY DEF keyspace
<1> QED
    BY <1>1, <1>2, NobodyWatches DEF MatchMeansUnchanged

LEMMA WatchKeepsMatch ==
    ASSUME TxInv, MatchMeansUnchanged, NEW c \in Client, NEW k \in Key, Watch(c, k)
    PROVE  MatchMeansUnchanged'
<1>1. /\ \A d \in Client : d # c => watched'[d] = watched[d] /\ seen'[d] = seen[d]
      /\ watched'[c] = [j \in DOMAIN watched[c] \cup {k} |->
                          IF j = k THEN watch_versions[k] ELSE watched[c][j]]
      /\ seen'[c] = [j \in DOMAIN watched[c] \cup {k} |->
                       IF j = k THEN rev[k] ELSE seen[c][j]]
    BY DEF Watch, TxInv, TypeOK, Registered
<1>2. UNCHANGED <<rev, watch_versions>>
    BY DEF Watch, keyspace
<1> QED
    BY <1>1, <1>2 DEF MatchMeansUnchanged

LEMMA MatchStep == TxInv /\ MatchMeansUnchanged /\ [Next]_vars => MatchMeansUnchanged'
<1> SUFFICES ASSUME TxInv, MatchMeansUnchanged, [Next]_vars
             PROVE  MatchMeansUnchanged'
    OBVIOUS
<1>0. TypeOK
    BY DEF TxInv
<1>1. ASSUME UNCHANGED <<keyspace, watches>>
      PROVE  MatchMeansUnchanged'
    BY <1>1 DEF MatchMeansUnchanged, keyspace, watches
<1>2. ASSUME NEW c \in Client, NEW cmd \in Command, ClientCommand(c, cmd)
      PROVE  MatchMeansUnchanged'
  <2>1. PICK K : Effect(K)
      BY <1>0, <1>2, CommandEffect DEF ClientCommand
  <2> QED BY <1>2, <2>1, EffectKeepsMatch DEF ClientCommand
<1>3. ASSUME NEW c \in Client, ExecNext(c)
      PROVE  MatchMeansUnchanged'
  <2>1. Head(queue[c]) \in Command
      BY <1>0, <1>3 DEF ExecNext, TypeOK
  <2>2. PICK K : Effect(K)
      BY <1>0, <1>3, <2>1, CommandEffect DEF ExecNext
  <2> QED BY <1>3, <2>2, EffectKeepsMatch DEF ExecNext
<1>4. ASSUME NEW c \in Client, NEW k \in Key, Watch(c, k)
      PROVE  MatchMeansUnchanged'
    BY <1>4, WatchKeepsMatch
<1>5. ASSUME NEW c \in Client,
             Unwatch(c) \/ Discard(c) \/ Reset(c) \/ ExecAborts(c) \/ ExecEnds(c)
      PROVE  MatchMeansUnchanged'
    BY <1>5, ClearKeepsMatch DEF Unwatch, Discard, Reset, ExecAborts, ExecEnds
<1>6. ASSUME NEW c \in Client,
             Multi(c) \/ Exec(c) \/ \E cmd \in Command : QueueCommand(c, cmd)
      PROVE  MatchMeansUnchanged'
    BY <1>1, <1>6 DEF Multi, Exec, QueueCommand
<1>7. CASE UNCHANGED vars
    BY <1>1, <1>7 DEF vars
<1> QED
    BY <1>2, <1>3, <1>4, <1>5, <1>6, <1>7 DEF Next

(* As long as every change goes through the keyspace, which touches the    *)
(* version, no transaction runs over a key its client watched and somebody *)
(* changed: the in-place commands of SpecInPlace are the only way around.  *)
THEOREM NoStaleTransaction == Spec => WatchedKeysUnchanged
<1>1. Init => MatchMeansUnchanged
    BY NobodyWatches DEF Init, MatchMeansUnchanged
<1>2. Spec => []MatchMeansUnchanged
    BY <1>1, MatchStep, Invariance, PTL DEF Spec
<1>3. TxInv /\ MatchMeansUnchanged /\ [Next]_vars
        => [\A c \in Client :
              running # c /\ running' = c
                => \A k \in DOMAIN watched[c] : rev[k] = seen[c][k]]_vars
  <2> SUFFICES ASSUME TxInv, MatchMeansUnchanged, Next,
                      NEW c \in Client, running # c, running' = c,
                      NEW k \in DOMAIN watched[c]
               PROVE  rev[k] = seen[c][k]
      OBVIOUS
  <2>1. c # NoClient
      BY TransactionsAssumption
  <2>2. Exec(c)
      BY <2>1 DEF Next, ClientCommand, QueueCommand, Multi, Watch, Unwatch, Discard, Reset,
                  Exec, ExecAborts, ExecNext, ExecEnds
  <2> QED BY <2>2 DEF Exec, WatchesMatch, MatchMeansUnchanged
<1> QED
    BY <1>2, <1>3, Invariance, PTL DEF Spec, WatchedKeysUnchanged
=============================================================================
