------------------------- MODULE Replication_proofs -------------------------
(***************************************************************************)
(* Proved here for every set of servers, every window and every bound: the *)
(* types, that a connected replica's AOF holds its data, and that it       *)
(* misses exactly the rest of the stream it follows, if the id of that     *)
(* stream was not used before.  The restriction is needed: REPLICAOF NO    *)
(* ONE mostly gives the new stream the id of the old one, as TLC shows     *)
(* with MCReplidReuse.cfg.                                                 *)
(***************************************************************************)
EXTENDS Replication, SequenceTheorems, TLAPS

(* Where an exchange is, and what the replica had when it asked: nothing   *)
(* of this changes while it is blocked.                                    *)
ExchangesAreInOrder ==
    \A r \in Node :
        /\ IF role[r] = "master" THEN replid[r] \in Replid ELSE upstream[r] \in Node
        /\ link[r] = "connected" => role[r] = "replica" /\ master_replid[r] \in Replid
        /\ rpc[r].kind # "idle" =>
              role[r] = "replica" /\ link[r] \in {"syncing", "connected"}
        /\ rpc[r].kind = "continue" => link[r] = "connected"
        /\ rpc[r].kind = "ask" =>
              \/ rpc[r].id = NoReplid
              \/ /\ link[r] = "connected"
                 /\ rpc[r].id = master_replid[r]
                 /\ rpc[r].offset = master_offset[r]

(* An id that a server has used, or may be using: an id that is not minted *)
(* is held by nobody.                                                      *)
Minted(id) ==
    /\ id \in Replid
    /\ id.start <= life[id.node]
    /\ id.start = life[id.node] /\ id.seed = "start_ms" => resets[id.node] >= 1

IdsAreMinted ==
    /\ \A m \in Node : role[m] = "master" => Minted(replid[m]) /\ replid[m].node = m
    /\ \A r \in Node : master_replid[r] # NoReplid => Minted(master_replid[r])
    /\ \A r \in Node : rpc[r].kind = "fullresync" => Minted(rpc[r].id)

(* The dataset d with the first k writes of m's stream is short of m's by  *)
(* the rest of that stream.                                                *)
Rest(m, k) == SubSeq(stream[m], k + 1, Offset(m))
ShortOf(m, d, k) == k <= Offset(m) /\ db[m] = d \o Rest(m, k)

(* What is behind MissesRestOfStream: what a connected replica has, the    *)
(* snapshot on its way to it and the delta on its way to it all fit the    *)
(* stream they name.                                                       *)
DataFits(r, m) ==
    link[r] = "connected" /\ master_replid[r] = replid[m] =>
        ShortOf(m, db[r], master_offset[r])

SnapshotFits(r, m) ==
    rpc[r].kind = "fullresync" /\ rpc[r].id = replid[m] =>
        ShortOf(m, rpc[r].data, rpc[r].offset)

DeltaFits(r, m) ==
    rpc[r].kind = "continue" /\ master_replid[r] = replid[m] =>
        /\ master_offset[r] <= rpc[r].offset
        /\ rpc[r].offset <= Offset(m)
        /\ rpc[r].data = SubSeq(stream[m], master_offset[r] + 1, rpc[r].offset)

Trusted(m) == role[m] = "master" /\ IdUsedOnce(m)

AnswersFit ==
    \A r, m \in Node :
        Trusted(m) => DataFits(r, m) /\ SnapshotFits(r, m) /\ DeltaFits(r, m)

ReplicaInv == TypeOK /\ ExchangesAreInOrder /\ ReplicaAofHoldsData
StreamInv == ReplicaInv /\ IdsAreMinted /\ AnswersFit

-----------------------------------------------------------------------------
(* What a field of an exchange is, read off its kind. *)
LEMMA RpcKinds ==
    ASSUME NEW q \in RpcType
    PROVE  /\ q.kind \in {"idle", "error", "lost", "ask", "fullresync", "continue"}
           /\ q.kind = "idle" => q = Idle
           /\ q.kind = "ask" =>
                 q.to \in Node /\ q.id \in Replid \cup {NoReplid} /\ q.offset \in Nat
           /\ q.kind = "fullresync" =>
                 q.id \in Replid /\ q.offset \in Nat /\ q.data \in Dataset
           /\ q.kind = "continue" => q.offset \in Nat /\ q.data \in Dataset
<1>1. CASE q \in {Idle, ErrorReply, Lost}
    BY <1>1 DEF Idle, ErrorReply, Lost
<1>2. CASE q \in [kind : {"ask"}, to : Node, id : Replid \cup {NoReplid}, offset : Nat]
    BY <1>2
<1>3. CASE q \in [kind : {"fullresync"}, id : Replid, offset : Nat, data : Dataset]
    BY <1>3
<1>4. CASE q \in [kind : {"continue"}, offset : Nat, data : Dataset]
    BY <1>4
<1> QED
    BY <1>1, <1>2, <1>3, <1>4 DEF RpcType

LEMMA RpcForms ==
    /\ Idle \in RpcType /\ ErrorReply \in RpcType /\ Lost \in RpcType
    /\ \A m \in Node, id \in Replid \cup {NoReplid}, k \in Nat : Ask(m, id, k) \in RpcType
    /\ \A id \in Replid, k \in Nat, d \in Dataset : FullResync(id, k, d) \in RpcType
    /\ \A k \in Nat, d \in Dataset : Continue(k, d) \in RpcType
<1>1. Idle \in RpcType /\ ErrorReply \in RpcType /\ Lost \in RpcType
    BY DEF RpcType
<1>2. ASSUME NEW m \in Node, NEW id \in Replid \cup {NoReplid}, NEW k \in Nat
      PROVE  Ask(m, id, k) \in RpcType
    BY DEF RpcType, Ask
<1>3. ASSUME NEW id \in Replid, NEW k \in Nat, NEW d \in Dataset
      PROVE  FullResync(id, k, d) \in RpcType
    BY DEF RpcType, FullResync
<1>4. ASSUME NEW k \in Nat, NEW d \in Dataset
      PROVE  Continue(k, d) \in RpcType
    BY DEF RpcType, Continue
<1> QED
    BY <1>1, <1>2, <1>3, <1>4

(* The same of the three states without fields. *)
LEMMA PlainKinds ==
    /\ Idle.kind = "idle" /\ ErrorReply.kind = "error" /\ Lost.kind = "lost"
    /\ \A m, id, k : Ask(m, id, k).kind = "ask" /\ Ask(m, id, k).to = m
                    /\ Ask(m, id, k).id = id /\ Ask(m, id, k).offset = k
    /\ \A id, k, d : FullResync(id, k, d).kind = "fullresync" /\ FullResync(id, k, d).id = id
                    /\ FullResync(id, k, d).offset = k /\ FullResync(id, k, d).data = d
    /\ \A k, d : Continue(k, d).kind = "continue"
                    /\ Continue(k, d).offset = k /\ Continue(k, d).data = d
BY DEF Idle, ErrorReply, Lost, Ask, FullResync, Continue

LEMMA NoReplidIsNoId ==
    NoReplid \notin Replid
BY ReplicationAssumption DEF NoReplid, Replid

LEMMA MintedForms ==
    ASSUME NEW n \in Node, NEW k \in 0..MaxRestarts
    PROVE  /\ OpenId(n, k) \in Replid /\ OpenId(n, k).node = n
           /\ OpenId(n, k).start = k /\ OpenId(n, k).seed = "open_ms"
           /\ \A b \in BOOLEAN :
                 /\ ResetId(n, k, b) \in Replid /\ ResetId(n, k, b).node = n
                 /\ ResetId(n, k, b).start = k
                 /\ ResetId(n, k, b).seed = IF b THEN "open_ms" ELSE "start_ms"
BY DEF OpenId, ResetId, Replid

(* Prefixes, suffixes and concatenations of datasets are datasets. *)
LEMMA DatasetRest ==
    \A s \in Dataset : \A i \in Nat : i >= 1 => SubSeq(s, i, Len(s)) \in Dataset
BY SubSeqProperties, LenProperties DEF Dataset

LEMMA DatasetSub ==
    ASSUME NEW s \in Dataset, NEW i \in Nat, NEW j \in Nat, i >= 1, j <= Len(s)
    PROVE  /\ SubSeq(s, i, j) \in Dataset
           /\ Len(SubSeq(s, i, j)) = IF i <= j THEN j - i + 1 ELSE 0
<1>1. \A k \in i..j : s[k] \in Write
    BY ElementOfSeq, LenProperties DEF Dataset
<1> QED
    BY <1>1, SubSeqProperties DEF Dataset

LEMMA DatasetConcat ==
    ASSUME NEW s \in Dataset, NEW t \in Dataset
    PROVE  /\ s \o t \in Dataset
           /\ Len(s \o t) = Len(s) + Len(t)
BY ConcatProperties DEF Dataset

(* The rest of a stream: after all of it nothing, after one more write     *)
(* that write, after k of it what is in between and the rest after that.   *)
LEMMA RestOfAll ==
    ASSUME NEW s \in Dataset, NEW d \in Dataset
    PROVE  d = d \o SubSeq(s, Len(s) + 1, Len(s))
<1>1. SubSeq(s, Len(s) + 1, Len(s)) = <<>>
    BY SubSeqProperties, LenProperties DEF Dataset
<1> QED
    BY <1>1, ConcatEmptySeq DEF Dataset

LEMMA RestOfAppend ==
    ASSUME NEW s \in Dataset, NEW d \in Dataset, NEW w \in Write,
           NEW k \in Nat, k <= Len(s)
    PROVE  Append(d \o SubSeq(s, k + 1, Len(s)), w) =
             d \o SubSeq(Append(s, w), k + 1, Len(s) + 1)
<1> DEFINE rest == SubSeq(s, k + 1, Len(s))
           t == Append(s, w)
           more == SubSeq(t, k + 1, Len(s) + 1)
<1>1. Len(s) \in Nat /\ \A i \in 1..Len(s) : s[i] \in Write
    BY LenProperties, ElementOfSeq DEF Dataset
<1>2. /\ rest \in Seq(Write) /\ Len(rest) = Len(s) - k
      /\ \A i \in 1..(Len(s) - k) : rest[i] = s[k + i]
    BY <1>1, SubSeqProperties, SMTT(20)
<1>3. /\ t \in Seq(Write) /\ Len(t) = Len(s) + 1
      /\ \A i \in 1..Len(s) : t[i] = s[i]
      /\ t[Len(s) + 1] = w
    BY AppendProperties DEF Dataset
<1>4. \A i \in 1..(Len(s) + 1) : t[i] \in Write
    BY <1>3, ElementOfSeq
<1>5. /\ more \in Seq(Write) /\ Len(more) = Len(s) + 1 - k
      /\ \A i \in 1..(Len(s) + 1 - k) : more[i] = t[k + i]
  <2> HIDE DEF t
  <2> QED
      BY <1>1, <1>4, SubSeqProperties, SMTT(20)
<1>6. /\ Append(rest, w) \in Seq(Write) /\ Len(Append(rest, w)) = Len(s) + 1 - k
      /\ \A i \in 1..(Len(s) - k) : Append(rest, w)[i] = rest[i]
      /\ Append(rest, w)[Len(s) + 1 - k] = w
  <2> HIDE DEF rest
  <2> QED
      BY <1>1, <1>2, AppendProperties
<1>7. more = Append(rest, w)
  <2>1. ASSUME NEW i \in 1..Len(more)
        PROVE  more[i] = Append(rest, w)[i]
    <3>1. CASE i = Len(s) + 1 - k
        BY <1>1, <1>3, <1>5, <1>6, <3>1
    <3>2. CASE i # Len(s) + 1 - k
      <4>1. i \in 1..(Len(s) - k) /\ k + i \in 1..Len(s)
          BY <1>1, <1>5, <3>2
      <4>2. more[i] = t[k + i] /\ t[k + i] = s[k + i]
          BY <1>1, <1>3, <1>5, <4>1
      <4> QED
          BY <1>2, <1>6, <4>1, <4>2
    <3> QED
        BY <3>1, <3>2
  <2> HIDE DEF more, rest
  <2> QED
      BY <1>5, <1>6, <2>1, SeqEqual
<1>8. Append(d \o rest, w) = d \o Append(rest, w)
  <2>1. d \in Seq(Write) /\ <<w>> \in Seq(Write)
      BY DEF Dataset
  <2> HIDE DEF rest
  <2>2. d \o rest \in Seq(Write)
      BY <1>2, <2>1, ConcatProperties
  <2>3. Append(d \o rest, w) = (d \o rest) \o <<w>> /\ Append(rest, w) = rest \o <<w>>
      BY <1>2, <2>2, AppendIsConcat
  <2> QED
      BY SMTT(30), <1>2, <2>1, <2>3, ConcatAssociative
<1> QED
    BY <1>7, <1>8

LEMMA SliceOfAppend ==
    ASSUME NEW s \in Dataset, NEW w \in Write, NEW i \in Nat, NEW j \in Nat, j <= Len(s)
    PROVE  SubSeq(Append(s, w), i + 1, j) = SubSeq(s, i + 1, j)
<1> DEFINE t == Append(s, w)
<1>1. /\ Len(s) \in Nat /\ \A k \in 1..Len(s) : s[k] \in Write
      /\ \A k \in 1..Len(s) : t[k] = s[k]
    BY LenProperties, ElementOfSeq, AppendProperties DEF Dataset
<1> HIDE DEF t
<1>2. \A k \in i + 1..j : s[k] \in Write /\ t[k] = s[k]
    BY <1>1
<1>3. /\ SubSeq(s, i + 1, j) \in Seq(Write)
      /\ Len(SubSeq(s, i + 1, j)) = IF i + 1 <= j THEN j - i ELSE 0
      /\ \A k \in 1..(j - i) : SubSeq(s, i + 1, j)[k] = s[i + k]
    BY <1>2, SubSeqProperties, SMTT(20)
<1>4. /\ SubSeq(t, i + 1, j) \in Seq(Write)
      /\ Len(SubSeq(t, i + 1, j)) = IF i + 1 <= j THEN j - i ELSE 0
      /\ \A k \in 1..(j - i) : SubSeq(t, i + 1, j)[k] = t[i + k]
    BY <1>2, SubSeqProperties, SMTT(20)
<1>5. ASSUME NEW k \in 1..Len(SubSeq(t, i + 1, j))
      PROVE  SubSeq(t, i + 1, j)[k] = SubSeq(s, i + 1, j)[k]
  <2>1. k \in 1..(j - i) /\ i + k \in i + 1..j
      BY <1>4
  <2> QED
      BY <1>2, <1>3, <1>4, <2>1
<1>6. SubSeq(t, i + 1, j) = SubSeq(s, i + 1, j)
    BY <1>3, <1>4, <1>5, SeqEqual
<1> QED
    BY <1>6 DEF t

LEMMA RestAfterMore ==
    ASSUME NEW s \in Dataset, NEW d \in Dataset, NEW i \in Nat, NEW j \in Nat,
           i <= j, j <= Len(s)
    PROVE  d \o SubSeq(s, i + 1, Len(s)) =
             (d \o SubSeq(s, i + 1, j)) \o SubSeq(s, j + 1, Len(s))
<1>1. /\ Len(s) \in Nat /\ s \in Seq(Write) /\ d \in Seq(Write)
      /\ \A k \in 1..Len(s) : s[k] \in Write
    BY LenProperties, ElementOfSeq DEF Dataset
<1>2. i + 1 \in 1..(Len(s) + 1) /\ j \in (i + 1) - 1..Len(s) /\ Len(s) \in j..Len(s)
    BY <1>1
<1>3. SubSeq(s, i + 1, j) \o SubSeq(s, j + 1, Len(s)) = SubSeq(s, i + 1, Len(s))
    BY <1>1, <1>2, ConcatAdjacentSubSeq
<1>4. SubSeq(s, i + 1, j) \in Seq(Write) /\ SubSeq(s, j + 1, Len(s)) \in Seq(Write)
    BY <1>1, SubSeqProperties, SMTT(20)
<1> DEFINE delta == SubSeq(s, i + 1, j)
           rest == SubSeq(s, j + 1, Len(s))
<1>5. d \o (delta \o rest) = (d \o delta) \o rest
  <2> HIDE DEF delta, rest
  <2>1. delta \in Seq(Write) /\ rest \in Seq(Write)
      BY <1>4 DEF delta, rest
  <2> QED
      BY SMTT(30), <1>1, <2>1, ConcatAssociative
<1> QED
    BY <1>3, <1>5

-----------------------------------------------------------------------------
LEMMA InitReplicaInv == Init => ReplicaInv
<1> SUFFICES ASSUME Init PROVE ReplicaInv
    OBVIOUS
<1>1. <<>> \in Dataset /\ Len(<<>>) = 0
    BY EmptySeq DEF Dataset
<1>2. \A n \in Node : OpenId(n, 0) \in Replid
  <2>1. 0 \in 0..MaxRestarts
      BY ReplicationAssumption
  <2> QED
      BY <2>1, MintedForms
<1>3. TypeOK
    BY <1>1, <1>2, RpcForms, ReplicationAssumption DEF Init, TypeOK, Role, Link
<1>4. ExchangesAreInOrder
    BY <1>2, PlainKinds DEF Init, ExchangesAreInOrder
<1>5. ReplicaAofHoldsData
    BY DEF Init, ReplicaAofHoldsData
<1> QED
    BY <1>3, <1>4, <1>5 DEF ReplicaInv

LEMMA NextTypeOK ==
    ASSUME ReplicaInv, [Next]_vars
    PROVE  TypeOK'
<1> USE DEF ReplicaInv, TypeOK, config, dataset, backlog, progress, counters
<1>1. ASSUME NEW n \in Node, ClientWrites(n) PROVE TypeOK'
  <2>1. writes' \in Write /\ writes' \in 0..MaxWrites
      BY <1>1, ReplicationAssumption DEF ClientWrites, Write
  <2>2. \A s \in Dataset : Append(s, writes') \in Dataset /\ Len(Append(s, writes')) = Len(s) + 1 /\ Len(s) \in Nat
      BY <2>1, AppendProperties, LenProperties DEF Dataset
  <2>3. db' \in [Node -> Dataset] /\ aof' \in [Node -> Dataset] /\ stream' \in [Node -> Dataset]
      BY <1>1, <2>2 DEF ClientWrites
  <2>4. \A r \in Node : aof_synced'[r] <= Len(aof'[r])
      BY SMTT(30), <1>1, <2>2 DEF ClientWrites
  <2> QED
      BY <1>1, <2>1, <2>3, <2>4 DEF ClientWrites
<1>2. ASSUME NEW n \in Node, AskFull(n) PROVE TypeOK'
  <2>1. rpc' \in [Node -> RpcType]
      BY <1>2, RpcForms DEF AskFull, ExchangesAreInOrder
  <2> QED
      BY <1>2, <2>1 DEF AskFull, Link
<1>3. ASSUME NEW n \in Node, AskMore(n) PROVE TypeOK'
  <2>1. rpc' \in [Node -> RpcType]
      BY <1>3, RpcForms DEF AskMore, ExchangesAreInOrder
  <2> QED
      BY <1>3, <2>1 DEF AskMore
<1>4. ASSUME NEW n \in Node, Answer(n) PROVE TypeOK'
  <2> DEFINE m == rpc[n].to
             ask == rpc[n]
  <2>1. /\ m \in Node /\ ask.id \in Replid \cup {NoReplid} /\ ask.offset \in Nat
        /\ ask.kind = "ask"
      BY <1>4, RpcKinds DEF Answer
  <2>2. Reply(m, ask) \in RpcType
    <3>1. CASE role[m] # "master"
        BY <3>1, RpcForms DEF Reply
    <3>2. CASE role[m] = "master" /\ CanContinue(m, ask.id, ask.offset)
      <4>1. Offset(m) \in Nat /\ stream[m] \in Dataset
          BY <2>1, LenProperties DEF Offset, Dataset
      <4>2. SliceFrom(m, ask.offset) = SubSeq(stream[m], ask.offset + 1, Offset(m))
          BY <3>2 DEF CanContinue, SliceFrom
      <4>3. SubSeq(stream[m], ask.offset + 1, Len(stream[m])) \in Dataset
        <5>1. ask.offset + 1 \in Nat /\ ask.offset + 1 >= 1
            BY SMTT(30), <2>1
        <5> QED
            BY <4>1, <5>1, DatasetRest
      <4> QED
          BY <3>2, <4>1, <4>2, <4>3, RpcForms DEF Reply, Offset
    <3>3. CASE role[m] = "master" /\ ~CanContinue(m, ask.id, ask.offset)
      <4>1. Offset(m) \in Nat /\ db[m] \in Dataset
          BY <2>1, LenProperties DEF Offset, Dataset
      <4>2. replid[m] \in Replid
          BY <2>1, <3>3 DEF ExchangesAreInOrder
      <4> QED
          BY <3>3, <4>1, <4>2, RpcForms DEF Reply
    <3> QED
        BY <3>1, <3>2, <3>3
  <2>3. rpc' \in [Node -> RpcType]
      BY <1>4, <2>2 DEF Answer
  <2> QED
      BY <1>4, <2>3 DEF Answer
<1>5. ASSUME NEW n \in Node, ConnectionLost(n) PROVE TypeOK'
    BY <1>5, RpcForms, ReplicationAssumption DEF ConnectionLost, Fails
<1>6. ASSUME NEW n \in Node, ApplyFull(n) PROVE TypeOK'
  <2>1. rpc[n].id \in Replid /\ rpc[n].offset \in Nat /\ rpc[n].data \in Dataset
      BY <1>6, RpcKinds DEF ApplyFull
  <2>2. Len(rpc[n].data) \in Nat
      BY <2>1, LenProperties DEF Dataset
  <2>3. aof' \in [Node -> Dataset] /\ aof_synced' \in [Node -> Nat]
      BY <1>6, <2>1, <2>2 DEF ApplyFull
  <2>4. \A r \in Node : aof_synced'[r] <= Len(aof'[r])
      BY <1>6, <2>1, <2>2 DEF ApplyFull
  <2> QED
      BY <1>6, <2>1, <2>3, <2>4, RpcForms DEF ApplyFull, Link
<1>7. ASSUME NEW n \in Node, ApplyFullFails(n) PROVE TypeOK'
    BY <1>7, RpcForms, ReplicationAssumption DEF ApplyFullFails, Fails, Link
<1>8. ASSUME NEW n \in Node, ApplyMore(n) PROVE TypeOK'
  <2>1. rpc[n].offset \in Nat /\ rpc[n].data \in Dataset
      BY <1>8, RpcKinds DEF ApplyMore
  <2>2. db[n] \o rpc[n].data \in Dataset /\ aof[n] \o rpc[n].data \in Dataset
      BY <2>1, DatasetConcat
  <2>3. Len(aof[n] \o rpc[n].data) \in Nat
      BY <2>2, LenProperties DEF Dataset
  <2>4. aof' \in [Node -> Dataset] /\ aof'[n] = aof[n] \o rpc[n].data
      BY <1>8, <2>2 DEF ApplyMore
  <2>5. aof_synced' \in [Node -> Nat]
      BY <1>8, <2>3, <2>4 DEF ApplyMore
  <2>6. \A r \in Node : aof_synced'[r] <= Len(aof'[r])
      BY <1>8, <2>3, <2>4 DEF ApplyMore
  <2>7. db' \in [Node -> Dataset] /\ master_offset' \in [Node -> Nat]
      BY <1>8, <2>1, <2>2 DEF ApplyMore
  <2> QED
      BY <1>8, <2>4, <2>5, <2>6, <2>7, RpcForms DEF ApplyMore
<1>9. ASSUME NEW n \in Node, NEW k \in 0..MaxWrites, ReplayFails(n, k) PROVE TypeOK'
  <2>1. rpc[n].data \in Dataset /\ k \in Nat /\ k <= Len(rpc[n].data)
      BY <1>9, RpcKinds, LenProperties, ReplicationAssumption DEF ReplayFails, Dataset
  <2>2. SubSeq(rpc[n].data, 1, k) \in Dataset
      BY <2>1, DatasetSub
  <2>3. db[n] \o SubSeq(rpc[n].data, 1, k) \in Dataset
      BY <2>2, DatasetConcat
  <2> QED
      BY <1>9, <2>3, RpcForms, ReplicationAssumption DEF ReplayFails, Fails, Link
<1>10. ASSUME NEW n \in Node, PersistFails(n) PROVE TypeOK'
  <2>1. rpc[n].data \in Dataset
      BY <1>10, RpcKinds DEF PersistFails
  <2>2. /\ db[n] \o rpc[n].data \in Dataset /\ aof[n] \o rpc[n].data \in Dataset
        /\ Len(aof[n]) <= Len(aof[n] \o rpc[n].data)
        /\ Len(aof[n]) \in Nat /\ Len(aof[n] \o rpc[n].data) \in Nat
      BY <2>1, DatasetConcat, LenProperties DEF Dataset
  <2>3. db' \in [Node -> Dataset] /\ aof' \in [Node -> Dataset]
      BY ZenonT(60), <1>10, <2>2 DEF PersistFails
  <2>4. \A r \in Node : aof_synced'[r] <= Len(aof'[r])
    <3>1. CASE aof' = aof
        BY <1>10, <3>1 DEF PersistFails
    <3>2. CASE aof' = [aof EXCEPT ![n] = @ \o rpc[n].data]
        BY <1>10, <2>2, <3>2 DEF PersistFails
    <3> QED
        BY <1>10, <3>1, <3>2 DEF PersistFails
  <2> QED
      BY <1>10, <2>3, <2>4, RpcForms, ReplicationAssumption DEF PersistFails, Fails, Link
<1>11. ASSUME NEW n \in Node, ApplyError(n) PROVE TypeOK'
    BY <1>11, RpcForms DEF ApplyError, Link
<1>12. ASSUME NEW n \in Node, GiveUp(n) PROVE TypeOK'
    BY <1>12, RpcForms DEF GiveUp, Link
<1>13. ASSUME NEW n \in Node, HeartbeatFails(n) PROVE TypeOK'
    BY <1>13, ReplicationAssumption DEF HeartbeatFails, Fails, Link
<1>14. ASSUME NEW n \in Node, NEW m \in Node \ {n}, SetReplica(n, m) PROVE TypeOK'
  <2>1. <<>> \in Dataset
      BY EmptySeq DEF Dataset
  <2> QED
      BY <1>14, <2>1 DEF SetReplica, Link, Role
<1>15. ASSUME NEW n \in Node, ResetToMaster(n) PROVE TypeOK'
  <2>1. <<>> \in Dataset
      BY EmptySeq DEF Dataset
  <2>2. replid' \in [Node -> Replid \cup {NoReplid}] /\ same_ms' \in [Node -> BOOLEAN]
    <3>1. life[n] \in 0..MaxRestarts
        BY ReplicationAssumption
    <3>2. PICK b \in BOOLEAN : /\ same_ms' = [same_ms EXCEPT ![n] = b]
                               /\ replid' = [replid EXCEPT ![n] = ResetId(n, life[n], b)]
        BY <1>15 DEF ResetToMaster
    <3> QED
        BY <3>1, <3>2, MintedForms
  <2>3. resets' \in [Node -> 0..promotions'] /\ promotions' \in 0..MaxResets
      BY SMTT(30), <1>15, ReplicationAssumption DEF ResetToMaster
  <2> QED
      BY <1>15, <2>1, <2>2, <2>3 DEF ResetToMaster, Link, Role
<1>16. ASSUME NEW n \in Node, Restart(n) PROVE TypeOK'
  <2>1. <<>> \in Dataset
      BY EmptySeq DEF Dataset
  <2>2. restarts' \in 0..MaxRestarts /\ restarts' = restarts + 1
      BY <1>16, ReplicationAssumption DEF Restart
  <2>3. OpenId(n, restarts') \in Replid
      BY <2>2, MintedForms
  <2>4. life' \in [Node -> 0..restarts'] /\ resets' \in [Node -> 0..promotions']
        /\ same_ms' \in [Node -> BOOLEAN]
      BY SMTT(30), <1>16, <2>2, ReplicationAssumption DEF Restart
  <2>5. rpc' \in [Node -> RpcType]
      BY <1>16, RpcForms DEF Restart
  <2>6. PICK k \in aof_synced[n]..Len(aof[n]) :
          /\ db' = [db EXCEPT ![n] = SubSeq(aof[n], 1, k)]
          /\ aof' = [aof EXCEPT ![n] = SubSeq(aof[n], 1, k)]
      BY <1>16 DEF Restart
  <2>7. k \in Nat /\ k <= Len(aof[n]) /\ aof_synced[n] <= k
      BY LenProperties DEF Dataset
  <2>8. SubSeq(aof[n], 1, k) \in Dataset /\ Len(SubSeq(aof[n], 1, k)) = k
      BY <2>7, DatasetSub
  <2>9. db' \in [Node -> Dataset] /\ aof' \in [Node -> Dataset]
      BY <2>6, <2>8
  <2>10. \A r \in Node : aof_synced'[r] <= Len(aof'[r])
      BY <1>16, <2>6, <2>7, <2>8 DEF Restart
  <2> QED
      BY <1>16, <2>1, <2>2, <2>3, <2>4, <2>5, <2>9, <2>10 DEF Restart, Link, Role
<1>17. CASE UNCHANGED vars
    BY <1>17 DEF vars
<1> QED
    BY <1>1, <1>2, <1>3, <1>4, <1>5, <1>6, <1>7, <1>8, <1>9, <1>10, <1>11, <1>12,
       <1>13, <1>14, <1>15, <1>16, <1>17 DEF Next


LEMMA NextInOrder ==
    ASSUME ReplicaInv, [Next]_vars
    PROVE  ExchangesAreInOrder' /\ ReplicaAofHoldsData'
<1> USE PlainKinds DEF ReplicaInv, TypeOK, ExchangesAreInOrder, ReplicaAofHoldsData,
        Runs, config, dataset, backlog, progress, counters
<1>1. ASSUME NEW n \in Node, ClientWrites(n)
      PROVE  ExchangesAreInOrder' /\ ReplicaAofHoldsData'
    BY <1>1 DEF ClientWrites
<1>2. ASSUME NEW n \in Node, AskFull(n)
      PROVE  ExchangesAreInOrder' /\ ReplicaAofHoldsData'
    BY SMTT(30), <1>2 DEF AskFull
<1>3. ASSUME NEW n \in Node, AskMore(n)
      PROVE  ExchangesAreInOrder' /\ ReplicaAofHoldsData'
    BY <1>3 DEF AskMore
<1>4. ASSUME NEW n \in Node, Answer(n)
      PROVE  ExchangesAreInOrder' /\ ReplicaAofHoldsData'
  <2> DEFINE m == rpc[n].to
             ask == rpc[n]
  <2>1. m \in Node /\ ask.id \in Replid \cup {NoReplid}
      BY <1>4, RpcKinds DEF Answer
  <2>2. CASE Reply(m, ask).kind # "continue"
    <3>1. Reply(m, ask).kind \in {"error", "fullresync"}
        BY SMTT(30), <2>2 DEF Reply
    <3> QED
        BY SMTT(30), <1>4, <3>1 DEF Answer
  <2>3. CASE Reply(m, ask).kind = "continue"
    <3>1. role[m] = "master" /\ ask.id = replid[m]
        BY <2>3 DEF Reply, CanContinue
    <3>2. ask.id # NoReplid
        BY <2>1, <3>1, NoReplidIsNoId
    <3>3. link[n] = "connected"
        BY <1>4, <3>2 DEF Answer
    <3> QED
        BY ZenonT(60), <1>4, <2>3, <3>3 DEF Answer
  <2> QED
      BY <2>2, <2>3
<1>5. ASSUME NEW n \in Node, ConnectionLost(n)
      PROVE  ExchangesAreInOrder' /\ ReplicaAofHoldsData'
    BY <1>5 DEF ConnectionLost
<1>6. ASSUME NEW n \in Node, ApplyFull(n)
      PROVE  ExchangesAreInOrder' /\ ReplicaAofHoldsData'
  <2>1. rpc[n].id \in Replid
      BY <1>6, RpcKinds DEF ApplyFull
  <2> QED
      BY SMTT(30), <1>6, <2>1 DEF ApplyFull
<1>7. ASSUME NEW n \in Node, ApplyFullFails(n)
      PROVE  ExchangesAreInOrder' /\ ReplicaAofHoldsData'
    BY ZenonT(60), <1>7 DEF ApplyFullFails
<1>8. ASSUME NEW n \in Node, ApplyMore(n)
      PROVE  ExchangesAreInOrder' /\ ReplicaAofHoldsData'
    BY ZenonT(60), <1>8 DEF ApplyMore
<1>9. ASSUME NEW n \in Node, NEW k \in 0..MaxWrites, ReplayFails(n, k)
      PROVE  ExchangesAreInOrder' /\ ReplicaAofHoldsData'
    BY SMTT(30), <1>9 DEF ReplayFails
<1>10. ASSUME NEW n \in Node, PersistFails(n)
       PROVE  ExchangesAreInOrder' /\ ReplicaAofHoldsData'
  <2>1. \A r \in Node : r # n => aof'[r] = aof[r]
      BY <1>10 DEF PersistFails
  <2> QED
      BY SMTT(30), <1>10, <2>1 DEF PersistFails
<1>11. ASSUME NEW n \in Node, ApplyError(n)
       PROVE  ExchangesAreInOrder' /\ ReplicaAofHoldsData'
    BY ZenonT(60), <1>11 DEF ApplyError
<1>12. ASSUME NEW n \in Node, GiveUp(n)
       PROVE  ExchangesAreInOrder' /\ ReplicaAofHoldsData'
    BY SMTT(30), <1>12 DEF GiveUp
<1>13. ASSUME NEW n \in Node, HeartbeatFails(n)
       PROVE  ExchangesAreInOrder' /\ ReplicaAofHoldsData'
    BY SMTT(30), <1>13 DEF HeartbeatFails
<1>14. ASSUME NEW n \in Node, NEW m \in Node \ {n}, SetReplica(n, m)
       PROVE  ExchangesAreInOrder' /\ ReplicaAofHoldsData'
    BY ZenonT(60), <1>14 DEF SetReplica
<1>15. ASSUME NEW n \in Node, ResetToMaster(n)
       PROVE  ExchangesAreInOrder' /\ ReplicaAofHoldsData'
  <2>1. replid'[n] \in Replid
    <3>1. life[n] \in 0..MaxRestarts
        BY ReplicationAssumption
    <3> QED
        BY <1>15, <3>1, MintedForms DEF ResetToMaster
  <2>2. rpc'[n].kind = "idle"
      BY <1>15 DEF ResetToMaster
  <2>3. ExchangesAreInOrder'
      BY ZenonT(60), <1>15, <2>1, <2>2 DEF ResetToMaster
  <2>4. ReplicaAofHoldsData'
      BY <1>15 DEF ResetToMaster
  <2> QED
      BY <2>3, <2>4
<1>16. ASSUME NEW n \in Node, Restart(n)
       PROVE  ExchangesAreInOrder' /\ ReplicaAofHoldsData'
  <2>1. replid'[n] \in Replid
      BY <1>16, MintedForms, ReplicationAssumption DEF Restart
  <2>2. \A r \in Node : r # n => db'[r] = db[r] /\ aof'[r] = aof[r]
      BY <1>16 DEF Restart
  <2>3. \A r \in Node : r # n => (rpc'[r].kind = "lost" /\ rpc[r].kind = "ask") \/ rpc'[r] = rpc[r]
      BY <1>16 DEF Restart
  <2>4. rpc'[n].kind = "idle" /\ \A r \in Node : rpc'[r].kind # "idle" => r # n
      BY <1>16 DEF Restart
  <2>5. \A r \in Node :
           r # n => /\ role'[r] = role[r] /\ upstream'[r] = upstream[r]
                    /\ link'[r] = link[r] /\ replid'[r] = replid[r]
                    /\ master_replid'[r] = master_replid[r]
                    /\ master_offset'[r] = master_offset[r]
                    /\ aof_synced'[r] = aof_synced[r]
      BY <1>16 DEF Restart
  <2>6. role'[n] = "master" /\ link'[n] = "none"
      BY <1>16 DEF Restart
  <2> HIDE DEF ReplicaInv, TypeOK
  <2>7. ExchangesAreInOrder'
      BY <2>1, <2>3, <2>4, <2>5, <2>6 DEF ReplicaInv
  <2>8. ReplicaAofHoldsData'
      BY <2>2, <2>5, <2>6 DEF ReplicaInv
  <2> QED
      BY <2>7, <2>8
<1>17. CASE UNCHANGED vars
    BY <1>17 DEF vars
<1> QED
    BY <1>1, <1>2, <1>3, <1>4, <1>5, <1>6, <1>7, <1>8, <1>9, <1>10, <1>11, <1>12,
       <1>13, <1>14, <1>15, <1>16, <1>17 DEF Next

LEMMA ReplicaInvHolds == Spec => []ReplicaInv
<1>1. ReplicaInv /\ [Next]_vars => ReplicaInv'
    BY NextTypeOK, NextInOrder DEF ReplicaInv
<1> QED
    BY InitReplicaInv, <1>1, PTL DEF Spec

(* The fields of every server keep their types, and no more of an AOF      *)
(* counts as synced than there is, through failed replays and restarts.    *)
THEOREM ReplicationTyped == Spec => []TypeOK
<1>1. ReplicaInv => TypeOK
    BY DEF ReplicaInv
<1> QED
    BY ReplicaInvHolds, <1>1, PTL

(* A connected replica that stops comes back from its AOF alone with the   *)
(* dataset it had: nothing it replayed is missing from the synced file.    *)
THEOREM ReplicaAofIsDurable == Spec => []ReplicaAofHoldsData
<1>1. ReplicaInv => ReplicaAofHoldsData
    BY DEF ReplicaInv
<1> QED
    BY ReplicaInvHolds, <1>1, PTL

-----------------------------------------------------------------------------
(* Ids.  A server draws one when it starts, and nobody holds it yet, and   *)
(* one when it is promoted, which nobody holds yet if it is used once;     *)
(* nobody's id is taken back.                                              *)
LEMMA StartIdIsNew ==
    ASSUME ReplicaInv, NEW n \in Node, Restart(n)
    PROVE  ~Minted(replid'[n]) /\ Minted(replid[n])' /\ replid'[n].node = n
<1> USE DEF ReplicaInv, TypeOK
<1>1. restarts' = restarts + 1 /\ restarts' \in 0..MaxRestarts
    BY ReplicationAssumption DEF Restart
<1>2. life[n] <= restarts /\ life'[n] = restarts'
    BY ReplicationAssumption DEF Restart
<1>3. replid'[n] = OpenId(n, restarts')
    BY DEF Restart
<1>4. /\ replid'[n] \in Replid /\ replid'[n].node = n
      /\ replid'[n].start = restarts' /\ replid'[n].seed = "open_ms"
    BY SMTT(30), <1>1, <1>3 DEF OpenId, Replid
<1> QED
    BY <1>1, <1>2, <1>4, ReplicationAssumption DEF Minted

LEMMA PromotionIdIsMinted ==
    ASSUME ReplicaInv, NEW n \in Node, ResetToMaster(n)
    PROVE  /\ Minted(replid[n])' /\ replid'[n].node = n /\ replid'[n] \in Replid
           /\ IdUsedOnce(n)' => ~Minted(replid'[n])
<1> USE DEF ReplicaInv, TypeOK
<1>1. life[n] \in 0..MaxRestarts /\ life' = life
    BY ReplicationAssumption DEF ResetToMaster
<1>2. resets[n] \in Nat /\ resets'[n] = resets[n] + 1
    BY ReplicationAssumption DEF ResetToMaster
<1>3. PICK b \in BOOLEAN : same_ms'[n] = b /\ replid'[n] = ResetId(n, life[n], b)
    BY DEF ResetToMaster
<1>4. /\ replid'[n] \in Replid /\ replid'[n].node = n /\ replid'[n].start = life[n]
      /\ replid'[n].seed = IF b THEN "open_ms" ELSE "start_ms"
    BY <1>1, <1>3, MintedForms
<1>5. Minted(replid[n])'
    BY <1>1, <1>2, <1>4, ReplicationAssumption DEF Minted
<1>6. ASSUME IdUsedOnce(n)' PROVE ~Minted(replid'[n])
  <2>1. ~b /\ resets[n] = 0
      BY <1>2, <1>3, <1>6 DEF IdUsedOnce
  <2> QED
      BY <1>4, <2>1 DEF Minted
<1> QED
    BY <1>4, <1>5, <1>6

LEMMA MintedStays ==
    ASSUME ReplicaInv, [Next]_vars, NEW id, Minted(id)
    PROVE  Minted(id)'
<1> USE DEF ReplicaInv, TypeOK
<1>1. /\ id \in Replid /\ id.node \in Node /\ id.start \in 0..MaxRestarts
      /\ id.start <= life[id.node]
      /\ id.start = life[id.node] /\ id.seed = "start_ms" => resets[id.node] >= 1
    BY DEF Minted, Replid
<1>2. ASSUME NEW n \in Node, ResetToMaster(n) PROVE Minted(id)'
  <2>1. life' = life /\ resets' = [resets EXCEPT ![n] = @ + 1] /\ resets[n] \in Nat
      BY <1>2, ReplicationAssumption DEF ResetToMaster
  <2> QED
      BY <1>1, <2>1, ReplicationAssumption DEF Minted
<1>3. ASSUME NEW n \in Node, Restart(n) PROVE Minted(id)'
  <2>1. /\ life' = [life EXCEPT ![n] = restarts + 1] /\ life[n] <= restarts
        /\ resets' = [resets EXCEPT ![n] = 0] /\ restarts \in Nat
      BY <1>3, ReplicationAssumption DEF Restart
  <2>2. CASE id.node = n
      BY SMTT(30), <1>1, <2>1, <2>2, ReplicationAssumption DEF Minted
  <2>3. CASE id.node # n
      BY <1>1, <2>1, <2>3 DEF Minted
  <2> QED
      BY <2>2, <2>3
<1>4. ASSUME UNCHANGED <<life, resets>> PROVE Minted(id)'
    BY <1>1, <1>4 DEF Minted
<1>5. \/ UNCHANGED <<life, resets>>
      \/ \E n \in Node : ResetToMaster(n) \/ Restart(n)
    BY ZenonT(60) DEF Next, vars, counters, Fails, ClientWrites, AskFull, AskMore, Answer,
           ConnectionLost, ApplyFull, ApplyFullFails, ApplyMore, ReplayFails,
           PersistFails, ApplyError, GiveUp, HeartbeatFails, SetReplica
<1> QED
    BY <1>2, <1>3, <1>4, <1>5

(* The steps of a replica that take over nothing new: it asks, gives up,   *)
(* is interrupted or fails, and where its data may have changed its link   *)
(* is no longer connected.                                                 *)
StepsAside(r) ==
    /\ UNCHANGED <<role, replid, stream, master_replid, master_offset, resets, same_ms>>
    /\ role[r] = "replica"
    /\ \A q \in Node : q # r => db'[q] = db[q] /\ link'[q] = link[q] /\ rpc'[q] = rpc[q]
    /\ link'[r] = "connected" => link[r] = "connected" /\ db'[r] = db[r]
    /\ rpc'[r].kind \in {"idle", "ask", "lost"}

LEMMA StepsAsideForms ==
    ASSUME ReplicaInv, NEW r \in Node,
           \/ AskFull(r) \/ AskMore(r) \/ ConnectionLost(r) \/ ApplyFullFails(r)
           \/ \E k \in 0..MaxWrites : ReplayFails(r, k)
           \/ PersistFails(r) \/ ApplyError(r) \/ GiveUp(r) \/ HeartbeatFails(r)
    PROVE  StepsAside(r)
<1> USE PlainKinds DEF ReplicaInv, TypeOK, ExchangesAreInOrder, StepsAside,
        config, dataset, backlog, progress, counters
<1>1. CASE AskFull(r) \/ AskMore(r)
    BY <1>1 DEF AskFull, AskMore
<1>2. CASE ConnectionLost(r)
    BY <1>2 DEF ConnectionLost, Fails
<1>3. CASE ApplyFullFails(r)
    BY <1>3 DEF ApplyFullFails, Fails
<1>4. ASSUME NEW k \in 0..MaxWrites, ReplayFails(r, k)
      PROVE  StepsAside(r)
    BY <1>4 DEF ReplayFails, Fails
<1>5. CASE PersistFails(r)
    BY <1>5 DEF PersistFails, Fails
<1>6. CASE ApplyError(r)
    BY <1>6 DEF ApplyError
<1>7. CASE GiveUp(r)
    BY <1>7 DEF GiveUp
<1>8. CASE HeartbeatFails(r)
    BY <1>8 DEF HeartbeatFails, Fails, Runs
<1> QED
    BY <1>1, <1>2, <1>3, <1>4, <1>5, <1>6, <1>7, <1>8

LEMMA NextMinted ==
    ASSUME ReplicaInv, IdsAreMinted, [Next]_vars
    PROVE  IdsAreMinted'
<1> USE DEF ReplicaInv, TypeOK, config, dataset, backlog, progress, counters
<1>0. \A id : Minted(id) => Minted(id)'
    BY MintedStays
<1>1. ASSUME NEW n \in Node, Answer(n) PROVE IdsAreMinted'
  <2> DEFINE m == rpc[n].to
             ask == rpc[n]
  <2>1. m \in Node
      BY <1>1, RpcKinds DEF Answer
  <2>2. Reply(m, ask).kind = "fullresync" => Minted(Reply(m, ask).id)
      BY SMTT(30), <2>1, PlainKinds DEF Reply, IdsAreMinted, ExchangesAreInOrder, Role
  <2>3. rpc'[n].kind = "fullresync" => Minted(rpc'[n].id)
      BY <1>1, <2>2 DEF Answer
  <2> QED
      BY SMTT(30), <1>0, <1>1, <2>3 DEF Answer, IdsAreMinted, Minted
<1>2. ASSUME NEW n \in Node, ApplyFull(n) PROVE IdsAreMinted'
  <2>1. Minted(rpc[n].id)
      BY <1>2 DEF ApplyFull, IdsAreMinted
  <2> QED
      BY ZenonT(60), <1>0, <1>2, <2>1, PlainKinds DEF ApplyFull, IdsAreMinted, Minted
<1>3. ASSUME NEW n \in Node, NEW m \in Node \ {n}, SetReplica(n, m) PROVE IdsAreMinted'
    BY ZenonT(60), <1>0, <1>3 DEF SetReplica, IdsAreMinted, Minted
<1>4. ASSUME NEW n \in Node, ResetToMaster(n) PROVE IdsAreMinted'
  <2>1. Minted(replid[n])' /\ replid'[n].node = n
      BY <1>4, PromotionIdIsMinted
  <2> QED
      BY ZenonT(60), <1>0, <1>4, <2>1 DEF ResetToMaster, IdsAreMinted, Minted
<1>5. ASSUME NEW n \in Node, Restart(n) PROVE IdsAreMinted'
  <2>1. Minted(replid[n])' /\ replid'[n].node = n
      BY <1>5, StartIdIsNew
  <2>2. \A r \in Node : rpc'[r].kind = "fullresync" => rpc'[r] = rpc[r]
      BY <1>5, PlainKinds DEF Restart
  <2>3. \A m \in Node : m # n => role'[m] = role[m] /\ replid'[m] = replid[m]
      BY <1>5 DEF Restart
  <2>4. \A m \in Node : role'[m] = "master" => Minted(replid[m])' /\ replid'[m].node = m
      BY ZenonT(60), <1>0, <2>1, <2>3 DEF IdsAreMinted, Minted
  <2>5. \A r \in Node : master_replid'[r] # NoReplid => Minted(master_replid[r])'
      BY ZenonT(60), <1>0, <1>5 DEF Restart, IdsAreMinted, Minted
  <2>6. \A r \in Node : rpc'[r].kind = "fullresync" => Minted(rpc[r].id)'
      BY ZenonT(60), <1>0, <2>2 DEF IdsAreMinted, Minted
  <2> QED
      BY <2>4, <2>5, <2>6 DEF IdsAreMinted
<1>6. ASSUME NEW n \in Node, StepsAside(n) PROVE IdsAreMinted'
  <2>1. \A r \in Node : rpc'[r].kind = "fullresync" => rpc'[r] = rpc[r]
      BY <1>6 DEF StepsAside
  <2>2. \A r \in Node : rpc'[r].kind = "fullresync" => Minted(rpc[r].id)'
      BY ZenonT(60), <1>0, <2>1 DEF IdsAreMinted, Minted
  <2>3. \A r \in Node : master_replid'[r] # NoReplid => Minted(master_replid[r])'
      BY <1>0, <1>6 DEF StepsAside, IdsAreMinted, Minted
  <2>4. \A m \in Node : role'[m] = "master" => Minted(replid[m])' /\ replid'[m].node = m
      BY <1>0, <1>6 DEF StepsAside, IdsAreMinted, Minted
  <2> QED
      BY <2>2, <2>3, <2>4 DEF IdsAreMinted
<1>7. ASSUME NEW n \in Node, ClientWrites(n) \/ ApplyMore(n) PROVE IdsAreMinted'
  <2>1. UNCHANGED <<role, replid, master_replid, life, resets>>
      BY <1>7 DEF ClientWrites, ApplyMore
  <2>2. \A r \in Node : rpc'[r].kind = "fullresync" => rpc'[r] = rpc[r]
      BY <1>7, PlainKinds DEF ClientWrites, ApplyMore
  <2> QED
      BY ZenonT(60), <2>1, <2>2 DEF IdsAreMinted, Minted
<1>8. CASE UNCHANGED vars
    BY <1>0, <1>8 DEF vars, IdsAreMinted, Minted
<1> QED
    BY <1>1, <1>2, <1>3, <1>4, <1>5, <1>6, <1>7, <1>8, StepsAsideForms DEF Next

LEMMA InitMinted == Init => IdsAreMinted
<1>1. 0 \in 0..MaxRestarts
    BY ReplicationAssumption
<1> QED
    BY <1>1, MintedForms, PlainKinds DEF Init, IdsAreMinted, Minted

-----------------------------------------------------------------------------
(* What a step leaves of a master's stream, of a replica's data and of the *)
(* exchange it is in.                                                      *)
KeepsStream(m) ==
    /\ Trusted(m)' => Trusted(m)
    /\ db'[m] = db[m] /\ stream'[m] = stream[m] /\ replid'[m] = replid[m]

KeepsData(r) ==
    link'[r] = "connected" =>
        /\ link[r] = "connected" /\ db'[r] = db[r]
        /\ master_replid'[r] = master_replid[r] /\ master_offset'[r] = master_offset[r]

KeepsExchange(r) ==
    rpc'[r].kind \in {"fullresync", "continue"} =>
        /\ rpc'[r] = rpc[r]
        /\ master_replid'[r] = master_replid[r] /\ master_offset'[r] = master_offset[r]

LEMMA WhatStaysFits ==
    ASSUME AnswersFit, NEW r \in Node, NEW m \in Node, Trusted(m)', KeepsStream(m)
    PROVE  /\ KeepsData(r) => DataFits(r, m)'
           /\ KeepsExchange(r) => SnapshotFits(r, m)' /\ DeltaFits(r, m)'
<1>1. DataFits(r, m) /\ SnapshotFits(r, m) /\ DeltaFits(r, m)
    BY DEF AnswersFit, KeepsStream
<1>2. Offset(m)' = Offset(m)
    BY DEF Offset, KeepsStream
<1>3. ASSUME KeepsData(r) PROVE DataFits(r, m)'
    BY <1>1, <1>2, <1>3 DEF DataFits, KeepsData, KeepsStream, ShortOf, Rest
<1>4. ASSUME KeepsExchange(r) PROVE SnapshotFits(r, m)'
    BY <1>1, <1>2, <1>4 DEF SnapshotFits, KeepsExchange, KeepsStream, ShortOf, Rest
<1>5. ASSUME KeepsExchange(r) PROVE DeltaFits(r, m)'
    BY <1>1, <1>2, <1>5 DEF DeltaFits, KeepsExchange, KeepsStream
<1> QED
    BY <1>3, <1>4, <1>5

LEMMA FitsIfAllStays ==
    ASSUME AnswersFit, \A m \in Node : Trusted(m)' => KeepsStream(m),
           \A r \in Node : KeepsData(r) /\ KeepsExchange(r)
    PROVE  AnswersFit'
<1> SUFFICES ASSUME NEW r \in Node, NEW m \in Node, Trusted(m)'
             PROVE  DataFits(r, m)' /\ SnapshotFits(r, m)' /\ DeltaFits(r, m)'
    BY DEF AnswersFit
<1> QED
    BY WhatStaysFits

(* A new id fits everything: nobody holds it.                              *)
LEMMA NewIdFits ==
    ASSUME ReplicaInv, IdsAreMinted, NEW m \in Node, NEW r \in Node, r # m,
           ~Minted(replid'[m]), replid'[m] \in Replid,
           KeepsData(r), KeepsExchange(r)
    PROVE  DataFits(r, m)' /\ SnapshotFits(r, m)' /\ DeltaFits(r, m)'
<1>1. master_replid[r] # replid'[m]
    BY NoReplidIsNoId DEF IdsAreMinted
<1>2. rpc[r].kind = "fullresync" => rpc[r].id # replid'[m]
    BY DEF IdsAreMinted
<1> QED
    BY <1>1, <1>2 DEF DataFits, SnapshotFits, DeltaFits, KeepsData, KeepsExchange

-----------------------------------------------------------------------------
(* Which datasets and offsets the steps are about. *)
LEMMA StreamTypes ==
    ASSUME StreamInv
    PROVE  /\ \A m \in Node : stream[m] \in Dataset /\ db[m] \in Dataset /\ Offset(m) \in Nat
           /\ \A m \in Node : Len(stream[m]) \in Nat /\ master_offset[m] \in Nat
           /\ \A m \in Node : role[m] = "master" =>
                 link[m] # "connected" /\ rpc[m].kind = "idle"
           /\ \A m \in Node : role[m] = "master" => replid[m] \in Replid /\ replid[m].node = m
<1>1. \A s \in Dataset : Len(s) \in Nat
    BY LenProperties DEF Dataset
<1>2. \A m \in Node : stream[m] \in Dataset /\ db[m] \in Dataset /\ master_offset[m] \in Nat
    BY DEF StreamInv, ReplicaInv, TypeOK
<1>3. \A m \in Node : role[m] = "master" => link[m] # "connected" /\ rpc[m].kind = "idle"
    BY DEF StreamInv, ReplicaInv, ExchangesAreInOrder
<1>4. \A m \in Node : role[m] = "master" => replid[m] \in Replid /\ replid[m].node = m
    BY DEF StreamInv, IdsAreMinted, Minted
<1> QED
    BY <1>1, <1>2, <1>3, <1>4 DEF Offset

LEMMA ClientWritesFits ==
    ASSUME StreamInv, NEW n \in Node, ClientWrites(n)
    PROVE  AnswersFit'
<1> DEFINE w == writes'
<1>1. w \in Write /\ role[n] = "master"
    BY ReplicationAssumption DEF ClientWrites, Write, StreamInv, ReplicaInv, TypeOK
<1>2. /\ db'[n] = Append(db[n], w) /\ stream'[n] = Append(stream[n], w)
      /\ \A m \in Node : m # n => db'[m] = db[m] /\ stream'[m] = stream[m]
      /\ UNCHANGED <<role, link, replid, master_replid, master_offset, rpc, resets, same_ms>>
    BY DEF ClientWrites, StreamInv, ReplicaInv, TypeOK, config, progress
<1> HIDE DEF w
<1>3. stream[n] \in Seq(Write) /\ Offset(n)' = Offset(n) + 1 /\ Offset(n) \in Nat
  <2>1. stream[n] \in Seq(Write) /\ Offset(n) \in Nat
      BY StreamTypes DEF Dataset
  <2>2. Len(Append(stream[n], w)) = Len(stream[n]) + 1
      BY <1>1, <2>1, AppendProperties
  <2> QED
      BY <1>2, <2>1, <2>2 DEF Offset
<1>4. ASSUME NEW d \in Dataset, NEW k \in Nat, ShortOf(n, d, k)
      PROVE  k <= Offset(n)' /\ db'[n] = d \o SubSeq(stream'[n], k + 1, Offset(n)')
  <2>1. k <= Len(stream[n]) /\ db[n] = d \o SubSeq(stream[n], k + 1, Len(stream[n]))
      BY <1>4 DEF ShortOf, Rest, Offset
  <2>2. Append(d \o SubSeq(stream[n], k + 1, Len(stream[n])), w) =
          d \o SubSeq(Append(stream[n], w), k + 1, Len(stream[n]) + 1)
      BY <1>1, <2>1, StreamTypes, RestOfAppend
  <2>3. Offset(n)' = Len(stream[n]) + 1 /\ Len(stream[n]) \in Nat
      BY <1>3 DEF Offset
  <2>4. k <= Offset(n)'
      BY <2>1, <2>3
  <2> QED
      BY <1>2, <2>1, <2>2, <2>3, <2>4
<1>0. ASSUME NEW m \in Node PROVE Trusted(m)' = Trusted(m)
    BY <1>2 DEF Trusted, IdUsedOnce
<1> SUFFICES ASSUME NEW r \in Node, NEW m \in Node, Trusted(m)
             PROVE  DataFits(r, m)' /\ SnapshotFits(r, m)' /\ DeltaFits(r, m)'
    BY <1>0 DEF AnswersFit
<1>5. CASE m # n /\ r # n
    BY <1>0, <1>2, <1>5, WhatStaysFits DEF KeepsStream, KeepsData, KeepsExchange, StreamInv
<1>6. CASE r = n
  <2>1. link'[r] # "connected" /\ rpc'[r].kind = "idle"
      BY <1>1, <1>2, <1>6, StreamTypes
  <2> QED
      BY <2>1 DEF DataFits, SnapshotFits, DeltaFits
<1>7. CASE m = n /\ r # n
  <2>1. DataFits(r, n) /\ SnapshotFits(r, n) /\ DeltaFits(r, n)
      BY <1>7 DEF StreamInv, AnswersFit
  <2>2. DataFits(r, n)'
    <3>1. db[r] \in Dataset /\ master_offset[r] \in Nat
        BY StreamTypes
    <3> QED
        BY <1>2, <1>4, <1>7, <2>1, <3>1 DEF DataFits, ShortOf, Rest
  <2>3. SnapshotFits(r, n)'
    <3>1. rpc[r].kind = "fullresync" => rpc[r].data \in Dataset /\ rpc[r].offset \in Nat
        BY RpcKinds DEF StreamInv, ReplicaInv, TypeOK
    <3> QED
        BY <1>2, <1>4, <2>1, <3>1 DEF SnapshotFits, ShortOf, Rest
  <2>4. DeltaFits(r, n)'
    <3> SUFFICES ASSUME rpc[r].kind = "continue", master_replid[r] = replid[n]
                 PROVE  /\ master_offset[r] <= rpc[r].offset
                        /\ rpc[r].offset <= Offset(n)'
                        /\ rpc[r].data =
                              SubSeq(Append(stream[n], w), master_offset[r] + 1, rpc[r].offset)
        BY <1>2 DEF DeltaFits
    <3>1. /\ master_offset[r] <= rpc[r].offset /\ rpc[r].offset <= Offset(n)
          /\ rpc[r].data = SubSeq(stream[n], master_offset[r] + 1, rpc[r].offset)
        BY <2>1 DEF DeltaFits
    <3>2. rpc[r].offset \in Nat /\ master_offset[r] \in Nat
        BY RpcKinds DEF StreamInv, ReplicaInv, TypeOK
    <3>3. SubSeq(Append(stream[n], w), master_offset[r] + 1, rpc[r].offset) =
            SubSeq(stream[n], master_offset[r] + 1, rpc[r].offset)
      <4>1. rpc[r].offset <= Len(stream[n]) /\ stream[n] \in Dataset
          BY <3>1, StreamTypes DEF Offset
      <4> QED
          BY <1>1, <3>2, <4>1, SliceOfAppend
    <3>4. rpc[r].offset <= Offset(n)'
        BY <1>3, <3>1, <3>2
    <3> QED
        BY <3>1, <3>3, <3>4
  <2> QED
      BY <1>7, <2>2, <2>3, <2>4
<1> QED
    BY <1>5, <1>6, <1>7

LEMMA AnswerFits ==
    ASSUME StreamInv, NEW n \in Node, Answer(n)
    PROVE  AnswersFit'
<1> DEFINE q == rpc[n].to
           ask == rpc[n]
<1>1. /\ UNCHANGED <<role, link, db, stream, replid, master_replid, master_offset>>
      /\ UNCHANGED <<resets, same_ms>>
      /\ \A r \in Node : r # n => rpc'[r] = rpc[r]
      /\ rpc'[n] = Reply(q, ask) /\ ask.kind = "ask"
    BY DEF Answer, StreamInv, ReplicaInv, TypeOK, config, dataset, backlog, progress, counters
<1>2. q \in Node /\ ask.id \in Replid \cup {NoReplid} /\ ask.offset \in Nat
    BY <1>1, RpcKinds DEF StreamInv, ReplicaInv, TypeOK
<1>3. \A m \in Node : KeepsStream(m)
    BY <1>1 DEF KeepsStream, Trusted, IdUsedOnce
<1>4. \A r \in Node : KeepsData(r) /\ (r # n => KeepsExchange(r))
    BY <1>1 DEF KeepsData, KeepsExchange
<1> SUFFICES ASSUME NEW m \in Node, Trusted(m)
             PROVE  SnapshotFits(n, m)' /\ DeltaFits(n, m)'
  <2>1. \A m \in Node : Trusted(m)' => Trusted(m)
      BY <1>3 DEF KeepsStream
  <2> QED
      BY <1>1, <1>3, <1>4, <2>1, WhatStaysFits DEF AnswersFit, StreamInv
<1>5. CASE role[q] # "master"
  <2>1. rpc'[n].kind = "error"
      BY <1>1, <1>5, PlainKinds DEF Reply
  <2> QED
      BY <2>1 DEF SnapshotFits, DeltaFits
<1>6. CASE role[q] = "master" /\ CanContinue(q, ask.id, ask.offset)
  <2>1. /\ ask.id = replid[q] /\ FirstOffset(q) <= ask.offset /\ ask.offset <= Offset(q)
        /\ rpc'[n].kind = "continue" /\ rpc'[n].offset = Offset(q)
        /\ rpc'[n].data = SliceFrom(q, ask.offset)
      BY <1>1, <1>6, PlainKinds DEF Reply, CanContinue
  <2>2. ask.id # NoReplid
      BY <1>2, <1>6, <2>1, StreamTypes, NoReplidIsNoId
  <2>3. ask.id = master_replid[n] /\ ask.offset = master_offset[n]
      BY <1>1, <2>2 DEF StreamInv, ReplicaInv, ExchangesAreInOrder
  <2>4. rpc'[n].data = SubSeq(stream[q], master_offset[n] + 1, Offset(q))
      BY <2>1, <2>3 DEF SliceFrom
  <2>5. master_replid[n] = replid[m] => m = q
    <3>1. replid[m].node = m /\ replid[q].node = q
        BY <1>2, <1>6, StreamTypes DEF Trusted
    <3> QED
        BY <2>1, <2>3, <3>1
  <2>6. master_offset[n] <= Offset(q) /\ Offset(q) <= Offset(q)
      BY <1>2, <2>1, <2>3, StreamTypes
  <2>7. DeltaFits(n, m)'
      BY <1>1, <2>1, <2>4, <2>5, <2>6 DEF DeltaFits, Offset
  <2> QED
      BY <2>1, <2>7 DEF SnapshotFits
<1>7. CASE role[q] = "master" /\ ~CanContinue(q, ask.id, ask.offset)
  <2>1. /\ rpc'[n].kind = "fullresync" /\ rpc'[n].id = replid[q]
        /\ rpc'[n].offset = Offset(q) /\ rpc'[n].data = db[q]
      BY <1>1, <1>7, PlainKinds DEF Reply
  <2>2. ShortOf(q, db[q], Offset(q))
    <3>1. stream[q] \in Dataset /\ db[q] \in Dataset /\ Offset(q) <= Offset(q)
        BY <1>2, StreamTypes
    <3> QED
        BY <3>1, RestOfAll DEF ShortOf, Rest, Offset
  <2>3. rpc'[n].id = replid[m] => m = q
    <3>1. replid[m].node = m /\ replid[q].node = q
        BY <1>2, <1>7, StreamTypes DEF Trusted
    <3> QED
        BY <2>1, <3>1
  <2>4. SnapshotFits(n, m)'
      BY <1>1, <2>1, <2>2, <2>3 DEF SnapshotFits, ShortOf, Rest, Offset
  <2> QED
      BY <2>1, <2>4 DEF DeltaFits
<1> QED
    BY <1>5, <1>6, <1>7

LEMMA ApplyFullFits ==
    ASSUME StreamInv, NEW n \in Node, ApplyFull(n)
    PROVE  AnswersFit'
<1>1. /\ UNCHANGED <<role, stream, replid, resets, same_ms>>
      /\ \A r \in Node : r # n => /\ rpc'[r] = rpc[r] /\ db'[r] = db[r]
                                 /\ link'[r] = link[r]
                                 /\ master_replid'[r] = master_replid[r]
                                 /\ master_offset'[r] = master_offset[r]
      /\ rpc'[n].kind = "idle" /\ db'[n] = rpc[n].data
      /\ master_replid'[n] = rpc[n].id /\ master_offset'[n] = rpc[n].offset
      /\ rpc[n].kind = "fullresync"
    BY PlainKinds DEF ApplyFull, StreamInv, ReplicaInv, TypeOK, config, backlog, counters
<1>2. \A m \in Node : Trusted(m)' = Trusted(m) /\ (Trusted(m) => m # n /\ KeepsStream(m))
    BY <1>1, StreamTypes DEF KeepsStream, Trusted, IdUsedOnce
<1>3. \A r \in Node : KeepsExchange(r) /\ (r # n => KeepsData(r))
    BY <1>1 DEF KeepsData, KeepsExchange
<1> SUFFICES ASSUME NEW m \in Node, Trusted(m)
             PROVE  DataFits(n, m)'
    BY <1>1, <1>2, <1>3, WhatStaysFits DEF AnswersFit, StreamInv
<1>4. SnapshotFits(n, m)
    BY DEF StreamInv, AnswersFit
<1>5. db'[m] = db[m] /\ Offset(m)' = Offset(m)
    BY SMTT(30), <1>1, <1>2 DEF Offset
<1> QED
    BY <1>1, <1>4, <1>5 DEF DataFits, SnapshotFits, ShortOf, Rest

LEMMA ApplyMoreFits ==
    ASSUME StreamInv, NEW n \in Node, ApplyMore(n)
    PROVE  AnswersFit'
<1>1. /\ UNCHANGED <<role, stream, replid, link, master_replid, resets, same_ms>>
      /\ \A r \in Node : r # n => /\ rpc'[r] = rpc[r] /\ db'[r] = db[r]
                                 /\ master_offset'[r] = master_offset[r]
      /\ rpc'[n].kind = "idle" /\ db'[n] = db[n] \o rpc[n].data
      /\ master_offset'[n] = rpc[n].offset
      /\ rpc[n].kind = "continue"
    BY SMTT(30), PlainKinds DEF ApplyMore, StreamInv, ReplicaInv, TypeOK, config, backlog, counters
<1>2. \A m \in Node : Trusted(m)' = Trusted(m) /\ (Trusted(m) => m # n /\ KeepsStream(m))
    BY <1>1, StreamTypes DEF KeepsStream, Trusted, IdUsedOnce
<1>3. \A r \in Node : KeepsExchange(r) /\ (r # n => KeepsData(r))
    BY <1>1 DEF KeepsData, KeepsExchange
<1> SUFFICES ASSUME NEW m \in Node, Trusted(m), master_replid[n] = replid[m]
             PROVE  /\ rpc[n].offset <= Offset(m)
                    /\ db[m] = (db[n] \o rpc[n].data) \o Rest(m, rpc[n].offset)
  <2> SUFFICES ASSUME NEW m \in Node, Trusted(m)
               PROVE  DataFits(n, m)'
      BY <1>1, <1>2, <1>3, WhatStaysFits DEF AnswersFit, StreamInv
  <2>1. db'[m] = db[m] /\ Offset(m)' = Offset(m)
      BY <1>1, <1>2 DEF Offset
  <2> QED
      BY <1>1, <2>1 DEF DataFits, ShortOf, Rest
<1>4. link[n] = "connected" /\ rpc[n].offset \in Nat
    BY <1>1, RpcKinds DEF StreamInv, ReplicaInv, ExchangesAreInOrder, TypeOK
<1>5. /\ ShortOf(m, db[n], master_offset[n])
      /\ master_offset[n] <= rpc[n].offset /\ rpc[n].offset <= Offset(m)
      /\ rpc[n].data = SubSeq(stream[m], master_offset[n] + 1, rpc[n].offset)
    BY <1>1, <1>4 DEF StreamInv, AnswersFit, DataFits, DeltaFits
<1>6. /\ stream[m] \in Dataset /\ db[n] \in Dataset /\ master_offset[n] \in Nat
      /\ rpc[n].offset <= Len(stream[m])
    BY <1>5, StreamTypes DEF Offset
<1>7. db[n] \o SubSeq(stream[m], master_offset[n] + 1, Len(stream[m])) =
        (db[n] \o SubSeq(stream[m], master_offset[n] + 1, rpc[n].offset))
          \o SubSeq(stream[m], rpc[n].offset + 1, Len(stream[m]))
    BY <1>4, <1>5, <1>6, RestAfterMore
<1> QED
    BY <1>5, <1>7 DEF ShortOf, Rest, Offset

LEMMA RoleStepsFit ==
    ASSUME StreamInv, NEW n \in Node,
           \/ \E m \in Node \ {n} : SetReplica(n, m)
           \/ ResetToMaster(n)
           \/ Restart(n)
    PROVE  AnswersFit'
<1>1. \A m \in Node : m # n => KeepsStream(m)
    BY SMTT(30)
       DEF SetReplica, ResetToMaster, Restart, KeepsStream, Trusted, IdUsedOnce, StreamInv, ReplicaInv,
           TypeOK, dataset, counters
<1>2. \A r \in Node : KeepsData(r)
    BY ZenonT(60) DEF SetReplica, ResetToMaster, Restart, KeepsData, StreamInv, ReplicaInv,
           TypeOK, dataset
<1>3. \A r \in Node : KeepsExchange(r)
  <2>1. CASE Restart(n)
      BY SMTT(30), <2>1, PlainKinds DEF Restart, KeepsExchange, StreamInv, ReplicaInv, TypeOK
  <2>2. CASE ResetToMaster(n) \/ \E m \in Node \ {n} : SetReplica(n, m)
    <3>1. /\ rpc' = rpc /\ rpc[n].kind = "idle"
          /\ \A r \in Node : r # n => /\ master_replid'[r] = master_replid[r]
                                     /\ master_offset'[r] = master_offset[r]
        BY SMTT(30), <2>2, PlainKinds DEF ResetToMaster, SetReplica, Runs, StreamInv, ReplicaInv, TypeOK
    <3> QED
        BY <3>1 DEF KeepsExchange
  <2> QED
      BY <2>1, <2>2
<1>4. rpc'[n].kind = "idle" /\ link'[n] # "connected"
    BY PlainKinds DEF SetReplica, ResetToMaster, Restart, Runs, StreamInv, ReplicaInv, TypeOK
<1>5. CASE \E m \in Node \ {n} : SetReplica(n, m)
  <2>1. role'[n] # "master"
      BY <1>5 DEF SetReplica, StreamInv, ReplicaInv, TypeOK
  <2> QED
      BY <1>1, <1>2, <1>3, <2>1, FitsIfAllStays DEF StreamInv, Trusted
<1>6. CASE ResetToMaster(n) \/ Restart(n)
  <2>1. IdUsedOnce(n)' => ~Minted(replid'[n]) /\ replid'[n] \in Replid
      BY <1>6, StartIdIsNew, PromotionIdIsMinted DEF StreamInv, Minted
  <2> SUFFICES ASSUME NEW r \in Node, NEW m \in Node, Trusted(m)'
               PROVE  DataFits(r, m)' /\ SnapshotFits(r, m)' /\ DeltaFits(r, m)'
      BY DEF AnswersFit
  <2>2. CASE m # n
      BY <1>1, <1>2, <1>3, <2>2, WhatStaysFits DEF StreamInv
  <2>3. CASE m = n /\ r # n
      BY <1>2, <1>3, <2>1, <2>3, NewIdFits DEF StreamInv, Trusted
  <2>4. CASE r = n
      BY <1>4, <2>4 DEF DataFits, SnapshotFits, DeltaFits
  <2> QED
      BY <2>2, <2>3, <2>4
<1> QED
    BY <1>5, <1>6

LEMMA NextFits ==
    ASSUME StreamInv, [Next]_vars
    PROVE  AnswersFit'
<1>1. ASSUME NEW n \in Node, StepsAside(n) PROVE AnswersFit'
  <2>1. \A m \in Node : Trusted(m)' => KeepsStream(m)
      BY <1>1 DEF StepsAside, KeepsStream, Trusted, IdUsedOnce
  <2>2. \A r \in Node : KeepsData(r) /\ KeepsExchange(r)
      BY <1>1 DEF StepsAside, KeepsData, KeepsExchange
  <2> QED
      BY <2>1, <2>2, FitsIfAllStays DEF StreamInv
<1>2. CASE UNCHANGED vars
    BY <1>2, FitsIfAllStays
       DEF vars, config, dataset, backlog, progress, counters, KeepsStream, KeepsData,
           KeepsExchange, Trusted, IdUsedOnce, StreamInv
<1> QED
    BY <1>1, <1>2, StepsAsideForms, ClientWritesFits, AnswerFits, ApplyFullFits, ApplyMoreFits,
       RoleStepsFit DEF Next, StreamInv

LEMMA StreamInvHolds == Spec => []StreamInv
<1>1. Init => StreamInv
  <2>1. Init => AnswersFit
      BY PlainKinds DEF Init, AnswersFit, DataFits, SnapshotFits, DeltaFits
  <2> QED
      BY <2>1, InitReplicaInv, InitMinted DEF StreamInv
<1>2. StreamInv /\ [Next]_vars => StreamInv'
    BY NextTypeOK, NextInOrder, NextMinted, NextFits DEF StreamInv, ReplicaInv
<1> QED
    BY <1>1, <1>2, PTL DEF Spec

(* Between a connected replica and the master whose stream it follows lies *)
(* exactly the rest of that stream, whatever was lost, failed, overrun,    *)
(* promoted or restarted, if the id of the stream was not used before.     *)
THEOREM ReplicaMissesOnlyTheRest ==
    Spec => []MissesRestOfStream
<1>1. StreamInv => MissesRestOfStream
    BY DEF StreamInv, AnswersFit, Trusted, DataFits, MissesRestOfStream, Follows, ShortOf, Rest
<1> QED
    BY StreamInvHolds, <1>1, PTL

(* An id that was used once and an offset name a dataset: what lets a      *)
(* master continue.                                                        *)
THEOREM IdAndOffsetNameADataset ==
    Spec => []SameOffsetSameData
<1>1. StreamInv => SameOffsetSameData
  <2> SUFFICES ASSUME StreamInv, NEW r \in Node, NEW m \in Node, Follows(r, m), IdUsedOnce(m),
                      master_offset[r] = Offset(m)
               PROVE  db[r] = db[m]
      BY DEF SameOffsetSameData
  <2>1. db[m] = db[r] \o SubSeq(stream[m], Offset(m) + 1, Offset(m))
      BY DEF StreamInv, AnswersFit, Trusted, DataFits, Follows, ShortOf, Rest
  <2>2. stream[m] \in Dataset /\ db[r] \in Dataset
      BY DEF StreamInv, ReplicaInv, TypeOK
  <2> QED
      BY <2>1, <2>2, RestOfAll DEF Offset
<1> QED
    BY StreamInvHolds, <1>1, PTL

=============================================================================
