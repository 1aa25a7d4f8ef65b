-------------------------- MODULE Benchmarks_proofs --------------------------
(***************************************************************************)
(* Proved here for every number of rounds and of runs: the benchmark drivers*)
(* leave nothing behind, their reports are complete, a sample measures what*)
(* its case is named for, and the servers it is taken of hold what the run *)
(* wrote.  None of the four is inductive.  The invariants under them:      *)
(*                                                                         *)
(*   DriverInv   where the driver is and which servers run there;          *)
(*   ReportInv   the lines of a report, job by job;                        *)
(*   DataInv     the types of the data of the servers and of their files;  *)
(*   WordsInv    whose words the log, the snapshot and the buffer hold;    *)
(*   TableInv    per case, step by step: the link and what has happened;   *)
(*   KeptInv     per case, step by step: the data and where it is.         *)
(*                                                                         *)
(* The scripts of the cases are sequences put together from others, so they*)
(* are written out first.  What a replay of an AOF computes is a fold; it is*)
(* followed position by position (Traces), by induction on the well-founded*)
(* order of the natural numbers.                                           *)
(***************************************************************************)
EXTENDS Benchmarks, SequenceTheorems, WellFoundedInduction, TLAPS

-----------------------------------------------------------------------------
(* The scripts, written out: a case is a sequence put together from others.*)
Steps ==
    {Start("server", "fresh"), Start("server", "existing"), Start("server", "scenario"),
     Start("replica", "scenario"),
     Set("first", "x"), Set("last", "x"), Set("key", "base"), Set("key", "newer"),
     Set("extra", "value"), Set("key", "value"), Set("key", "after"),
     Do("clock"), Do("save"), Do("sample"), Do("stop"), Do("replicaof"), Do("connected"),
     Do("disconnected"), WaitValue("value"), WaitValue("newer"), WaitValue("after"),
     Check(<<"last">>, <<"x">>), Check(<<"key", "extra">>, <<"newer", "value">>)}

LEMMA Joined ==
    ASSUME NEW s \in Seq(Steps), NEW t \in Seq(Steps)
    PROVE  /\ s \o t \in Seq(Steps) /\ Len(s \o t) = Len(s) + Len(t)
           /\ \A i \in 1 .. Len(s) : (s \o t)[i] = s[i]
           /\ \A i \in 1 .. Len(t) : (s \o t)[Len(s) + i] = t[i]
<1>1. Len(s) \in Nat /\ Len(t) \in Nat
    BY LenProperties
<1>2. /\ s \o t \in Seq(Steps) /\ Len(s \o t) = Len(s) + Len(t)
      /\ \A i \in 1 .. Len(s) + Len(t) : (s \o t)[i] = IF i <= Len(s) THEN s[i] ELSE t[i - Len(s)]
    BY ConcatProperties
<1> QED
    BY <1>1, <1>2

LEMMA Assembled ==
    ASSUME NEW s \in Seq(Steps), NEW t \in Seq(Steps), NEW u \in Seq(Steps)
    PROVE  /\ s \o t \o u \in Seq(Steps) /\ Len(s \o t \o u) = Len(s) + Len(t) + Len(u)
           /\ \A i \in 1 .. Len(s) : (s \o t \o u)[i] = s[i]
           /\ \A i \in 1 .. Len(t) : (s \o t \o u)[Len(s) + i] = t[i]
           /\ \A i \in 1 .. Len(u) : (s \o t \o u)[Len(s) + Len(t) + i] = u[i]
<1> DEFINE st == s \o t
<1>1. Len(s) \in Nat /\ Len(t) \in Nat /\ Len(u) \in Nat
    BY LenProperties
<1>2. /\ st \in Seq(Steps) /\ Len(st) = Len(s) + Len(t)
      /\ \A i \in 1 .. Len(s) : st[i] = s[i]
      /\ \A i \in 1 .. Len(t) : st[Len(s) + i] = t[i]
    BY Joined
<1> HIDE DEF st
<1>3. /\ st \o u \in Seq(Steps) /\ Len(st \o u) = Len(st) + Len(u)
      /\ \A i \in 1 .. Len(st) : (st \o u)[i] = st[i]
      /\ \A i \in 1 .. Len(u) : (st \o u)[Len(st) + i] = u[i]
    BY <1>2, Joined
<1>4. \A i \in 1 .. Len(s) : (st \o u)[i] = s[i]
    BY <1>1, <1>2, <1>3
<1>5. \A i \in 1 .. Len(t) : (st \o u)[Len(s) + i] = t[i]
    BY <1>1, <1>2, <1>3
<1>6. /\ st \o u \in Seq(Steps) /\ Len(st \o u) = Len(s) + Len(t) + Len(u)
      /\ \A i \in 1 .. Len(u) : (st \o u)[Len(s) + Len(t) + i] = u[i]
    BY <1>1, <1>2, <1>3
<1> QED
    BY <1>4, <1>5, <1>6 DEF st

LEMMA DatasetSteps ==
    /\ PopulateDataset \in Seq(Steps) /\ Len(PopulateDataset) = 2
    /\ PopulateDataset[1] = Set("first", "x") /\ PopulateDataset[2] = Set("last", "x")
<1>1. Set("first", "x") \in Steps /\ Set("last", "x") \in Steps
    BY DEF Steps
<1> QED
    BY <1>1 DEF PopulateDataset

LEMMA MasterSteps ==
    /\ PopulateMaster \in Seq(Steps) /\ Len(PopulateMaster) = 3
    /\ PopulateMaster[1] = Set("first", "x") /\ PopulateMaster[2] = Set("last", "x")
    /\ PopulateMaster[3] = Set("key", "value")
<1> DEFINE t == <<Set("key", "value")>>
<1>1. t \in Seq(Steps) /\ Len(t) = 1 /\ t[1] = Set("key", "value")
    BY DEF Steps
<1> HIDE DEF t
<1>2. /\ PopulateDataset \o t \in Seq(Steps)
      /\ Len(PopulateDataset \o t) = Len(PopulateDataset) + Len(t)
      /\ \A i \in 1 .. Len(PopulateDataset) : (PopulateDataset \o t)[i] = PopulateDataset[i]
      /\ \A i \in 1 .. Len(t) : (PopulateDataset \o t)[Len(PopulateDataset) + i] = t[i]
    BY <1>1, DatasetSteps, Joined
<1>3. PopulateMaster = PopulateDataset \o t
    BY DEF PopulateMaster, t
<1> QED
    BY <1>1, <1>2, <1>3, DatasetSteps

LEMMA PairSteps ==
    /\ Pair \in Seq(Steps) /\ Len(Pair) = 2
    /\ Pair[1] = Start("server", "scenario") /\ Pair[2] = Start("replica", "scenario")
<1>1. Start("server", "scenario") \in Steps /\ Start("replica", "scenario") \in Steps
    BY DEF Steps
<1> QED
    BY <1>1 DEF Pair

LEMMA FreshSteps ==
    /\ <<Start("server", "fresh")>> \in Seq(Steps) /\ Len(<<Start("server", "fresh")>>) = 1
    /\ <<Start("server", "fresh")>>[1] = Start("server", "fresh")
<1>1. Start("server", "fresh") \in Steps
    BY DEF Steps
<1> QED
    BY <1>1

LEMMA SaveSteps ==
    /\ Len(SaveOnce) = 6
    /\ SaveOnce[1] = Start("server", "fresh") /\ SaveOnce[2] = Set("first", "x")
    /\ SaveOnce[3] = Set("last", "x") /\ SaveOnce[4] = Do("clock")
    /\ SaveOnce[5] = Do("save") /\ SaveOnce[6] = Do("sample")
<1> DEFINE t == <<Do("clock"), Do("save"), Do("sample")>>
<1>1. /\ t \in Seq(Steps) /\ Len(t) = 3
      /\ t[1] = Do("clock") /\ t[2] = Do("save") /\ t[3] = Do("sample")
    BY DEF Steps
<1> HIDE DEF t
<1> DEFINE s == <<Start("server", "fresh")>>
           d == PopulateDataset
<1>2. /\ s \in Seq(Steps) /\ Len(s) = 1
      /\ d \in Seq(Steps) /\ Len(d) = 2
    BY FreshSteps, DatasetSteps
<1>3. SaveOnce = s \o d \o t
    BY DEF SaveOnce, t
<1> HIDE DEF s, d
<1>4. s \in Seq(Steps) /\ d \in Seq(Steps) /\ t \in Seq(Steps)
    BY <1>1, <1>2
<1>5. /\ Len(SaveOnce) = Len(s) + Len(d) + Len(t)
      /\ \A i \in 1 .. Len(s) : SaveOnce[i] = s[i]
      /\ \A i \in 1 .. Len(d) : SaveOnce[Len(s) + i] = d[i]
      /\ \A i \in 1 .. Len(t) : SaveOnce[Len(s) + Len(d) + i] = t[i]
    BY <1>3, <1>4, Assembled
<1>6. /\ \A i \in 1 .. 1 : SaveOnce[i] = s[i]
      /\ \A i \in 1 .. 2 : SaveOnce[1 + i] = d[i]
      /\ \A i \in 1 .. 3 : SaveOnce[3 + i] = t[i]
    BY <1>1, <1>2, <1>5
<1> QED
    BY <1>1, <1>2, <1>5, <1>6, FreshSteps, DatasetSteps DEF s, d

LEMMA RecoveryAofSteps ==
    /\ Len(RecoveryAofOnce) = 8
    /\ RecoveryAofOnce[1] = Start("server", "fresh")
    /\ RecoveryAofOnce[2] = Set("first", "x") /\ RecoveryAofOnce[3] = Set("last", "x")
    /\ RecoveryAofOnce[4] = Do("stop") /\ RecoveryAofOnce[5] = Do("clock")
    /\ RecoveryAofOnce[6] = Start("server", "existing")
    /\ RecoveryAofOnce[7] = Check(<<"last">>, <<"x">>) /\ RecoveryAofOnce[8] = Do("sample")
<1> DEFINE t == <<Do("stop"), Do("clock"), Start("server", "existing"),
             Check(<<"last">>, <<"x">>), Do("sample")>>
<1>1. /\ t \in Seq(Steps) /\ Len(t) = 5
      /\ t[1] = Do("stop") /\ t[2] = Do("clock") /\ t[3] = Start("server", "existing")
      /\ t[4] = Check(<<"last">>, <<"x">>) /\ t[5] = Do("sample")
    BY DEF Steps
<1> HIDE DEF t
<1> DEFINE s == <<Start("server", "fresh")>>
           d == PopulateDataset
<1>2. /\ s \in Seq(Steps) /\ Len(s) = 1
      /\ d \in Seq(Steps) /\ Len(d) = 2
    BY FreshSteps, DatasetSteps
<1>3. RecoveryAofOnce = s \o d \o t
    BY DEF RecoveryAofOnce, t
<1> HIDE DEF s, d
<1>4. s \in Seq(Steps) /\ d \in Seq(Steps) /\ t \in Seq(Steps)
    BY <1>1, <1>2
<1>5. /\ Len(RecoveryAofOnce) = Len(s) + Len(d) + Len(t)
      /\ \A i \in 1 .. Len(s) : RecoveryAofOnce[i] = s[i]
      /\ \A i \in 1 .. Len(d) : RecoveryAofOnce[Len(s) + i] = d[i]
      /\ \A i \in 1 .. Len(t) : RecoveryAofOnce[Len(s) + Len(d) + i] = t[i]
    BY <1>3, <1>4, Assembled
<1>6. /\ \A i \in 1 .. 1 : RecoveryAofOnce[i] = s[i]
      /\ \A i \in 1 .. 2 : RecoveryAofOnce[1 + i] = d[i]
      /\ \A i \in 1 .. 5 : RecoveryAofOnce[3 + i] = t[i]
    BY <1>1, <1>2, <1>5
<1> QED
    BY <1>1, <1>2, <1>5, <1>6, FreshSteps, DatasetSteps DEF s, d

LEMMA RecoveryRdbAofSteps ==
    /\ Len(RecoveryRdbAofOnce) = 12
    /\ RecoveryRdbAofOnce[1] = Start("server", "fresh")
    /\ RecoveryRdbAofOnce[2] = Set("first", "x")
    /\ RecoveryRdbAofOnce[3] = Set("last", "x")
    /\ RecoveryRdbAofOnce[4] = Set("key", "base") /\ RecoveryRdbAofOnce[5] = Do("save")
    /\ RecoveryRdbAofOnce[6] = Set("key", "newer")
    /\ RecoveryRdbAofOnce[7] = Set("extra", "value") /\ RecoveryRdbAofOnce[8] = Do("stop")
    /\ RecoveryRdbAofOnce[9] = Do("clock")
    /\ RecoveryRdbAofOnce[10] = Start("server", "existing")
    /\ RecoveryRdbAofOnce[11] = Check(<<"key", "extra">>, <<"newer", "value">>)
    /\ RecoveryRdbAofOnce[12] = Do("sample")
<1> DEFINE t == <<Set("key", "base"), Do("save"), Set("key", "newer"),
             Set("extra", "value"), Do("stop"), Do("clock"),
             Start("server", "existing"),
             Check(<<"key", "extra">>, <<"newer", "value">>), Do("sample")>>
<1>1. /\ t \in Seq(Steps) /\ Len(t) = 9
      /\ t[1] = Set("key", "base") /\ t[2] = Do("save") /\ t[3] = Set("key", "newer")
      /\ t[4] = Set("extra", "value") /\ t[5] = Do("stop") /\ t[6] = Do("clock")
      /\ t[7] = Start("server", "existing")
      /\ t[8] = Check(<<"key", "extra">>, <<"newer", "value">>) /\ t[9] = Do("sample")
    BY DEF Steps
<1> HIDE DEF t
<1> DEFINE s == <<Start("server", "fresh")>>
           d == PopulateDataset
<1>2. /\ s \in Seq(Steps) /\ Len(s) = 1
      /\ d \in Seq(Steps) /\ Len(d) = 2
    BY FreshSteps, DatasetSteps
<1>3. RecoveryRdbAofOnce = s \o d \o t
    BY DEF RecoveryRdbAofOnce, t
<1> HIDE DEF s, d
<1>4. s \in Seq(Steps) /\ d \in Seq(Steps) /\ t \in Seq(Steps)
    BY <1>1, <1>2
<1>5. /\ Len(RecoveryRdbAofOnce) = Len(s) + Len(d) + Len(t)
      /\ \A i \in 1 .. Len(s) : RecoveryRdbAofOnce[i] = s[i]
      /\ \A i \in 1 .. Len(d) : RecoveryRdbAofOnce[Len(s) + i] = d[i]
      /\ \A i \in 1 .. Len(t) : RecoveryRdbAofOnce[Len(s) + Len(d) + i] = t[i]
    BY <1>3, <1>4, Assembled
<1>6. /\ \A i \in 1 .. 1 : RecoveryRdbAofOnce[i] = s[i]
      /\ \A i \in 1 .. 2 : RecoveryRdbAofOnce[1 + i] = d[i]
      /\ \A i \in 1 .. 9 : RecoveryRdbAofOnce[3 + i] = t[i]
    BY <1>1, <1>2, <1>5
<1> QED
    BY <1>1, <1>2, <1>5, <1>6, FreshSteps, DatasetSteps DEF s, d

LEMMA FullSyncSteps ==
    /\ Len(FullSyncOnce) = 10
    /\ FullSyncOnce[1] = Start("server", "scenario")
    /\ FullSyncOnce[2] = Start("replica", "scenario")
    /\ FullSyncOnce[3] = Set("first", "x") /\ FullSyncOnce[4] = Set("last", "x")
    /\ FullSyncOnce[5] = Set("key", "value") /\ FullSyncOnce[6] = Do("clock")
    /\ FullSyncOnce[7] = Do("replicaof") /\ FullSyncOnce[8] = Do("connected")
    /\ FullSyncOnce[9] = WaitValue("value") /\ FullSyncOnce[10] = Do("sample")
<1> DEFINE t == <<Do("clock"), Do("replicaof"), Do("connected"), WaitValue("value"),
             Do("sample")>>
<1>1. /\ t \in Seq(Steps) /\ Len(t) = 5
      /\ t[1] = Do("clock") /\ t[2] = Do("replicaof") /\ t[3] = Do("connected")
      /\ t[4] = WaitValue("value") /\ t[5] = Do("sample")
    BY DEF Steps
<1> HIDE DEF t
<1> DEFINE s == Pair
           d == PopulateMaster
<1>2. /\ s \in Seq(Steps) /\ Len(s) = 2
      /\ d \in Seq(Steps) /\ Len(d) = 3
    BY PairSteps, MasterSteps
<1>3. FullSyncOnce = s \o d \o t
    BY DEF FullSyncOnce, t
<1> HIDE DEF s, d
<1>4. s \in Seq(Steps) /\ d \in Seq(Steps) /\ t \in Seq(Steps)
    BY <1>1, <1>2
<1>5. /\ Len(FullSyncOnce) = Len(s) + Len(d) + Len(t)
      /\ \A i \in 1 .. Len(s) : FullSyncOnce[i] = s[i]
      /\ \A i \in 1 .. Len(d) : FullSyncOnce[Len(s) + i] = d[i]
      /\ \A i \in 1 .. Len(t) : FullSyncOnce[Len(s) + Len(d) + i] = t[i]
    BY <1>3, <1>4, Assembled
<1>6. /\ \A i \in 1 .. 2 : FullSyncOnce[i] = s[i]
      /\ \A i \in 1 .. 3 : FullSyncOnce[2 + i] = d[i]
      /\ \A i \in 1 .. 5 : FullSyncOnce[5 + i] = t[i]
    BY <1>1, <1>2, <1>5
<1> QED
    BY <1>1, <1>2, <1>5, <1>6, PairSteps, MasterSteps DEF s, d

LEMMA IncrementalSyncSteps ==
    /\ Len(IncrementalSyncOnce) = 12
    /\ IncrementalSyncOnce[1] = Start("server", "scenario")
    /\ IncrementalSyncOnce[2] = Start("replica", "scenario")
    /\ IncrementalSyncOnce[3] = Set("first", "x")
    /\ IncrementalSyncOnce[4] = Set("last", "x")
    /\ IncrementalSyncOnce[5] = Set("key", "value")
    /\ IncrementalSyncOnce[6] = Do("replicaof") /\ IncrementalSyncOnce[7] = Do("connected")
    /\ IncrementalSyncOnce[8] = WaitValue("value") /\ IncrementalSyncOnce[9] = Do("clock")
    /\ IncrementalSyncOnce[10] = Set("key", "newer")
    /\ IncrementalSyncOnce[11] = WaitValue("newer")
    /\ IncrementalSyncOnce[12] = Do("sample")
<1> DEFINE t == <<Do("replicaof"), Do("connected"), WaitValue("value"), Do("clock"),
             Set("key", "newer"), WaitValue("newer"), Do("sample")>>
<1>1. /\ t \in Seq(Steps) /\ Len(t) = 7
      /\ t[1] = Do("replicaof") /\ t[2] = Do("connected") /\ t[3] = WaitValue("value")
      /\ t[4] = Do("clock") /\ t[5] = Set("key", "newer") /\ t[6] = WaitValue("newer")
      /\ t[7] = Do("sample")
    BY DEF Steps
<1> HIDE DEF t
<1> DEFINE s == Pair
           d == PopulateMaster
<1>2. /\ s \in Seq(Steps) /\ Len(s) = 2
      /\ d \in Seq(Steps) /\ Len(d) = 3
    BY PairSteps, MasterSteps
<1>3. IncrementalSyncOnce = s \o d \o t
    BY DEF IncrementalSyncOnce, t
<1> HIDE DEF s, d
<1>4. s \in Seq(Steps) /\ d \in Seq(Steps) /\ t \in Seq(Steps)
    BY <1>1, <1>2
<1>5. /\ Len(IncrementalSyncOnce) = Len(s) + Len(d) + Len(t)
      /\ \A i \in 1 .. Len(s) : IncrementalSyncOnce[i] = s[i]
      /\ \A i \in 1 .. Len(d) : IncrementalSyncOnce[Len(s) + i] = d[i]
      /\ \A i \in 1 .. Len(t) : IncrementalSyncOnce[Len(s) + Len(d) + i] = t[i]
    BY <1>3, <1>4, Assembled
<1>6. /\ \A i \in 1 .. 2 : IncrementalSyncOnce[i] = s[i]
      /\ \A i \in 1 .. 3 : IncrementalSyncOnce[2 + i] = d[i]
      /\ \A i \in 1 .. 7 : IncrementalSyncOnce[5 + i] = t[i]
    BY <1>1, <1>2, <1>5
<1> QED
    BY <1>1, <1>2, <1>5, <1>6, PairSteps, MasterSteps DEF s, d

LEMMA ReconnectSteps ==
    /\ Len(ReconnectOnce) = 16
    /\ ReconnectOnce[1] = Start("server", "scenario")
    /\ ReconnectOnce[2] = Start("replica", "scenario")
    /\ ReconnectOnce[3] = Set("first", "x") /\ ReconnectOnce[4] = Set("last", "x")
    /\ ReconnectOnce[5] = Set("key", "value") /\ ReconnectOnce[6] = Do("replicaof")
    /\ ReconnectOnce[7] = Do("connected") /\ ReconnectOnce[8] = WaitValue("value")
    /\ ReconnectOnce[9] = Do("stop") /\ ReconnectOnce[10] = Do("disconnected")
    /\ ReconnectOnce[11] = Do("clock") /\ ReconnectOnce[12] = Start("server", "existing")
    /\ ReconnectOnce[13] = Do("connected") /\ ReconnectOnce[14] = Set("key", "after")
    /\ ReconnectOnce[15] = WaitValue("after") /\ ReconnectOnce[16] = Do("sample")
<1> DEFINE t == <<Do("replicaof"), Do("connected"), WaitValue("value"), Do("stop"),
             Do("disconnected"), Do("clock"), Start("server", "existing"),
             Do("connected"), Set("key", "after"), WaitValue("after"),
             Do("sample")>>
<1>1. /\ t \in Seq(Steps) /\ Len(t) = 11
      /\ t[1] = Do("replicaof") /\ t[2] = Do("connected") /\ t[3] = WaitValue("value")
      /\ t[4] = Do("stop") /\ t[5] = Do("disconnected") /\ t[6] = Do("clock")
      /\ t[7] = Start("server", "existing") /\ t[8] = Do("connected")
      /\ t[9] = Set("key", "after") /\ t[10] = WaitValue("after") /\ t[11] = Do("sample")
    BY DEF Steps
<1> HIDE DEF t
<1> DEFINE s == Pair
           d == PopulateMaster
<1>2. /\ s \in Seq(Steps) /\ Len(s) = 2
      /\ d \in Seq(Steps) /\ Len(d) = 3
    BY PairSteps, MasterSteps
<1>3. ReconnectOnce = s \o d \o t
    BY DEF ReconnectOnce, t
<1> HIDE DEF s, d
<1>4. s \in Seq(Steps) /\ d \in Seq(Steps) /\ t \in Seq(Steps)
    BY <1>1, <1>2
<1>5. /\ Len(ReconnectOnce) = Len(s) + Len(d) + Len(t)
      /\ \A i \in 1 .. Len(s) : ReconnectOnce[i] = s[i]
      /\ \A i \in 1 .. Len(d) : ReconnectOnce[Len(s) + i] = d[i]
      /\ \A i \in 1 .. Len(t) : ReconnectOnce[Len(s) + Len(d) + i] = t[i]
    BY <1>3, <1>4, Assembled
<1>6. /\ \A i \in 1 .. 2 : ReconnectOnce[i] = s[i]
      /\ \A i \in 1 .. 3 : ReconnectOnce[2 + i] = d[i]
      /\ \A i \in 1 .. 11 : ReconnectOnce[5 + i] = t[i]
    BY <1>1, <1>2, <1>5
<1> QED
    BY <1>1, <1>2, <1>5, <1>6, PairSteps, MasterSteps DEF s, d

-----------------------------------------------------------------------------
(* Where the driver is.                                                    *)
Suites == {"persistence", "replication"}
Impls == {<<"redis-uya">>, <<"redis-uya", "redis">>}

Selected ==
    suite \in Suites /\ impls \in Impls /\ Len(impls) \in {1, 2} /\ job \in 1 .. 3 * Len(impls)

LEMMA SixCases ==
    ASSUME Selected
    PROVE  /\ Len(Cases) = 3
           /\ Impl \in {"redis-uya", "redis"} /\ (job = 1 => Impl = "redis-uya")
           /\ \/ /\ suite = "persistence"
                 /\ \/ Case.name = "save" /\ Case.script = SaveOnce
                    \/ Case.name = "restart_recovery_aof" /\ Case.script = RecoveryAofOnce
                    \/ Case.name = "restart_recovery_rdb_aof" /\ Case.script = RecoveryRdbAofOnce
              \/ /\ suite = "replication"
                 /\ \/ Case.name = "full_sync" /\ Case.script = FullSyncOnce
                    \/ Case.name = "incremental_sync" /\ Case.script = IncrementalSyncOnce
                    \/ Case.name = "reconnect_recovery" /\ Case.script = ReconnectOnce
<1>1. \A n \in 1 .. 3 : ((n - 1) \div 1) + 1 \in 1 .. 3 /\ ((n - 1) % 1) + 1 = 1
    OBVIOUS
<1>2. \A n \in 1 .. 6 : ((n - 1) \div 2) + 1 \in 1 .. 3 /\ ((n - 1) % 2) + 1 \in 1 .. 2
    OBVIOUS
<1>3. ((job - 1) \div Len(impls)) + 1 \in 1 .. 3
    BY <1>1, <1>2 DEF Selected
<1>4. Impl \in {"redis-uya", "redis"} /\ (job = 1 => Impl = "redis-uya")
  <2>1. CASE impls = <<"redis-uya">>
    <3>1. Len(impls) = 1 /\ impls[1] = "redis-uya"
        BY <2>1
    <3> QED
        BY <1>1, <3>1 DEF Selected, Impl
  <2>2. CASE impls = <<"redis-uya", "redis">>
    <3>1. Len(impls) = 2 /\ impls[1] = "redis-uya" /\ impls[2] = "redis"
        BY <2>2
    <3>2. ((1 - 1) % 2) + 1 = 1
        OBVIOUS
    <3> QED
        BY <1>2, <3>1, <3>2 DEF Selected, Impl
  <2> QED
      BY <2>1, <2>2 DEF Selected, Impls
<1>5. \A i \in 1 .. 3 :
         /\ \/ PersistenceCases[i].name = "save" /\ PersistenceCases[i].script = SaveOnce
            \/ /\ PersistenceCases[i].name = "restart_recovery_aof"
               /\ PersistenceCases[i].script = RecoveryAofOnce
            \/ /\ PersistenceCases[i].name = "restart_recovery_rdb_aof"
               /\ PersistenceCases[i].script = RecoveryRdbAofOnce
         /\ \/ ReplicationCases[i].name = "full_sync" /\ ReplicationCases[i].script = FullSyncOnce
            \/ /\ ReplicationCases[i].name = "incremental_sync"
               /\ ReplicationCases[i].script = IncrementalSyncOnce
            \/ /\ ReplicationCases[i].name = "reconnect_recovery"
               /\ ReplicationCases[i].script = ReconnectOnce
    BY DEF PersistenceCases, ReplicationCases
<1>6. Len(PersistenceCases) = 3 /\ Len(ReplicationCases) = 3
    BY DEF PersistenceCases, ReplicationCases
<1>7. Cases = IF suite = "persistence" THEN PersistenceCases ELSE ReplicationCases
    BY DEF Cases, CasesOf
<1>8. Case = Cases[((job - 1) \div Len(impls)) + 1]
    BY DEF Case
<1>9. suite = "persistence" \/ suite = "replication"
    BY DEF Selected, Suites
<1> QED
    BY <1>3, <1>4, <1>5, <1>6, <1>7, <1>8, <1>9

(* The type of the driver: where it is, and which job and step it is at.   *)
Places == {"idle", "job", "finally", "next"}

ControlInv ==
    /\ pc \in Places
    /\ proc \in [Roles -> {"none", "loading", "up"}]
    /\ pc # "idle" => Selected
    /\ pc = "job" => step \in 1 .. Len(Case.script)
    /\ pc = "finally" => step \in 1 .. 3
    /\ pc = "next" => step = 1
    /\ outcome # "none" => pc = "idle"

(* What the driver does at a step. *)
LEMMA Moves ==
    ASSUME pc = "job", DriverStep
    PROVE  \/ Raise /\ Step.do \notin {"clock", "stop", "sample"}
           \/ Step.do = "start" /\ Step.role = "server" /\ Step.how # "existing" /\ StartFresh
           \/ Step.do = "start" /\ (Step.role = "replica" \/ Step.how = "existing") /\ StartExisting
           \/ Step.do = "set" /\ SetKey
           \/ Step.do = "save" /\ SaveRdb
           \/ Step.do = "replicaof" /\ ReplicaOf
           \/ Step.do \in {"connected", "disconnected", "value", "check"} /\ Wait
           \/ Step.do = "stop" /\ StopMaster
           \/ Step.do = "clock" /\ ReadClock
           \/ Step.do = "sample" /\ TakeSample
<1>1. StartFresh => Step.do = "start" /\ Step.role = "server" /\ Step.how # "existing"
    BY DEF StartFresh, At
<1>2. StartExisting => Step.do = "start" /\ (Step.role = "replica" \/ Step.how = "existing")
    BY DEF StartExisting, At
<1>3. /\ SetKey => Step.do = "set"
      /\ SaveRdb => Step.do = "save"
      /\ ReplicaOf => Step.do = "replicaof"
      /\ StopMaster => Step.do = "stop"
      /\ ReadClock => Step.do = "clock"
      /\ TakeSample => Step.do = "sample"
    BY DEF SetKey, SaveRdb, ReplicaOf, StopMaster, ReadClock, TakeSample, At
<1>4. Wait => Step.do \in {"connected", "disconnected", "value", "check"}
    BY DEF Wait, WaitConnected, WaitDisconnected, WaitForValue, CheckRecovered, At
<1>5. Raise => Step.do \notin {"clock", "stop", "sample"}
    BY DEF Raise
<1>6. ~(\E r \in Roles : StopProcess(r)) /\ ~CleanUp /\ ~NextRound /\ ~NextJob
    BY DEF StopProcess, CleanUp, NextRound, NextJob
<1> QED
    BY <1>1, <1>2, <1>3, <1>4, <1>5, <1>6 DEF DriverStep

-----------------------------------------------------------------------------
(* Which servers run, by where the driver is.                              *)
LEMMA SameCase ==
    ASSUME UNCHANGED <<suite, impls, job>>
    PROVE  Case' = Case /\ Impl' = Impl /\ (Selected => Selected')
BY DEF Case, Cases, CasesOf, Impl, Selected

(* What the proofs about the driver need to know of every script.          *)
LEMMA Course ==
    ASSUME Selected
    PROVE  /\ Len(Case.script) \in Nat /\ Len(Case.script) > 2
           /\ \A n \in 1 .. Len(Case.script) :
                 /\ Case.script[n].do = "sample" <=> n = Len(Case.script)
                 /\ Case.script[n].do = "start" /\ Case.script[n].how # "existing" => n <= 2
                 /\ Case.script[n].do = "start" /\ Case.script[n].role = "server"
                       /\ Case.script[n].how # "existing" => n = 1
                 /\ Case.script[n].do = "start" /\ Case.script[n].role = "replica" =>
                       n = 2 /\ suite = "replication"
                 /\ Case.script[n].do = "start" => Case.script[n].role \in Roles
<1>1. CASE Case.script = SaveOnce
    BY <1>1, SaveSteps DEF Start, Set, Do, Check, Roles
<1>2. CASE Case.script = RecoveryAofOnce
    BY <1>2, RecoveryAofSteps DEF Start, Set, Do, Check, Roles
<1>3. CASE Case.script = RecoveryRdbAofOnce
    BY <1>3, RecoveryRdbAofSteps DEF Start, Set, Do, Check, Roles
<1>4. CASE suite = "replication" /\ Case.script = FullSyncOnce
    BY <1>4, FullSyncSteps DEF Start, Set, Do, WaitValue, Roles
<1>5. CASE suite = "replication" /\ Case.script = IncrementalSyncOnce
    BY <1>5, IncrementalSyncSteps DEF Start, Set, Do, WaitValue, Roles
<1>6. CASE suite = "replication" /\ Case.script = ReconnectOnce
    BY <1>6, ReconnectSteps DEF Start, Set, Do, WaitValue, Roles
<1> QED
    BY <1>1, <1>2, <1>3, <1>4, <1>5, <1>6, SixCases

LEMMA Chosen ==
    Selected => /\ Len(Case.script) \in Nat /\ Len(Case.script) > 2
                /\ job = 1 => Impl = "redis-uya"
BY Course, SixCases

LEMMA ChosenNext ==
    Selected' => /\ Len(Case'.script) \in Nat /\ Len(Case'.script) > 2
                 /\ job' = 1 => Impl' = "redis-uya"
<1>1. (Selected => /\ Len(Case.script) \in Nat /\ Len(Case.script) > 2
                   /\ job = 1 => Impl = "redis-uya")'
    BY Chosen, PTL
<1> QED
    BY <1>1

(* No replica is there before its step, nor in the persistence benchmark;  *)
(* the steps of `finally' stop what runs one by one, and a round ends with *)
(* no server, no log and, where a snapshot is taken, no snapshot.          *)
RunningInv ==
    /\ pc = "job" /\ step <= 2 => proc["replica"] = "none"
    /\ pc # "idle" /\ suite = "persistence" => proc["replica"] = "none"
    /\ pc = "finally" /\ step >= 2 => proc["server"] = "none"
    /\ pc = "finally" /\ step = 3 => proc["replica"] = "none"
    /\ pc = "next" => proc["server"] = "none" /\ proc["replica"] = "none" /\ log = <<>>
    /\ pc = "next" /\ suite = "persistence" => rdb = Absent
    /\ pc \in {"job", "finally"} /\ suite = "persistence" /\ Impl = "redis" => rdb = Absent

DriverInv == ControlInv /\ RunningInv /\ NothingLeftBehind

LEMMA DriverInit == Init => DriverInv
BY DEF Init, DriverInv, ControlInv, RunningInv, NothingLeftBehind, Places, Roles

LEMMA DriverAtJob ==
    ASSUME DriverInv, pc = "job", DriverStep
    PROVE  DriverInv'
<1> DEFINE l == Len(Case.script)
<1>1. /\ Selected /\ step \in 1 .. l /\ outcome = "none"
      /\ proc \in [Roles -> {"none", "loading", "up"}]
      /\ step <= 2 => proc["replica"] = "none"
      /\ suite = "persistence" => proc["replica"] = "none"
      /\ suite = "persistence" /\ Impl = "redis" => rdb = Absent
    BY DEF DriverInv, ControlInv, RunningInv, Places
<1>2. /\ l \in Nat /\ l > 2
      /\ Step.do = "sample" <=> step = l
      /\ Step.do = "start" /\ Step.how # "existing" => step <= 2
      /\ Step.do = "start" /\ Step.role = "server" /\ Step.how # "existing" => step = 1
      /\ Step.do = "start" /\ Step.role = "replica" => step = 2 /\ suite = "replication"
      /\ Step.do = "start" => Step.role \in Roles
    BY <1>1, Course DEF Step
<1> HIDE DEF l
<1>3. UNCHANGED <<suite, impls, job>> => Case' = Case /\ Impl' = Impl /\ Selected'
    BY <1>1, SameCase
<1>4. CASE Step.do # "sample" /\ Advance /\ proc' = proc
           /\ (suite = "persistence" /\ Impl = "redis" => rdb' = Absent)
  <2>1. UNCHANGED <<suite, impls, job>> /\ pc' = "job" /\ outcome' = "none" /\ step' = step + 1
      BY <1>1, <1>4 DEF Advance
  <2>2. ControlInv'
      BY <1>1, <1>2, <1>3, <1>4, <2>1 DEF ControlInv, Places, l
  <2>3. step' <= 2 => step <= 2
      BY <1>1, <1>2, <2>1
  <2>4. RunningInv'
      BY <1>1, <1>2, <1>3, <1>4, <2>1, <2>3 DEF RunningInv
  <2> QED
      BY <2>1, <2>2, <2>4 DEF DriverInv, NothingLeftBehind
<1>5. Raise /\ Step.do \notin {"clock", "stop", "sample"} => DriverInv'
  <2> SUFFICES ASSUME Raise PROVE DriverInv'
      OBVIOUS
  <2>1. UNCHANGED <<suite, impls, job>> /\ UNCHANGED <<proc, log, rdb>>
      BY DEF Raise, servers
  <2>2. CASE Step.do = "start" /\ Step.how # "existing"
    <3>1. pc' = "idle" /\ outcome' = "not started" /\ proc["replica"] = "none"
        BY <1>1, <1>2, <2>2 DEF Raise
    <3> QED
        BY <1>1, <2>1, <3>1 DEF DriverInv, ControlInv, RunningInv, NothingLeftBehind, Places
  <2>3. CASE ~(Step.do = "start" /\ Step.how # "existing")
    <3>1. pc' = "finally" /\ step' = 1 /\ outcome' = "none"
        BY <1>1, <2>3 DEF Raise
    <3> QED
        BY <1>1, <1>3, <2>1, <3>1 DEF DriverInv, ControlInv, RunningInv, NothingLeftBehind, Places
  <2> QED
      BY <2>2, <2>3
<1>6. ASSUME Step.do = "start", Step.role = "server", Step.how # "existing", StartFresh
      PROVE  DriverInv'
  <2>1. UNCHANGED <<suite, impls, job>> /\ pc' = "job" /\ outcome' = "none" /\ step' = step + 1
      BY <1>1, <1>6 DEF StartFresh, Advance, At
  <2>2. proc' = [proc EXCEPT !["server"] = "loading"]
      BY <1>6 DEF StartFresh
  <2>3. step = 1 /\ proc["replica"] = "none"
      BY <1>1, <1>2, <1>6
  <2>4. ControlInv'
      BY <1>1, <1>2, <1>3, <2>1, <2>2, <2>3 DEF ControlInv, Places, Roles, l
  <2>5. rdb = Absent => rdb' = Absent
      BY <1>6 DEF StartFresh, ForeignData
  <2>6. RunningInv'
      BY <1>1, <1>3, <2>1, <2>2, <2>3, <2>5 DEF RunningInv, Roles
  <2> QED
      BY <2>1, <2>4, <2>6 DEF DriverInv, NothingLeftBehind
<1>7. ASSUME Step.do = "start", Step.role = "replica" \/ Step.how = "existing", StartExisting
      PROVE  DriverInv'
  <2>1. UNCHANGED <<suite, impls, job>> /\ pc' = "job" /\ outcome' = "none" /\ step' = step + 1
      BY <1>1, <1>7 DEF StartExisting, Advance, At
  <2>2. proc' = [proc EXCEPT ![Step.role] = "loading"] /\ rdb' = rdb /\ Step.role \in Roles
      BY <1>2, <1>7 DEF StartExisting
  <2>3. step # l
      BY <1>2, <1>7
  <2>4. ControlInv'
      BY <1>1, <1>2, <1>3, <2>1, <2>2, <2>3 DEF ControlInv, Places, l
  <2>5. /\ step' <= 2 => proc'["replica"] = "none"
        /\ suite = "persistence" => proc'["replica"] = "none"
    <3>1. CASE Step.role = "replica"
        BY <1>1, <1>2, <1>7, <2>1, <3>1
    <3>2. CASE Step.role = "server"
        BY <1>1, <2>1, <2>2, <3>2 DEF Roles
    <3> QED
        BY <2>2, <3>1, <3>2 DEF Roles
  <2>6. RunningInv'
      BY <1>1, <1>3, <2>1, <2>2, <2>5 DEF RunningInv
  <2> QED
      BY <2>1, <2>4, <2>6 DEF DriverInv, NothingLeftBehind
<1>8. SetKey \/ ReplicaOf \/ Wait \/ ReadClock => Advance /\ proc' = proc /\ rdb' = rdb
    BY DEF SetKey, ReplicaOf, Wait, ReadClock, servers
<1>9. SaveRdb => Advance /\ proc' = proc /\ (Impl = "redis" => rdb' = rdb)
    BY DEF SaveRdb
<1>10. ASSUME Step.do = "stop", StopMaster
       PROVE  DriverInv'
  <2>1. UNCHANGED <<suite, impls, job>> /\ pc' = "job" /\ outcome' = "none" /\ step' = step + 1
      BY <1>1, <1>10 DEF StopMaster, Advance, At
  <2>2. proc' = [proc EXCEPT !["server"] = "none"] /\ rdb' = rdb
      BY <1>10 DEF StopMaster
  <2>3. step # l /\ proc'["replica"] = proc["replica"] /\ (step' <= 2 => step <= 2)
      BY <1>1, <1>2, <1>10, <2>1, <2>2 DEF Roles
  <2>4. ControlInv'
      BY <1>1, <1>2, <1>3, <2>1, <2>2, <2>3 DEF ControlInv, Places, Roles, l
  <2>5. RunningInv'
      BY <1>1, <1>3, <2>1, <2>2, <2>3 DEF RunningInv
  <2> QED
      BY <2>1, <2>4, <2>5 DEF DriverInv, NothingLeftBehind
<1>11. ASSUME TakeSample
       PROVE  DriverInv'
  <2>1. /\ UNCHANGED <<suite, impls, job>> /\ UNCHANGED <<proc, log, rdb>>
        /\ pc' = "finally" /\ step' = 1 /\ outcome' = "none"
      BY <1>1, <1>11 DEF TakeSample, servers
  <2> QED
      BY <1>1, <1>3, <2>1 DEF DriverInv, ControlInv, RunningInv, NothingLeftBehind, Places
<1> QED
    BY <1>1, <1>4, <1>5, <1>6, <1>7, <1>8, <1>9, <1>10, <1>11, Moves

LEMMA DriverElsewhere ==
    ASSUME DriverInv, pc # "job", DriverStep
    PROVE  DriverInv'
<1>1. /\ pc # "idle" => Selected
      /\ outcome # "none" => pc = "idle"
      /\ pc = "finally" => step \in 1 .. 3
      /\ pc = "next" => step = 1
      /\ proc \in [Roles -> {"none", "loading", "up"}]
    BY DEF DriverInv, ControlInv
<1>2. UNCHANGED <<suite, impls, job>> => Case' = Case /\ Impl' = Impl /\ (Selected => Selected')
    BY SameCase
<1>3. ASSUME NEW r \in Roles, StopProcess(r)
      PROVE  DriverInv'
  <2>1. /\ pc = "finally" /\ pc' = "finally" /\ UNCHANGED <<suite, impls, job, outcome, log, rdb>>
        /\ step = (IF r = "server" THEN 1 ELSE 2) /\ step' = step + 1
        /\ proc' = [proc EXCEPT ![r] = "none"]
      BY <1>3 DEF StopProcess, Advance
  <2>2. ControlInv'
      BY <1>1, <1>2, <2>1 DEF ControlInv, Places
  <2>3. RunningInv'
    <3>1. CASE r = "server"
        BY <1>1, <1>2, <2>1, <3>1 DEF DriverInv, RunningInv, Roles
    <3>2. CASE r = "replica"
        BY <1>1, <1>2, <2>1, <3>2 DEF DriverInv, RunningInv, Roles
    <3> QED
        BY <3>1, <3>2 DEF Roles
  <2> QED
      BY <1>1, <2>1, <2>2, <2>3 DEF DriverInv, NothingLeftBehind
<1>4. ASSUME CleanUp
      PROVE  DriverInv'
  <2>1. /\ pc = "finally" /\ step = 3 /\ step' = 1 /\ UNCHANGED <<suite, impls, job, proc>>
        /\ log' = <<>> /\ rdb' = IF CleanupRemovesRdb THEN Absent ELSE rdb
        /\ \/ pc' = "idle" /\ outcome' = "failed"
           \/ pc' = "next" /\ outcome' = outcome
      BY <1>4 DEF CleanUp, Cleanup
  <2>2. /\ Selected /\ outcome = "none"
        /\ proc["server"] = "none" /\ proc["replica"] = "none"
        /\ suite = "persistence" /\ Impl = "redis" => rdb = Absent
      BY <1>1, <2>1 DEF DriverInv, RunningInv
  <2>3. suite = "persistence" => rdb' = Absent
      BY <2>1, <2>2, SixCases DEF CleanupRemovesRdb
  <2>4. proc = [r \in Roles |-> "none"]
      BY <1>1, <2>2 DEF Roles
  <2> QED
      BY <1>1, <1>2, <2>1, <2>2, <2>3, <2>4
         DEF DriverInv, ControlInv, RunningInv, NothingLeftBehind, Places
<1>5. ASSUME NextRound
      PROVE  DriverInv'
  <2>1. /\ pc = "next" /\ pc' = "job" /\ step' = step
        /\ UNCHANGED <<suite, impls, job, proc, outcome, log, rdb>>
      BY <1>5 DEF NextRound, servers
  <2>2. /\ Selected /\ outcome = "none"
        /\ proc["server"] = "none" /\ proc["replica"] = "none"
        /\ suite = "persistence" => rdb = Absent
      BY <1>1, <2>1 DEF DriverInv, RunningInv
  <2>3. Len(Case.script) \in Nat /\ Len(Case.script) > 2
      BY <2>2, Course
  <2> QED
      BY <1>1, <1>2, <2>1, <2>2, <2>3
         DEF DriverInv, ControlInv, RunningInv, NothingLeftBehind, Places
<1>6. ASSUME NextJob
      PROVE  DriverInv'
  <2>1. /\ pc = "next" /\ step' = step
        /\ UNCHANGED <<suite, impls, proc, log, rdb>>
        /\ \/ /\ job < Len(Cases) * Len(impls) /\ pc' = "job" /\ job' = job + 1
              /\ outcome' = outcome
           \/ pc' = "idle" /\ outcome' = "passed"
      BY <1>6 DEF NextJob, servers
  <2>2. /\ Selected /\ outcome = "none" /\ step = 1
        /\ proc["server"] = "none" /\ proc["replica"] = "none" /\ log = <<>>
        /\ suite = "persistence" => rdb = Absent
      BY <1>1, <2>1 DEF DriverInv, RunningInv
  <2>3. proc = [r \in Roles |-> "none"]
      BY <1>1, <2>2 DEF Roles
  <2>4. CASE pc' = "idle" /\ outcome' = "passed"
      BY <1>1, <2>1, <2>2, <2>3, <2>4
         DEF DriverInv, ControlInv, RunningInv, NothingLeftBehind, Places
  <2>5. CASE /\ job < Len(Cases) * Len(impls) /\ pc' = "job" /\ job' = job + 1
             /\ outcome' = outcome
    <3>1. Len(Cases) = 3
        BY <2>2, SixCases
    <3>2. Selected'
        BY <2>1, <2>2, <2>5, <3>1 DEF Selected
    <3>3. Len(Case'.script) \in Nat /\ Len(Case'.script) > 2
        BY <3>2, ChosenNext
    <3> QED
        BY <1>1, <2>1, <2>2, <2>5, <3>2, <3>3
           DEF DriverInv, ControlInv, RunningInv, NothingLeftBehind, Places
  <2> QED
      BY <2>1, <2>4, <2>5
<1>7. ~(StartFresh \/ StartExisting \/ SetKey \/ SaveRdb \/ ReplicaOf \/ Wait
        \/ StopMaster \/ ReadClock \/ TakeSample \/ Raise)
    BY DEF StartFresh, StartExisting, SetKey, SaveRdb, ReplicaOf, Wait, WaitConnected,
           WaitDisconnected, WaitForValue, CheckRecovered, StopMaster, ReadClock, TakeSample,
           Raise, At
<1> QED
    BY <1>3, <1>4, <1>5, <1>6, <1>7 DEF DriverStep

LEMMA DriverAside ==
    ASSUME DriverInv, ServerStep \/ Killed \/ UNCHANGED vars
    PROVE  DriverInv'
<1>1. /\ pc # "idle" => Selected
      /\ outcome # "none" => pc = "idle"
      /\ proc \in [Roles -> {"none", "loading", "up"}]
    BY DEF DriverInv, ControlInv
<1>2. ASSUME NEW r \in Roles, Load(r)
      PROVE  DriverInv'
  <2>1. UNCHANGED <<pc, suite, impls, job, step, outcome, log, rdb>>
      BY <1>2 DEF Load, driver
  <2>2. /\ Case' = Case /\ Impl' = Impl /\ (Selected => Selected')
      BY <2>1, SameCase
  <2>3. proc[r] = "loading" /\ proc' = [proc EXCEPT ![r] = "up"]
      BY <1>2 DEF Load
  <2>4. /\ proc' \in [Roles -> {"none", "loading", "up"}]
        /\ \A q \in Roles : proc[q] = "none" => proc'[q] = "none"
        /\ proc # [q \in Roles |-> "none"]
      BY <1>1, <2>3
  <2>5. "server" \in Roles /\ "replica" \in Roles
      BY DEF Roles
  <2>6. ControlInv'
      BY <2>1, <2>2, <2>4 DEF DriverInv, ControlInv
  <2>7. RunningInv'
      BY <2>1, <2>2, <2>4, <2>5 DEF DriverInv, RunningInv
  <2> QED
      BY <2>1, <2>4, <2>5, <2>6, <2>7 DEF DriverInv, NothingLeftBehind
<1>3. ASSUME Flush
      PROVE  DriverInv'
  <2>1. UNCHANGED <<pc, suite, impls, job, step, outcome, proc, rdb>> /\ proc["server"] = "up"
      BY <1>3 DEF Flush, driver
  <2>2. /\ Case' = Case /\ Impl' = Impl /\ (Selected => Selected')
      BY <2>1, SameCase
  <2>3. proc # [q \in Roles |-> "none"] /\ pc # "next"
      BY <2>1 DEF DriverInv, RunningInv, Roles
  <2>4. ControlInv'
      BY <2>1, <2>2 DEF DriverInv, ControlInv
  <2>5. RunningInv'
      BY <2>1, <2>2, <2>3 DEF DriverInv, RunningInv
  <2> QED
      BY <2>1, <2>3, <2>4, <2>5 DEF DriverInv, NothingLeftBehind
<1>4. ASSUME UNCHANGED <<pc, suite, impls, job, step, outcome, proc, rdb, log>>
      PROVE  DriverInv'
  <2>1. /\ Case' = Case /\ Impl' = Impl /\ (Selected => Selected')
      BY <1>4, SameCase
  <2> QED
      BY <1>4, <2>1 DEF DriverInv, ControlInv, RunningInv, NothingLeftBehind
<1>5. LinkUp \/ Poll \/ PollFails \/ LinkLost \/ UNCHANGED vars
      => UNCHANGED <<pc, suite, impls, job, step, outcome, proc, rdb, log>>
    BY DEF LinkUp, Poll, PollFails, LinkLost, vars, driver, servers
<1>6. ASSUME Killed
      PROVE  DriverInv'
  <2>1. pc' = "idle" /\ outcome' = "killed" /\ proc' = proc
      BY <1>6 DEF Killed
  <2> QED
      BY <1>1, <2>1 DEF DriverInv, ControlInv, RunningInv, NothingLeftBehind, Places
<1> QED
    BY <1>2, <1>3, <1>4, <1>5, <1>6 DEF ServerStep

LEMMA DriverMain ==
    ASSUME DriverInv, NEW s \in Suites, NEW i \in Impls, Main(s, i)
    PROVE  DriverInv'
<1>1. /\ pc' = "job" /\ suite' = s /\ impls' = i /\ job' = 1 /\ step' = 1 /\ outcome' = "none"
      /\ proc' = [r \in Roles |-> "none"]
    BY DEF Main
<1>2. Len(i) \in {1, 2}
    BY DEF Impls
<1>3. Selected'
    BY <1>1, <1>2 DEF Selected
<1>4. Len(Case'.script) \in Nat /\ Len(Case'.script) > 2
    BY <1>3, ChosenNext
<1>5. Impl' = "redis-uya"
    BY <1>1, <1>3, ChosenNext
<1>6. ControlInv'
    BY <1>1, <1>3, <1>4 DEF ControlInv, Places, Roles
<1>7. RunningInv'
    BY <1>1, <1>5 DEF RunningInv, Roles
<1> QED
    BY <1>1, <1>6, <1>7 DEF DriverInv, NothingLeftBehind

LEMMA DriverNext == DriverInv /\ [Next]_vars => DriverInv'
BY DriverAtJob, DriverElsewhere, DriverAside, DriverMain DEF Next, Suites, Impls

(* A driver that ends by itself leaves no server and no file of redis-uya, *)
(* wherever it failed.                                                     *)
THEOREM NothingIsLeftBehind == Spec => []NothingLeftBehind
<1>1. DriverInv => NothingLeftBehind
    BY DEF DriverInv
<1> QED
    BY DriverInit, DriverNext, <1>1, PTL DEF Spec

-----------------------------------------------------------------------------
(* The report.                                                             *)
(* The row of job k when suite s measures the implementations i.           *)
Row(s, i, k) ==
    [case |-> CasesOf(s)[((k - 1) \div Len(i)) + 1].name, impl |-> i[((k - 1) % Len(i)) + 1],
     samples |-> Rounds]
Rows(rows, s, i, n) ==
    /\ rows \in Seq({Row(s, i, k) : k \in 1 .. n}) /\ Len(rows) = n
    /\ \A k \in 1 .. n : rows[k] = Row(s, i, k)

(* The lines so far are those of the jobs done, and every report written is*)
(* that of a whole run.                                                    *)
ReportInv ==
    /\ DOMAIN report = Suites
    /\ pc # "idle" => Rows(lines, suite, impls, job - 1)
    /\ \A s \in Suites : report[s] # Absent =>
          \E i \in Impls : Rows(report[s], s, i, 3 * Len(i))

LEMMA ImplsAre ==
    /\ <<"redis-uya">> \in Impls /\ Len(<<"redis-uya">>) = 1 /\ <<"redis-uya">>[1] = "redis-uya"
    /\ <<"redis-uya", "redis">> \in Impls /\ Len(<<"redis-uya", "redis">>) = 2
    /\ <<"redis-uya", "redis">>[1] = "redis-uya" /\ <<"redis-uya", "redis">>[2] = "redis"
    /\ \A i \in Impls : i = <<"redis-uya">> \/ i = <<"redis-uya", "redis">>
BY DEF Impls

LEMMA ThreeCases ==
    ASSUME NEW s \in Suites
    PROVE  Len(CasesOf(s)) = 3 /\ DOMAIN CasesOf(s) = 1 .. 3
BY DEF Suites, CasesOf, PersistenceCases, ReplicationCases

LEMMA FullReport ==
    ASSUME NEW s \in Suites, NEW i \in Impls, NEW rows, Rows(rows, s, i, 3 * Len(i))
    PROVE  /\ \A k \in DOMAIN rows : rows[k].samples = Rounds
           /\ OneRowPerCase(rows, "redis-uya", CasesOf(s))
           /\ RowsOf(rows, "redis") # {} => OneRowPerCase(rows, "redis", CasesOf(s))
<1>1. Len(i) \in {1, 2}
    BY ImplsAre
<1>2. DOMAIN rows = 1 .. 3 * Len(i)
    BY <1>1 DEF Rows
<1>3. \A k \in DOMAIN rows :
         /\ rows[k].samples = Rounds
         /\ rows[k].case = CasesOf(s)[((k - 1) \div Len(i)) + 1].name
         /\ rows[k].impl = i[((k - 1) % Len(i)) + 1]
  <2>1. \A k \in DOMAIN rows : rows[k] = Row(s, i, k)
      BY <1>2 DEF Rows
  <2>2. \A k : /\ Row(s, i, k).samples = Rounds
               /\ Row(s, i, k).case = CasesOf(s)[((k - 1) \div Len(i)) + 1].name
               /\ Row(s, i, k).impl = i[((k - 1) % Len(i)) + 1]
      BY DEF Row
  <2> QED
      BY <2>1, <2>2
<1>4. DOMAIN CasesOf(s) = 1 .. 3
    BY ThreeCases
<1>5. CASE i = <<"redis-uya">>
  <2>1. Len(i) = 1 /\ i[1] = "redis-uya"
      BY <1>5, ImplsAre
  <2>2. \A k \in 1 .. 3 : ((k - 1) \div 1) + 1 = k /\ ((k - 1) % 1) + 1 = 1
      OBVIOUS
  <2>3. \A k \in 1 .. 3 : rows[k].case = CasesOf(s)[k].name /\ rows[k].impl = "redis-uya"
      BY <1>2, <1>3, <2>1, <2>2
  <2>4. RowsOf(rows, "redis-uya") = 1 .. 3 /\ RowsOf(rows, "redis") = {}
      BY <1>2, <2>1, <2>3 DEF RowsOf
  <2> DEFINE at == [c \in 1 .. 3 |-> c]
  <2>5. /\ at \in [1 .. 3 -> DOMAIN rows]
        /\ \A c, d \in 1 .. 3 : c < d => at[c] < at[d]
        /\ RowsOf(rows, "redis-uya") = {at[c] : c \in 1 .. 3}
        /\ \A c \in 1 .. 3 : rows[at[c]].case = CasesOf(s)[c].name
      BY <1>2, <2>1, <2>3, <2>4
  <2>6. OneRowPerCase(rows, "redis-uya", CasesOf(s))
      BY <1>4, <2>5 DEF OneRowPerCase
  <2> QED
      BY <1>3, <2>4, <2>6
<1>6. CASE i = <<"redis-uya", "redis">>
  <2>1. Len(i) = 2 /\ i[1] = "redis-uya" /\ i[2] = "redis"
      BY <1>6, ImplsAre
  <2>2. \A c \in 1 .. 3 :
           /\ ((2 * c - 1 - 1) \div 2) + 1 = c /\ ((2 * c - 1 - 1) % 2) + 1 = 1
           /\ ((2 * c - 1) \div 2) + 1 = c /\ ((2 * c - 1) % 2) + 1 = 2
      OBVIOUS
  <2>3. \A c \in 1 .. 3 :
           /\ rows[2 * c - 1].case = CasesOf(s)[c].name /\ rows[2 * c - 1].impl = "redis-uya"
           /\ rows[2 * c].case = CasesOf(s)[c].name /\ rows[2 * c].impl = "redis"
    <3> TAKE c \in 1 .. 3
    <3>1. 2 * c - 1 \in DOMAIN rows /\ 2 * c \in DOMAIN rows
        BY <1>2, <2>1
    <3>2. rows[2 * c - 1].case = CasesOf(s)[c].name /\ rows[2 * c - 1].impl = "redis-uya"
      <4>1. /\ rows[2 * c - 1].case = CasesOf(s)[((2 * c - 1 - 1) \div 2) + 1].name
            /\ rows[2 * c - 1].impl = i[((2 * c - 1 - 1) % 2) + 1]
          BY <1>3, <2>1, <3>1
      <4> QED
          BY <2>1, <2>2, <4>1
    <3>3. rows[2 * c].case = CasesOf(s)[c].name /\ rows[2 * c].impl = "redis"
      <4>1. /\ rows[2 * c].case = CasesOf(s)[((2 * c - 1) \div 2) + 1].name
            /\ rows[2 * c].impl = i[((2 * c - 1) % 2) + 1]
          BY <1>3, <2>1, <3>1
      <4> QED
          BY <2>1, <2>2, <4>1
    <3> QED
        BY <3>2, <3>3
  <2>4. \A k \in 1 .. 6 : \E c \in 1 .. 3 : k = 2 * c - 1 \/ k = 2 * c
    <3>1. \A k \in 1 .. 6 : k = 2 * 1 - 1 \/ k = 2 * 1 \/ k = 2 * 2 - 1 \/ k = 2 * 2
                            \/ k = 2 * 3 - 1 \/ k = 2 * 3
        OBVIOUS
    <3> QED
        BY <3>1
  <2>5. DOMAIN rows = 1 .. 6
      BY <1>2, <2>1
  <2>6. /\ RowsOf(rows, "redis-uya") = {2 * c - 1 : c \in 1 .. 3}
        /\ RowsOf(rows, "redis") = {2 * c : c \in 1 .. 3}
    <3>1. \A k \in 1 .. 6 : rows[k].impl = "redis-uya" <=> \E c \in 1 .. 3 : k = 2 * c - 1
        BY <2>3, <2>4
    <3>2. \A k \in 1 .. 6 : rows[k].impl = "redis" <=> \E c \in 1 .. 3 : k = 2 * c
        BY <2>3, <2>4
    <3> QED
        BY <2>5, <3>1, <3>2 DEF RowsOf
  <2> DEFINE odd == [c \in 1 .. 3 |-> 2 * c - 1]
             even == [c \in 1 .. 3 |-> 2 * c]
  <2>7. /\ odd \in [1 .. 3 -> DOMAIN rows]
        /\ \A c, d \in 1 .. 3 : c < d => odd[c] < odd[d]
        /\ RowsOf(rows, "redis-uya") = {odd[c] : c \in 1 .. 3}
        /\ \A c \in 1 .. 3 : rows[odd[c]].case = CasesOf(s)[c].name
      BY <2>3, <2>5, <2>6
  <2>8. /\ even \in [1 .. 3 -> DOMAIN rows]
        /\ \A c, d \in 1 .. 3 : c < d => even[c] < even[d]
        /\ RowsOf(rows, "redis") = {even[c] : c \in 1 .. 3}
        /\ \A c \in 1 .. 3 : rows[even[c]].case = CasesOf(s)[c].name
      BY <2>3, <2>5, <2>6
  <2>9. OneRowPerCase(rows, "redis-uya", CasesOf(s)) /\ OneRowPerCase(rows, "redis", CasesOf(s))
      BY <1>4, <2>7, <2>8 DEF OneRowPerCase
  <2> QED
      BY <1>3, <2>9
<1> QED
    BY <1>5, <1>6, ImplsAre

LEMMA ReportInit == Init => ReportInv
BY DEF Init, ReportInv, Suites

LEMMA AddedRow ==
    ASSUME NEW s \in Suites, NEW i \in Impls, NEW n \in Nat, NEW rows, Rows(rows, s, i, n),
           NEW row, row = Row(s, i, n + 1)
    PROVE  Rows(Append(rows, row), s, i, n + 1)
<1> DEFINE S == {Row(s, i, k) : k \in 1 .. n + 1}
<1>1. rows \in Seq(S) /\ row \in S
  <2>1. {Row(s, i, k) : k \in 1 .. n} \subseteq S /\ row \in S
      OBVIOUS
  <2>2. /\ rows \in Seq({Row(s, i, k) : k \in 1 .. n}) /\ Len(rows) = n
        /\ \A k \in 1 .. n : rows[k] = Row(s, i, k)
      BY DEF Rows
  <2>3. \A k \in 1 .. n : rows[k] \in S
      BY <2>2
  <2> HIDE DEF S
  <2> QED
      BY <2>1, <2>2, <2>3, ElementOfSeq, SeqDef
<1>2. Len(rows) = n /\ \A k \in 1 .. n : rows[k] = Row(s, i, k)
    BY DEF Rows
<1> HIDE DEF S
<1>3. /\ Append(rows, row) \in Seq(S) /\ Len(Append(rows, row)) = n + 1
      /\ \A k \in 1 .. n : Append(rows, row)[k] = rows[k]
      /\ Append(rows, row)[n + 1] = row
    BY <1>1, <1>2
<1>4. \A k \in 1 .. n + 1 : k \in 1 .. n \/ k = n + 1
    OBVIOUS
<1>5. \A k \in 1 .. n + 1 : Append(rows, row)[k] = Row(s, i, k)
    BY <1>2, <1>3, <1>4
<1> QED
    BY <1>3, <1>5 DEF Rows, S

LEMMA ReportNext == DriverInv /\ ReportInv /\ [Next]_vars => ReportInv'
<1> SUFFICES ASSUME DriverInv, ReportInv, [Next]_vars
             PROVE  ReportInv'
    OBVIOUS
<1>1. ASSUME UNCHANGED <<suite, impls, job, lines, report>>, pc' # "idle" => pc # "idle"
      PROVE  ReportInv'
    BY <1>1 DEF ReportInv
<1>2. ASSUME NEW s \in Suites, NEW i \in Impls, Main(s, i)
      PROVE  ReportInv'
  <2>1. suite' = s /\ impls' = i /\ job' = 1 /\ lines' = <<>> /\ report' = report
      BY <1>2 DEF Main
  <2>2. Rows(<<>>, s, i, 0)
      BY DEF Rows
  <2>3. Rows(lines', suite', impls', job' - 1)
      BY <2>1, <2>2
  <2> QED
      BY <2>1, <2>3 DEF ReportInv
<1>3. ASSUME NextJob
      PROVE  ReportInv'
  <2>1. /\ pc = "next" /\ samples = Rounds /\ lines' = Append(lines, ResultLine)
        /\ UNCHANGED <<suite, impls>>
        /\ \/ job < Len(Cases) * Len(impls) /\ job' = job + 1 /\ report' = report
           \/ /\ ~(job < Len(Cases) * Len(impls)) /\ pc' = "idle"
              /\ report' = [report EXCEPT ![suite] = lines']
      BY <1>3 DEF NextJob
  <2>2. Selected /\ Rows(lines, suite, impls, job - 1)
      BY <2>1 DEF DriverInv, ControlInv, ReportInv
  <2>3. suite \in Suites /\ impls \in Impls /\ job - 1 \in Nat /\ (job - 1) + 1 = job
      BY <2>2 DEF Selected
  <2>4. ResultLine = Row(suite, impls, job)
      BY <2>1 DEF ResultLine, Row, Case, Impl, Cases
  <2>5. Rows(lines', suite, impls, job)
      BY <2>1, <2>2, <2>3, <2>4, AddedRow
  <2>6. CASE job < Len(Cases) * Len(impls) /\ job' = job + 1 /\ report' = report
    <3>1. job' - 1 = job
        BY <2>3, <2>6
    <3> QED
        BY <2>1, <2>5, <2>6, <3>1 DEF ReportInv
  <2>7. CASE /\ ~(job < Len(Cases) * Len(impls)) /\ pc' = "idle"
             /\ report' = [report EXCEPT ![suite] = lines']
    <3>1. job = 3 * Len(impls)
      <4>1. Len(Cases) = 3 /\ Len(impls) \in {1, 2} /\ job \in 1 .. 3 * Len(impls)
          BY <2>2, <2>3, ThreeCases DEF Selected, Cases
      <4> QED
          BY <2>7, <4>1
    <3>2. \A s \in Suites : report'[s] = IF s = suite THEN lines' ELSE report[s]
        BY <2>3, <2>7 DEF ReportInv
    <3>3. DOMAIN report' = Suites
        BY <2>7 DEF ReportInv
    <3> QED
        BY <2>3, <2>5, <2>7, <3>1, <3>2, <3>3 DEF ReportInv
  <2> QED
      BY <2>1, <2>6, <2>7
<1>4. ASSUME StartFresh \/ StartExisting \/ SetKey \/ SaveRdb \/ ReplicaOf \/ Wait
             \/ StopMaster \/ ReadClock
      PROVE  UNCHANGED <<pc, suite, impls, job, lines, report>>
    BY <1>4 DEF StartFresh, StartExisting, SetKey, SaveRdb, ReplicaOf, Wait, StopMaster,
                ReadClock, Advance
<1>5. ASSUME TakeSample \/ Raise \/ (\E r \in Roles : StopProcess(r)) \/ CleanUp \/ NextRound
      PROVE  UNCHANGED <<suite, impls, job, lines, report>> /\ (pc' # "idle" => pc # "idle")
    BY <1>5 DEF TakeSample, Raise, StopProcess, CleanUp, NextRound, Advance, At
<1>6. ASSUME ServerStep \/ UNCHANGED vars
      PROVE  UNCHANGED <<pc, suite, impls, job, lines, report>>
    BY <1>6 DEF ServerStep, Load, Flush, LinkUp, Poll, PollFails, LinkLost, vars, driver
<1>7. ASSUME Killed
      PROVE  UNCHANGED <<suite, impls, job, lines, report>> /\ pc' = "idle"
    BY <1>7 DEF Killed
<1> QED
    BY <1>1, <1>2, <1>3, <1>4, <1>5, <1>6, <1>7 DEF Next, DriverStep, Suites, Impls

(* Every report that is written is the report of a whole run: a row for    *)
(* every case and implementation, of as many samples as it says.           *)
THEOREM ReportsAreComplete == Spec => []ReportIsComplete
<1>1. ReportInv => ReportIsComplete
    BY FullReport DEF ReportInv, ReportIsComplete
<1> QED
    BY DriverInit, DriverNext, ReportInit, ReportNext, <1>1, PTL DEF Spec

-----------------------------------------------------------------------------
(* Induction over data.  The library's induction theorems take an operator *)
(* as a parameter; that the natural numbers are well-founded does not, and *)
(* gives a least counterexample.                                           *)
LEMMA LeastElement ==
    ASSUME NEW T, T \subseteq Nat, T # {}
    PROVE  \E n \in T : \A m \in T : ~(m < n)
<1> DEFINE R == OpToRel(<, Nat)
<1>1. IsWellFoundedOn(R, Nat)
    BY NatLessThanWellFounded
<1> HIDE DEF R
<1>2. \E n \in T : \A m \in T : ~(<<m, n>> \in R)
    BY <1>1, WFMin
<1>3. \A n, m \in Nat : m < n => <<m, n>> \in R
    BY DEF R, OpToRel
<1> QED
    BY <1>2, <1>3

(* A set that holds 0 and with each number the next holds them all.        *)
LEMMA NumbersUpTo ==
    ASSUME NEW N \in Nat, NEW S, 0 \in S,
           \A n \in Nat : n \in S /\ n < N => n + 1 \in S
    PROVE  \A n \in 0..N : n \in S
<1> DEFINE T == {n \in 0..N : n \notin S}
<1> SUFFICES ASSUME T # {} PROVE FALSE
    OBVIOUS
<1>1. T \subseteq Nat
    OBVIOUS
<1>2. PICK n \in T : \A m \in T : ~(m < n)
    BY <1>1, LeastElement
<1>3. n \in 0..N /\ n \notin S /\ n # 0
    BY <1>2
<1>4. n - 1 \in 0..N /\ n - 1 < n /\ n - 1 < N /\ n - 1 \in Nat /\ (n - 1) + 1 = n
    BY <1>3
<1>5. n - 1 \in S
    BY <1>2, <1>4
<1> QED
    BY <1>3, <1>4, <1>5

-----------------------------------------------------------------------------
(* What a replay computes.  Replayed folds the writes over the sets of     *)
(* their positions, the largest position last.                             *)

LEMMA LargestPosition ==
    ASSUME NEW n \in Nat, NEW S \in SUBSET (1..n), n \in S
    PROVE  Max(S) = n
<1>1. n \in S /\ \A y \in S : n >= y
    OBVIOUS
<1>2. Max(S) \in S /\ \A y \in S : Max(S) >= y
    BY <1>1 DEF Max
<1>3. PICK m \in S : m = Max(S)
    BY <1>2
<1>4. m \in Nat /\ n >= m /\ m >= n
    BY <1>1, <1>2, <1>3
<1> QED
    BY <1>3, <1>4

(* f folds the writes of s up to position n onto d.                        *)
IsFold(f, d, s, n) ==
    f = [S \in SUBSET (1..n) |-> IF S = {} THEN d ELSE Written(f[S \ {Max(S)}], s[Max(S)])]

LEMMA FoldExists ==
    ASSUME NEW d, NEW s, NEW N \in Nat
    PROVE  \E f : IsFold(f, d, s, N)
<1> DEFINE G == {n \in Nat : \E f : IsFold(f, d, s, n)}
<1>1. 0 \in G
  <2> DEFINE f == [S \in SUBSET (1..0) |-> d]
  <2>1. IsFold(f, d, s, 0)
    <3>1. \A S \in SUBSET (1..0) : S = {}
        OBVIOUS
    <3> QED
        BY <3>1 DEF IsFold
  <2> QED
      BY <2>1
<1>2. ASSUME NEW n \in Nat, n \in G PROVE n + 1 \in G
  <2>1. PICK f : IsFold(f, d, s, n)
      BY <1>2
  <2> DEFINE g == [S \in SUBSET (1..(n + 1)) |->
                     IF n + 1 \in S THEN Written(f[S \ {n + 1}], s[n + 1]) ELSE f[S]]
  <2>2. ASSUME NEW S \in SUBSET (1..(n + 1))
        PROVE  g[S] = IF S = {} THEN d ELSE Written(g[S \ {Max(S)}], s[Max(S)])
    <3>1. CASE n + 1 \in S
      <4>1. Max(S) = n + 1
          BY <3>1, LargestPosition
      <4>2. /\ S \ {n + 1} \in SUBSET (1..n) /\ S \ {n + 1} \in SUBSET (1..(n + 1))
            /\ n + 1 \notin S \ {n + 1}
          OBVIOUS
      <4>3. g[S \ {n + 1}] = f[S \ {n + 1}]
          BY <4>2
      <4>4. g[S] = Written(f[S \ {n + 1}], s[n + 1])
          BY <3>1
      <4> QED
          BY <3>1, <4>1, <4>3, <4>4
    <3>2. CASE n + 1 \notin S
      <4>1. S \in SUBSET (1..n)
          BY <3>2
      <4>2. g[S] = f[S]
          BY <3>2
      <4>3. f[S] = IF S = {} THEN d ELSE Written(f[S \ {Max(S)}], s[Max(S)])
          BY <2>1, <4>1 DEF IsFold
      <4>4. S \ {Max(S)} \in SUBSET (1..(n + 1)) /\ n + 1 \notin S \ {Max(S)}
          BY <3>2
      <4>5. g[S \ {Max(S)}] = f[S \ {Max(S)}]
          BY <4>4
      <4> QED
          BY <4>2, <4>3, <4>5
    <3> QED
        BY <3>1, <3>2
  <2>3. IsFold(g, d, s, n + 1)
      BY <2>2 DEF IsFold
  <2> QED
      BY <2>3
<1>3. \A n \in 0..N : n \in G
    BY <1>1, <1>2, NumbersUpTo
<1> QED
    BY <1>3

(* The state after each prefix of the writes, position by position.        *)
Traces(h, d, s, n) ==
    /\ h[0] = d
    /\ \A i \in 1..n : h[i] = Written(h[i - 1], s[i])

LEMMA ReplayedTraces ==
    ASSUME NEW d, NEW s, NEW N \in Nat, DOMAIN s = 1..N
    PROVE  \E h : DOMAIN h = 0..N /\ Traces(h, d, s, N) /\ Replayed(s, d) = h[N]
<1> DEFINE f == CHOOSE f : IsFold(f, d, s, N)
           h == [i \in 0..N |-> f[1..i]]
<1>1. IsFold(f, d, s, N)
    BY FoldExists
<1>2. Replayed(s, d) = f[1..N]
    BY DEF Replayed, FoldLeft, MapThenFoldSet, IsFold
<1> HIDE DEF f
<1>3. f[1..0] = d
  <2>1. 1..0 = {} /\ 1..0 \in SUBSET (1..N)
      OBVIOUS
  <2> QED
      BY <1>1, <2>1 DEF IsFold
<1>4. ASSUME NEW i \in 1..N
      PROVE  f[1..i] = Written(f[1..(i - 1)], s[i])
  <2>1. 1..i \in SUBSET (1..N) /\ i \in 1..i /\ i \in Nat
      OBVIOUS
  <2>3. (1..i) \ {i} = 1..(i - 1)
      BY <2>1
  <2>2. Max(1..i) = i
      BY LargestPosition
  <2> QED
      BY <1>1, <2>1, <2>2, <2>3 DEF IsFold
<1>5. Traces(h, d, s, N)
    BY <1>3, <1>4 DEF Traces
<1> QED
    BY <1>2, <1>5

(* The same writes lead to the same states.                              *)
LEMMA TracesAgree ==
    ASSUME NEW d, NEW s, NEW t, NEW N \in Nat, \A i \in 1..N : s[i] = t[i],
           NEW g, NEW h, Traces(g, d, s, N), Traces(h, d, t, N)
    PROVE  g[N] = h[N]
<1> DEFINE S == {n \in Nat : g[n] = h[n]}
<1>1. 0 \in S
    BY DEF Traces
<1>2. ASSUME NEW n \in Nat, n \in S, n < N PROVE n + 1 \in S
  <2>1. n + 1 \in 1..N /\ (n + 1) - 1 = n /\ n + 1 \in Nat
      BY <1>2
  <2>2. g[n + 1] = Written(g[n], s[n + 1]) /\ h[n + 1] = Written(h[n], t[n + 1])
      BY <2>1 DEF Traces
  <2> QED
      BY <1>2, <2>1, <2>2
<1>3. \A n \in 0..N : n \in S
  <2> HIDE DEF S
  <2> QED
      BY <1>1, <1>2, NumbersUpTo
<1> QED
    BY <1>3

LEMMA ReplayedEmpty == \A d : Replayed(<<>>, d) = d
<1> TAKE d
<1>1. DOMAIN <<>> = 1..0 /\ 0 \in Nat
    OBVIOUS
<1>2. PICK h : Traces(h, d, <<>>, 0) /\ Replayed(<<>>, d) = h[0]
    BY <1>1, ReplayedTraces
<1> QED
    BY <1>2 DEF Traces

LEMMA ReplayedAppend ==
    ASSUME NEW S, NEW d, NEW s \in Seq(S), NEW c \in S
    PROVE  Replayed(Append(s, c), d) = Written(Replayed(s, d), c)
<1> DEFINE t == Append(s, c)
           N == Len(s)
<1>1. N \in Nat /\ DOMAIN s = 1..N /\ t \in Seq(S) /\ Len(t) = N + 1
    BY LenProperties, AppendProperties
<1>2. DOMAIN t = 1..(N + 1) /\ t[N + 1] = c /\ \A i \in 1..N : t[i] = s[i]
    BY <1>1, LenProperties, AppendProperties
<1> HIDE DEF t, N
<1>3. PICK g : Traces(g, d, s, N) /\ Replayed(s, d) = g[N]
    BY <1>1, ReplayedTraces
<1>4. PICK h : Traces(h, d, t, N + 1) /\ Replayed(t, d) = h[N + 1]
    BY <1>1, <1>2, ReplayedTraces
<1>5. Traces(h, d, t, N)
    BY <1>1, <1>4 DEF Traces
<1>6. g[N] = h[N]
    BY <1>1, <1>2, <1>3, <1>5, TracesAgree
<1>7. h[N + 1] = Written(h[N], c)
  <2>1. N + 1 \in 1..(N + 1) /\ (N + 1) - 1 = N
      BY <1>1
  <2> QED
      BY <1>2, <1>4, <2>1 DEF Traces
<1> QED
    BY <1>3, <1>4, <1>6, <1>7 DEF t

Write == [key : Keys, word : Words, own : BOOLEAN]

(* What every write keeps, their replay keeps.                             *)
LEMMA ReplayedIn ==
    ASSUME NEW G, NEW d \in G, NEW s \in Seq(Write),
           \A e \in G, i \in 1 .. Len(s) : Written(e, s[i]) \in G
    PROVE  Replayed(s, d) \in G
<1> DEFINE N == Len(s)
<1>1. N \in Nat /\ DOMAIN s = 1..N
    BY LenProperties
<1>0. \A e \in G, i \in 1 .. N : Written(e, s[i]) \in G
    OBVIOUS
<1> HIDE DEF N
<1>2. PICK h : Traces(h, d, s, N) /\ Replayed(s, d) = h[N]
    BY <1>1, ReplayedTraces
<1> DEFINE H == {n \in Nat : h[n] \in G}
<1>3. 0 \in H
    BY <1>2 DEF Traces
<1>4. ASSUME NEW n \in Nat, n \in H, n < N PROVE n + 1 \in H
  <2>1. n + 1 \in 1..N /\ (n + 1) - 1 = n /\ n + 1 \in Nat
      BY <1>1, <1>4
  <2>2. h[n + 1] = Written(h[n], s[n + 1]) /\ h[n] \in G
      BY <1>2, <1>4, <2>1 DEF Traces
  <2> QED
      BY <1>0, <2>1, <2>2
<1>5. \A n \in 0..N : n \in H
  <2> HIDE DEF H
  <2> QED
      BY <1>1, <1>3, <1>4, NumbersUpTo
<1> QED
    BY <1>1, <1>2, <1>5

LEMMA WrittenIs ==
    ASSUME NEW d \in Data, NEW w \in Write
    PROVE  /\ Written(d, w) \in Data
           /\ Written(d, w)[w.key] = [word |-> w.word, own |-> w.own]
           /\ \A k \in Keys : k # w.key => Written(d, w)[k] = d[k]
BY DEF Written, Data, Write, Entry

LEMMA ReplayedTyped ==
    ASSUME NEW d \in Data, NEW s \in Seq(Write)
    PROVE  Replayed(s, d) \in Data
<1>1. \A e \in Data, i \in 1 .. Len(s) : Written(e, s[i]) \in Data
    BY WrittenIs, ElementOfSeq
<1> QED
    BY <1>1, ReplayedIn

LEMMA ReplayedOne ==
    ASSUME NEW d, NEW w \in Write
    PROVE  Replayed(<<w>>, d) = Written(d, w)
<1>1. <<>> \in Seq(Write) /\ Append(<<>>, w) = <<w>>
    OBVIOUS
<1>2. Replayed(Append(<<>>, w), d) = Written(Replayed(<<>>, d), w)
    BY <1>1, ReplayedAppend
<1> QED
    BY <1>1, <1>2, ReplayedEmpty

-----------------------------------------------------------------------------
(* What servers hold is data, and what they log are writes.                *)
Names == {"redis-uya", "redis"}

DataInv ==
    /\ store \in [Roles -> Data] /\ rdb \in Data \cup {Absent} /\ sent \in Data
    /\ log \in Seq(Write) /\ buf \in Seq(Write) /\ left \in [Names -> Seq(Write)]

LEMMA Orders ==
    ASSUME Selected
    PROVE  /\ Case.script[1].do = "start"
           /\ \A n \in 1 .. Len(Case.script) :
                 /\ Case.script[n].do = "set" =>
                       /\ Case.script[n].key \in Keys /\ Case.script[n].word \in Words
                       /\ Case.script[n].word = "after" =>
                             Case.name = "reconnect_recovery" /\ n = 14
                 /\ Case.script[n].do = "save" => suite = "persistence"
                 /\ suite = "persistence" /\ Case.script[n].do = "start"
                       /\ Case.script[n].how # "existing" => Case.script[n].how = "fresh"
<1> USE DEF Start, Set, Do, Check, WaitValue, Keys, Words
<1>1. CASE suite = "persistence" /\ Case.script = SaveOnce
    BY <1>1, SaveSteps
<1>2. CASE suite = "persistence" /\ Case.script = RecoveryAofOnce
    BY <1>2, RecoveryAofSteps
<1>3. CASE suite = "persistence" /\ Case.script = RecoveryRdbAofOnce
    BY <1>3, RecoveryRdbAofSteps
<1>4. CASE suite = "replication" /\ Case.script = FullSyncOnce
    BY <1>4, FullSyncSteps
<1>5. CASE suite = "replication" /\ Case.script = IncrementalSyncOnce
    BY <1>5, IncrementalSyncSteps
<1>6. CASE /\ suite = "replication" /\ Case.name = "reconnect_recovery"
           /\ Case.script = ReconnectOnce
    BY <1>6, ReconnectSteps
<1> QED
    BY <1>1, <1>2, <1>3, <1>4, <1>5, <1>6, SixCases

(* The first step starts the master.                                       *)
LEMMA FirstStep ==
    ASSUME Selected
    PROVE  Case.script[1].role = "server" /\ Case.script[1].how # "existing"
BY SixCases, SaveSteps, RecoveryAofSteps, RecoveryRdbAofSteps, FullSyncSteps,
   IncrementalSyncSteps, ReconnectSteps DEF Start

LEMMA EmptyIsData == Empty \in Data
BY DEF Empty, Data

LEMMA ForeignTyped ==
    ASSUME NEW s \in Seq(Write)
    PROVE  /\ Foreign(s) \in Seq(Write) /\ Len(Foreign(s)) = Len(s)
           /\ \A i \in DOMAIN Foreign(s) : ~Foreign(s)[i].own
<1>1. Len(s) \in Nat /\ DOMAIN s = 1 .. Len(s) /\ \A i \in 1 .. Len(s) : s[i] \in Write
    BY LenProperties, ElementOfSeq
<1>2. \A i \in 1 .. Len(s) :
         [s[i] EXCEPT !.own = FALSE] \in Write /\ ~[s[i] EXCEPT !.own = FALSE].own
    BY <1>1 DEF Write
<1>3. Foreign(s) = [i \in 1 .. Len(s) |-> [s[i] EXCEPT !.own = FALSE]]
    BY <1>1 DEF Foreign
<1>4. Foreign(s) \in Seq(Write) /\ Len(Foreign(s)) = Len(s)
    BY <1>1, <1>2, <1>3, SeqDef
<1> QED
    BY <1>2, <1>3, <1>4

NoAfter(data) == \A k \in Keys : Word(data, k) # "after"

LEMMA ForeignDataTyped ==
    ASSUME NEW d \in Data
    PROVE  ForeignData(d) \in Data /\ (NoAfter(d) => NoAfter(ForeignData(d)))
<1>1. d # Absent /\ Absent \notin Entry
    BY AbsentAssumption
<1>2. ForeignData(d) =
         [k \in Keys |-> IF d[k] = Absent THEN Absent ELSE [d[k] EXCEPT !.own = FALSE]]
    BY <1>1 DEF ForeignData
<1>3. \A k \in Keys : d[k] # Absent =>
         [d[k] EXCEPT !.own = FALSE] \in Entry /\ [d[k] EXCEPT !.own = FALSE].word = d[k].word
    BY DEF Data, Entry
<1>4. ForeignData(d) \in Data
    BY <1>2, <1>3 DEF Data
<1>5. \A k \in Keys : Word(ForeignData(d), k) = Word(d, k)
    BY <1>1, <1>2, <1>3 DEF Word
<1> QED
    BY <1>4, <1>5 DEF NoAfter

LEMMA RecoveredTyped ==
    ASSUME DataInv, NEW s \in Seq(Write)
    PROVE  Recovered(s) \in Data
<1>1. (IF Impl = "redis-uya" /\ rdb # Absent THEN rdb ELSE Empty) \in Data
    BY EmptyIsData DEF DataInv
<1> QED
    BY <1>1, ReplayedTyped DEF Recovered

(* The write of a step.                                                    *)
Order == [key |-> Step.key, word |-> Step.word, own |-> TRUE]

LEMMA SetKeyWrites ==
    ASSUME DriverInv, DataInv, SetKey
    PROVE  /\ pc = "job" /\ Order \in Write /\ Step.do = "set" /\ proc["server"] = "up" /\ Advance
           /\ Selected
           /\ Step.word = "after" => Case.name = "reconnect_recovery" /\ step = 14
           /\ step # 1
           /\ store' = [store EXCEPT !["server"] = Written(@, Order)]
           /\ sent' = Written(sent, Order)
           /\ \/ Impl = "redis-uya" /\ buf' = Append(buf, Order) /\ log' = log
              \/ Impl # "redis-uya" /\ log' = Append(log, Order) /\ buf' = buf
           /\ Happened({"set"}) /\ UNCHANGED <<proc, rdb, left, link>>
<1>1. /\ pc = "job" /\ Step.do = "set" /\ proc["server"] = "up" /\ Advance
      /\ store' = [store EXCEPT !["server"] = Replayed(<<Order>>, @)]
      /\ sent' = Replayed(<<Order>>, sent)
      /\ \/ Impl = "redis-uya" /\ buf' = Append(buf, Order) /\ log' = log
         \/ Impl # "redis-uya" /\ log' = Append(log, Order) /\ buf' = buf
      /\ Happened({"set"}) /\ UNCHANGED <<proc, rdb, left, link>>
    BY DEF SetKey, At, Order
<1>2. Selected /\ step \in 1 .. Len(Case.script)
    BY <1>1 DEF DriverInv, ControlInv
<1>3. /\ Step.key \in Keys /\ Step.word \in Words
      /\ Step.word = "after" => Case.name = "reconnect_recovery" /\ step = 14
      /\ step # 1
    BY <1>1, <1>2, Orders DEF Step
<1>4. Order \in Write
    BY <1>3 DEF Order, Write
<1>5. Replayed(<<Order>>, store["server"]) = Written(store["server"], Order)
      /\ Replayed(<<Order>>, sent) = Written(sent, Order)
    BY <1>4, ReplayedOne
<1> QED
    BY <1>1, <1>2, <1>3, <1>4, <1>5

LEMMA ServerIn == "server" \in Roles /\ "replica" \in Roles
BY DEF Roles

LEMMA DataInit == Init => DataInv
<1> SUFFICES ASSUME Init PROVE DataInv
    OBVIOUS
<1>1. [Empty EXCEPT !["key"] = [word |-> "value", own |-> FALSE]] \in Data
    BY EmptyIsData DEF Data, Entry, Words
<1>2. rdb \in Data \cup {Absent} /\ store \in [Roles -> Data] /\ sent \in Data
    BY <1>1, EmptyIsData DEF Init
<1>3. log \in Seq(Write) /\ buf \in Seq(Write) /\ left \in [Names -> Seq(Write)]
    BY DEF Init, Names
<1> QED
    BY <1>2, <1>3 DEF DataInv

LEMMA DataNext == DriverInv /\ DataInv /\ [Next]_vars => DataInv'
<1> SUFFICES ASSUME DriverInv, DataInv, [Next]_vars
             PROVE  DataInv'
    OBVIOUS
<1>0. /\ store \in [Roles -> Data] /\ rdb \in Data \cup {Absent} /\ sent \in Data
      /\ log \in Seq(Write) /\ buf \in Seq(Write) /\ left \in [Names -> Seq(Write)]
      /\ <<>> \in Seq(Write) /\ \A s \in Seq(Write), w \in Write : Append(s, w) \in Seq(Write)
    BY DEF DataInv
<1>1. ASSUME UNCHANGED <<store, log, rdb, left, sent>>, buf' = buf \/ buf' = <<>>
      PROVE  DataInv'
  <2>1. buf' \in Seq(Write)
      BY <1>0, <1>1
  <2> QED
      BY <1>0, <1>1, <2>1 DEF DataInv
<1>2. ASSUME NEW s \in Suites, NEW i \in Impls, Main(s, i)
      PROVE  DataInv'
  <2>1. /\ UNCHANGED <<store, log, buf, rdb, sent>>
        /\ \E known \in SUBSET DOMAIN left :
              left' = [f \in DOMAIN left |-> IF f \in known THEN left[f] ELSE <<>>]
      BY <1>2 DEF Main, history
  <2> QED
      BY <1>0, <2>1 DEF DataInv
<1>3. ASSUME StartFresh
      PROVE  DataInv'
  <2>1. /\ pc = "job" /\ log' \in {<<>>, Foreign(left[Impl])} /\ buf' = <<>>
        /\ rdb' \in {Absent, ForeignData(rdb)} /\ left' = left
        /\ store' = [r \in Roles |-> Empty] /\ sent' = Empty
      BY <1>3 DEF StartFresh, At
  <2>2. Impl \in Names
      BY <2>1, SixCases DEF DriverInv, ControlInv, Names
  <2>3. log' \in Seq(Write)
    <3>1. left[Impl] \in Seq(Write)
        BY <1>0, <2>2
    <3>2. Foreign(left[Impl]) \in Seq(Write)
        BY <3>1, ForeignTyped
    <3> QED
        BY <1>0, <2>1, <3>2
  <2>4. rdb' \in Data \cup {Absent}
      BY <1>0, <2>1, ForeignDataTyped DEF ForeignData
  <2> QED
      BY <1>0, <2>1, <2>3, <2>4, EmptyIsData DEF DataInv
<1>4. ASSUME SetKey
      PROVE  DataInv'
  <2>1. /\ Order \in Write
        /\ store' = [store EXCEPT !["server"] = Written(@, Order)]
        /\ sent' = Written(sent, Order)
        /\ \/ buf' = Append(buf, Order) /\ log' = log
           \/ log' = Append(log, Order) /\ buf' = buf
        /\ UNCHANGED <<rdb, left>>
      BY <1>4, SetKeyWrites
  <2>2. Written(store["server"], Order) \in Data /\ Written(sent, Order) \in Data
      BY <1>0, <2>1, WrittenIs, ServerIn
  <2>3. store' \in [Roles -> Data] /\ sent' \in Data
      BY <1>0, <2>1, <2>2
  <2>4. buf' \in Seq(Write) /\ log' \in Seq(Write)
      BY <1>0, <2>1
  <2> QED
      BY <1>0, <2>1, <2>3, <2>4 DEF DataInv
<1>5. ASSUME SaveRdb
      PROVE  DataInv'
    BY <1>0, <1>5, ServerIn DEF SaveRdb, DataInv
<1>6. ASSUME CleanUp
      PROVE  DataInv'
  <2>1. /\ log' = <<>> /\ rdb' \in {Absent, rdb} /\ UNCHANGED <<store, buf, sent>>
        /\ left' \in {left, [left EXCEPT ![Impl] = log]}
      BY <1>6 DEF CleanUp, Cleanup
  <2> QED
      BY <1>0, <2>1 DEF DataInv
<1>7. ASSUME Killed
      PROVE  DataInv'
    BY <1>0, <1>7 DEF Killed, DataInv, Empty, Data
<1>8. ASSUME NEW r \in Roles, Load(r)
      PROVE  DataInv'
  <2>1. /\ store' = [store EXCEPT ![r] = Recovered(IF r = "server" THEN log ELSE <<>>)]
        /\ UNCHANGED <<log, buf, rdb, left, sent>>
      BY <1>8 DEF Load, history
  <2>2. Recovered(log) \in Data /\ Recovered(<<>>) \in Data
    <3>1. <<>> \in Seq(Write)
        OBVIOUS
    <3> QED
        BY <1>0, <3>1, RecoveredTyped
  <2> QED
      BY <1>0, <2>1, <2>2 DEF DataInv
<1>9. ASSUME Flush
      PROVE  DataInv'
    BY <1>0, <1>9 DEF Flush, DataInv, history
<1>10. ASSUME LinkUp \/ Poll \/ PollFails
       PROVE  DataInv'
    BY <1>0, <1>10, ServerIn DEF LinkUp, Poll, PollFails, DataInv
<1>11. ASSUME \/ StartExisting \/ ReplicaOf \/ Wait \/ StopMaster \/ ReadClock \/ TakeSample
              \/ Raise \/ (\E r \in Roles : StopProcess(r)) \/ NextRound \/ NextJob \/ LinkLost
              \/ UNCHANGED vars
       PROVE  UNCHANGED <<store, log, rdb, left, sent>> /\ (buf' = buf \/ buf' = <<>>)
    BY <1>11 DEF StartExisting, ReplicaOf, Wait, StopMaster, ReadClock, TakeSample, Raise,
                 StopProcess, NextRound, NextJob, LinkLost, vars, servers, history
<1> QED
    BY <1>1, <1>2, <1>3, <1>4, <1>5, <1>6, <1>7, <1>8, <1>9, <1>10, <1>11
       DEF Next, DriverStep, ServerStep, Suites, Impls

-----------------------------------------------------------------------------
(* The value the reconnect case waits for: nobody has it before the last   *)
(* write, unless the AOF is that of a killed run.                          *)
AllOwn(s) == \A i \in 1 .. Len(s) : s[i].own
OwnBefore(s) == \A i \in 1 .. Len(s) : s[i].own => s[i].word # "after"
Late == Case.name = "reconnect_recovery" /\ step > 14

(* A snapshot never holds the last word.  What the run buffers is its own, *)
(* and before the last write its own log does not hold the last word.      *)
(* In the persistence benchmark of redis-uya the whole log is its own.     *)
WordsInv ==
    /\ rdb # Absent => NoAfter(rdb)
    /\ pc = "job" /\ step >= 2 =>
          /\ AllOwn(buf)
          /\ ~Late => OwnBefore(buf) /\ OwnBefore(log)
          /\ suite = "persistence" /\ Impl = "redis-uya" => AllOwn(log) /\ NoAfter(store["server"])

LEMMA AppendedWrites ==
    ASSUME NEW s \in Seq(Write), NEW w \in Write
    PROVE  /\ AllOwn(s) /\ w.own => AllOwn(Append(s, w))
           /\ AllOwn(Append(s, w)) => AllOwn(s)
           /\ OwnBefore(s) /\ w.word # "after" => OwnBefore(Append(s, w))
<1>1. /\ Len(s) \in Nat /\ Len(Append(s, w)) = Len(s) + 1
      /\ \A i \in 1 .. Len(s) : Append(s, w)[i] = s[i]
      /\ Append(s, w)[Len(s) + 1] = w
    BY LenProperties, AppendProperties
<1>2. \A i \in 1 .. Len(s) + 1 : i \in 1 .. Len(s) \/ i = Len(s) + 1
    BY <1>1
<1>3. \A i \in 1 .. Len(s) : i \in 1 .. Len(s) + 1
    BY <1>1
<1> QED
    BY <1>1, <1>2, <1>3 DEF AllOwn, OwnBefore

LEMMA JoinedWrites ==
    ASSUME NEW s \in Seq(Write), NEW t \in Seq(Write)
    PROVE  /\ s \o t \in Seq(Write)
           /\ AllOwn(t) => (AllOwn(s \o t) <=> AllOwn(s))
           /\ OwnBefore(s) /\ OwnBefore(t) => OwnBefore(s \o t)
<1>1. /\ Len(s) \in Nat /\ Len(t) \in Nat /\ s \o t \in Seq(Write)
      /\ Len(s \o t) = Len(s) + Len(t)
      /\ \A i \in 1 .. Len(s) + Len(t) : (s \o t)[i] = IF i <= Len(s) THEN s[i] ELSE t[i - Len(s)]
    BY LenProperties, ConcatProperties
<1>2. /\ \A i \in 1 .. Len(s) + Len(t) : i \in 1 .. Len(s) \/ i - Len(s) \in 1 .. Len(t)
      /\ \A i \in 1 .. Len(s) : i \in 1 .. Len(s) + Len(t) /\ i <= Len(s)
    BY <1>1
<1>3. \A i \in 1 .. Len(s) : (s \o t)[i] = s[i]
    BY <1>1, <1>2
<1>4. \A i \in 1 .. Len(s) + Len(t) :
         \/ i \in 1 .. Len(s) /\ (s \o t)[i] = s[i]
         \/ i - Len(s) \in 1 .. Len(t) /\ (s \o t)[i] = t[i - Len(s)]
    BY <1>1, <1>2
<1>5. AllOwn(t) /\ AllOwn(s) => AllOwn(s \o t)
    BY <1>1, <1>4 DEF AllOwn
<1>6. AllOwn(s \o t) => AllOwn(s)
    BY <1>1, <1>2, <1>3 DEF AllOwn
<1>7. OwnBefore(s) /\ OwnBefore(t) => OwnBefore(s \o t)
    BY <1>1, <1>4 DEF OwnBefore
<1> QED
    BY <1>1, <1>5, <1>6, <1>7

LEMMA AfterIsNot == Absent # "after" /\ Absent # "value" /\ Absent # "newer" /\ Absent # "x"
BY AbsentAssumption DEF Words

LEMMA NoAfterWritten ==
    ASSUME NEW d \in Data, NoAfter(d), NEW w \in Write, w.word # "after"
    PROVE  NoAfter(Written(d, w))
<1>1. /\ Written(d, w)[w.key] = [word |-> w.word, own |-> w.own]
      /\ \A k \in Keys : k # w.key => Written(d, w)[k] = d[k]
    BY WrittenIs
<1>2. [word |-> w.word, own |-> w.own].word = w.word
    OBVIOUS
<1> QED
    BY <1>1, <1>2, AfterIsNot DEF NoAfter, Word

LEMMA EmptyHasNoAfter == NoAfter(Empty)
BY AfterIsNot DEF NoAfter, Word, Empty

LEMMA NoAfterRecovered ==
    ASSUME DataInv, WordsInv, NEW s \in Seq(Write), AllOwn(s), OwnBefore(s)
    PROVE  NoAfter(Recovered(s))
<1> DEFINE G == {d \in Data : NoAfter(d)}
           base == IF Impl = "redis-uya" /\ rdb # Absent THEN rdb ELSE Empty
<1>1. base \in G
    BY EmptyIsData, EmptyHasNoAfter DEF DataInv, WordsInv
<1>2. \A e \in G, i \in 1 .. Len(s) : Written(e, s[i]) \in G
  <2> TAKE e \in G, i \in 1 .. Len(s)
  <2>1. s[i] \in Write /\ s[i].word # "after"
      BY ElementOfSeq DEF AllOwn, OwnBefore
  <2> QED
      BY <2>1, NoAfterWritten, WrittenIs
<1>3. Recovered(s) = Replayed(s, base)
    BY DEF Recovered
<1> HIDE DEF G, base
<1>4. Replayed(s, base) \in G
    BY <1>1, <1>2, ReplayedIn
<1> QED
    BY <1>3, <1>4 DEF G

LEMMA WordsInit == Init => WordsInv
<1>1. ASSUME rdb = [Empty EXCEPT !["key"] = [word |-> "value", own |-> FALSE]]
      PROVE  NoAfter(rdb)
    BY <1>1, AfterIsNot DEF NoAfter, Word, Empty
<1> QED
    BY <1>1 DEF Init, WordsInv

LEMMA WordsNext == DriverInv /\ DataInv /\ WordsInv /\ [Next]_vars => WordsInv'
<1> SUFFICES ASSUME DriverInv, DataInv, WordsInv, [Next]_vars
             PROVE  WordsInv'
    OBVIOUS
<1>0. /\ store \in [Roles -> Data] /\ rdb \in Data \cup {Absent} /\ sent \in Data
      /\ log \in Seq(Write) /\ buf \in Seq(Write) /\ <<>> \in Seq(Write)
      /\ left \in [Names -> Seq(Write)]
    BY DEF DataInv
<1>a. AllOwn(<<>>) /\ OwnBefore(<<>>)
    BY DEF AllOwn, OwnBefore
<1>b. /\ pc = "job" => Selected /\ step \in 1 .. Len(Case.script) /\ Len(Case.script) \in Nat
      /\ pc = "next" => step = 1
    BY Course DEF DriverInv, ControlInv
<1>1. ASSUME rdb' = rdb \/ rdb' = Absent, pc' = "job" /\ step' >= 2 => FALSE
      PROVE  WordsInv'
    BY <1>1 DEF WordsInv
<1>2. ASSUME pc = "job", Advance, UNCHANGED <<log, rdb>>, buf' = buf \/ buf' = <<>>, step # 1,
             store' = store
      PROVE  WordsInv'
  <2>1. Case' = Case /\ Impl' = Impl /\ suite' = suite /\ step' = step + 1
      BY <1>2, SameCase DEF Advance
  <2>2. step >= 2 /\ (Late => Late')
      BY <1>2, <1>b, <2>1 DEF Late
  <2> QED
      BY <1>2, <1>a, <2>1, <2>2 DEF WordsInv
<1>3. ASSUME StartFresh
      PROVE  WordsInv'
  <2>1. /\ pc = "job" /\ buf' = <<>> /\ store' = [r \in Roles |-> Empty] /\ Advance
        /\ log' = IF Step.how = "fresh" /\ CleanupRemovesLog THEN <<>> ELSE Foreign(left[Impl])
        /\ rdb' = IF Step.how = "fresh" /\ CleanupRemovesRdb THEN Absent ELSE ForeignData(rdb)
        /\ Step.do = "start" /\ Step.role = "server" /\ Step.how # "existing"
      BY <1>3 DEF StartFresh, At
  <2>2. Case' = Case /\ Impl' = Impl /\ suite' = suite /\ step' = step + 1
      BY <2>1, SameCase DEF Advance
  <2>3. Impl \in Names /\ (suite = "persistence" => Step.how = "fresh")
      BY <1>b, <2>1, SixCases, Orders DEF Step, Names
  <2>4. suite = "persistence" /\ Impl = "redis-uya" => log' = <<>>
      BY <2>1, <2>3 DEF CleanupRemovesLog
  <2>5. OwnBefore(log')
    <3>1. left[Impl] \in Seq(Write)
        BY <1>0, <2>3
    <3>2. /\ Foreign(left[Impl]) \in Seq(Write)
          /\ \A i \in DOMAIN Foreign(left[Impl]) : ~Foreign(left[Impl])[i].own
        BY <3>1, ForeignTyped
    <3>3. OwnBefore(Foreign(left[Impl]))
        BY <3>2, LenProperties DEF OwnBefore
    <3> QED
        BY <1>a, <2>1, <3>3
  <2>6. rdb' # Absent => NoAfter(rdb')
    <3>1. CASE rdb = Absent
        BY <2>1, <3>1 DEF ForeignData
    <3>2. CASE rdb \in Data /\ rdb # Absent
      <4>1. NoAfter(ForeignData(rdb))
          BY <3>2, ForeignDataTyped DEF WordsInv
      <4> QED
          BY <2>1, <4>1
    <3> QED
        BY <1>0, <3>1, <3>2
  <2>7. NoAfter(store'["server"])
      BY <2>1, EmptyHasNoAfter, ServerIn
  <2> QED
      BY <1>a, <2>1, <2>2, <2>4, <2>5, <2>6, <2>7 DEF WordsInv
<1>4. ASSUME SetKey
      PROVE  WordsInv'
  <2>1. /\ Order \in Write /\ Advance /\ pc = "job" /\ step # 1 /\ Selected
        /\ Step.word = "after" => Case.name = "reconnect_recovery" /\ step = 14
        /\ store' = [store EXCEPT !["server"] = Written(@, Order)] /\ rdb' = rdb
        /\ \/ Impl = "redis-uya" /\ buf' = Append(buf, Order) /\ log' = log
           \/ Impl # "redis-uya" /\ log' = Append(log, Order) /\ buf' = buf
      BY <1>4, SetKeyWrites
  <2>2. Case' = Case /\ Impl' = Impl /\ suite' = suite /\ step' = step + 1
      BY <2>1, SameCase DEF Advance
  <2>3. step >= 2 /\ (Late => Late') /\ Order.own /\ Order.word = Step.word
      BY <1>b, <2>1, <2>2 DEF Late, Order
  <2>4. ~Late' => Order.word # "after"
      BY <2>1, <2>2, <2>3 DEF Late
  <2>5. suite = "persistence" => Order.word # "after"
      BY <2>1, <2>3, SixCases
  <2>6. /\ AllOwn(buf) => AllOwn(Append(buf, Order))
        /\ OwnBefore(buf) /\ Order.word # "after" => OwnBefore(Append(buf, Order))
        /\ OwnBefore(log) /\ Order.word # "after" => OwnBefore(Append(log, Order))
      BY <1>0, <2>1, <2>3, AppendedWrites
  <2>7. NoAfter(store["server"]) /\ Order.word # "after" => NoAfter(store'["server"])
    <3>1. store["server"] \in Data /\ store'["server"] = Written(store["server"], Order)
        BY <1>0, <2>1, ServerIn
    <3> QED
        BY <2>1, <3>1, NoAfterWritten
  <2> QED
      BY <2>1, <2>2, <2>3, <2>4, <2>5, <2>6, <2>7 DEF WordsInv
<1>5. ASSUME SaveRdb
      PROVE  WordsInv'
  <2>1. /\ pc = "job" /\ Step.do = "save" /\ Advance /\ UNCHANGED <<store, log, buf>>
        /\ rdb' = IF Impl = "redis-uya" THEN store["server"] ELSE rdb
      BY <1>5 DEF SaveRdb, At
  <2>2. Case' = Case /\ Impl' = Impl /\ suite' = suite /\ step' = step + 1
      BY <2>1, SameCase DEF Advance
  <2>3. suite = "persistence" /\ step # 1
      BY <1>b, <2>1, Orders DEF Step
  <2>4. step >= 2 /\ (Late => Late')
      BY <1>b, <2>1, <2>2, <2>3 DEF Late
  <2> QED
      BY <2>1, <2>2, <2>3, <2>4 DEF WordsInv
<1>6. ASSUME Load("server")
      PROVE  WordsInv'
  <2>1. /\ UNCHANGED <<pc, suite, impls, job, step, log, buf, rdb>>
        /\ store' = [store EXCEPT !["server"] = Recovered(log)]
      BY <1>6 DEF Load, driver
  <2>2. Case' = Case /\ Impl' = Impl
      BY <2>1, SameCase
  <2>3. Late' <=> Late
      BY <2>1, <2>2 DEF Late
  <2>4. pc = "job" /\ step >= 2 /\ suite = "persistence" /\ Impl = "redis-uya"
           => NoAfter(store'["server"])
    <3> SUFFICES ASSUME pc = "job" /\ step >= 2 /\ suite = "persistence" /\ Impl = "redis-uya"
                 PROVE  NoAfter(store'["server"])
        OBVIOUS
    <3>1. ~Late
        BY <1>b, SixCases DEF Late
    <3>2. NoAfter(Recovered(log))
        BY <1>0, <3>1, NoAfterRecovered DEF WordsInv
    <3> QED
        BY <1>0, <2>1, <3>2, ServerIn
  <2> QED
      BY <2>1, <2>2, <2>3, <2>4 DEF WordsInv
<1>7. ASSUME Flush
      PROVE  WordsInv'
  <2>1. /\ UNCHANGED <<pc, suite, impls, job, step, store, rdb>>
        /\ log' = log \o buf /\ buf' = <<>>
      BY <1>7 DEF Flush, driver
  <2>2. Case' = Case /\ Impl' = Impl
      BY <2>1, SameCase
  <2>3. Late' <=> Late
      BY <2>1, <2>2 DEF Late
  <2>4. /\ AllOwn(buf) /\ AllOwn(log) => AllOwn(log')
        /\ OwnBefore(log) /\ OwnBefore(buf) => OwnBefore(log')
      BY <1>0, <2>1, JoinedWrites
  <2> QED
      BY <1>a, <2>1, <2>2, <2>3, <2>4 DEF WordsInv
<1>8. ASSUME Load("replica") \/ LinkUp \/ Poll \/ PollFails \/ LinkLost \/ UNCHANGED vars
      PROVE  WordsInv'
  <2>1. /\ UNCHANGED <<pc, suite, impls, job, step, log, buf, rdb>>
        /\ \/ store' = store
           \/ \E d : store' = [store EXCEPT !["replica"] = d]
      BY <1>8 DEF Load, LinkUp, Poll, PollFails, LinkLost, vars, driver, servers
  <2>2. Case' = Case /\ Impl' = Impl /\ store'["server"] = store["server"]
      BY <1>0, <2>1, SameCase, ServerIn
  <2>3. Late' <=> Late
      BY <2>1, <2>2 DEF Late
  <2> QED
      BY <2>1, <2>2, <2>3 DEF WordsInv
<1>9. ASSUME NEW s \in Suites, NEW i \in Impls, Main(s, i)
      PROVE  WordsInv'
    BY <1>1, <1>9 DEF Main
<1>10. ASSUME StartExisting
       PROVE  WordsInv'
  <2>1. /\ pc = "job" /\ Advance /\ UNCHANGED <<store, log, buf, rdb>>
        /\ Step.do = "start" /\ (Step.role = "replica" \/ Step.how = "existing")
      BY <1>10 DEF StartExisting, At
  <2>2. step # 1
      BY <1>b, <2>1, FirstStep DEF Step
  <2> QED
      BY <1>2, <2>1, <2>2
<1>11. ASSUME ReplicaOf \/ Wait \/ StopMaster \/ ReadClock
       PROVE  WordsInv'
  <2>1. /\ pc = "job" /\ Advance /\ UNCHANGED <<store, log, rdb>> /\ (buf' = buf \/ buf' = <<>>)
        /\ Step.do # "start"
      BY <1>11 DEF ReplicaOf, Wait, WaitConnected, WaitDisconnected, WaitForValue,
                   CheckRecovered, StopMaster, ReadClock, At, servers
  <2>2. step # 1
      BY <1>b, <2>1, Orders DEF Step
  <2> QED
      BY <1>2, <2>1, <2>2
<1>12. ASSUME \/ TakeSample \/ Raise \/ (\E r \in Roles : StopProcess(r)) \/ CleanUp
              \/ NextRound \/ NextJob \/ Killed
       PROVE  (rdb' = rdb \/ rdb' = Absent) /\ ~(pc' = "job" /\ step' >= 2)
  <2>1. CASE TakeSample \/ Raise \/ (\E r \in Roles : StopProcess(r)) \/ Killed
      BY <2>1 DEF TakeSample, Raise, StopProcess, Killed, Advance, servers
  <2>2. CASE CleanUp
      BY <2>2 DEF CleanUp, Cleanup
  <2>3. CASE NextRound \/ NextJob
      BY <1>b, <2>3 DEF NextRound, NextJob, servers
  <2> QED
      BY <1>12, <2>1, <2>2, <2>3
<1> QED
    BY <1>1, <1>3, <1>4, <1>5, <1>6, <1>7, <1>8, <1>9, <1>10, <1>11, <1>12
       DEF Next, DriverStep, ServerStep, Suites, Impls, Roles

-----------------------------------------------------------------------------
(* What has happened since the clock was read, step by step.               *)
Same == store["replica"] = store["server"]
KeyIs(word) == Word(store["replica"], "key") = word
Whole == {"down", "started", "linked", "set"}

(* What has happened on purpose is exactly `what', unless the link has been*)
(* lost by itself.                                                         *)
Lost(what) == "lost" \in since \/ "down" \in since \ what
Saw(what) ==
    /\ what \subseteq since /\ since \subseteq what \cup {"lost", "down", "linked"}
    /\ Lost(what) \/ (link = "connected" /\ since = what)

(* The same, and what was set came to the replica: by a poll, or with the  *)
(* link that was made again.                                               *)
Reached(what) ==
    \/ Saw(what \cup {"polled"})
    \/ Saw(what) /\ Lost(what) /\ "linked" \in since

(* One table per case: at each step of the script, what has happened since *)
(* the clock was read, and what the link and the servers are.              *)
PersistenceTable ==
    /\ step >= 2 => link = "none"
    /\ Case.name = "save" =>
          /\ step = 5 => since = {}
          /\ step = 6 => since = {"saved"}
    /\ Case.name = "restart_recovery_aof" =>
          /\ step = 6 => since = {}
          /\ step > 6 => since = {"started"}
    /\ Case.name = "restart_recovery_rdb_aof" =>
          /\ step = 10 => since = {}
          /\ step > 10 => since = {"started"}

FullSyncTable ==
    /\ step \in 2 .. 7 => link = "none"
    /\ step >= 4 => proc["server"] = "up"
    /\ step >= 8 => proc["replica"] = "up"
    /\ step = 7 => since = {}
    /\ step = 8 => (link = "configured" /\ since = {}) \/ (Saw({"linked"}) /\ Same)
    /\ step > 8 => Saw({"linked"}) /\ Same

IncrementalSyncTable ==
    /\ step \in 2 .. 6 => link = "none"
    /\ step >= 4 => proc["server"] = "up"
    /\ step >= 7 => proc["replica"] = "up"
    /\ step >= 7 => link \in {"configured", "connected"}
    /\ step = 7 => link = "configured" \/ Same
    /\ step \in 8 .. 10 => Same
    /\ step \in 9 .. 10 => KeyIs("value")
    /\ step = 10 => Saw({})
    /\ step = 11 => (Saw({"set"}) /\ KeyIs("value")) \/ (Reached({"set"}) /\ Same)
    /\ step = 12 => Reached({"set"}) /\ Same

ReconnectTable ==
    /\ step \in 2 .. 6 => link = "none"
    /\ step \in 4 .. 9 => proc["server"] = "up"
    /\ step >= 7 => proc["replica"] = "up"
    /\ step >= 7 => link \in {"configured", "connected"}
    /\ step = 7 => link = "configured" \/ Same
    /\ step \in 8 .. 9 => Same
    /\ step \in 10 .. 12 => proc["server"] = "none"
    /\ step \in 11 .. 12 => link = "configured"
    /\ step = 12 => since = {"down"}
    /\ step = 13 =>
          /\ proc["server"] # "none"
          /\ proc["server"] = "up" /\ AllOwn(log) => Word(store["server"], "key") # "after"
          /\ \/ link = "configured" /\ since = {"down", "started"}
             \/ proc["server"] = "up" /\ Saw({"down", "started", "linked"}) /\ Same
    /\ step >= 14 => proc["server"] = "up"
    /\ step = 14 => /\ Saw({"down", "started", "linked"}) /\ Same
                    /\ AllOwn(log) => ~KeyIs("after")
    /\ step = 15 /\ AllOwn(log) =>
          \/ Saw(Whole) /\ ~KeyIs("after")
          \/ Reached(Whole) /\ Same
    /\ step = 16 /\ AllOwn(log) => Reached(Whole) /\ Same

TableInv ==
    pc = "job" =>
        /\ suite = "persistence" => PersistenceTable
        /\ Case.name = "full_sync" => FullSyncTable
        /\ Case.name = "incremental_sync" => IncrementalSyncTable
        /\ Case.name = "reconnect_recovery" => ReconnectTable

(* What is done adds to what has been seen; a link that was lost and made  *)
(* again brings what a poll would have brought.                            *)
LEMMA Seen ==
    ASSUME NEW CONSTANT what, "off" \notin what, Saw(what)
    PROVE  /\ Happened({"lost"}) => Saw(what)'
           /\ Happened({"linked"}) /\ link = "configured" => Saw(what)' /\ Reached(what)'
           /\ Happened({"set"}) /\ link' = link => Saw(what \cup {"set"})'
           /\ Happened({"polled"}) /\ link' = link => Reached(what)'
           /\ Happened({"polled", "lost"}) => Reached(what)'
<1>1. since # Off
    BY DEF Saw, Off
<1>2. ASSUME Happened({"lost"})
      PROVE  Saw(what)'
    BY <1>1, <1>2 DEF Happened, Saw, Lost
<1>3. ASSUME Happened({"linked"}), link = "configured"
      PROVE  Saw(what)' /\ Reached(what)'
    BY <1>1, <1>3 DEF Happened, Saw, Lost, Reached
<1>4. ASSUME Happened({"set"}), link' = link
      PROVE  Saw(what \cup {"set"})'
    BY <1>1, <1>4 DEF Happened, Saw, Lost
<1>5. ASSUME Happened({"polled"}), link' = link
      PROVE  Saw(what \cup {"polled"})'
    BY <1>1, <1>5 DEF Happened, Saw, Lost
<1>6. ASSUME Happened({"polled", "lost"})
      PROVE  Saw(what \cup {"polled"})'
    BY <1>1, <1>6 DEF Happened, Saw, Lost
<1> QED
    BY <1>2, <1>3, <1>4, <1>5, <1>6 DEF Reached

LEMMA StillReached ==
    ASSUME NEW CONSTANT what, "off" \notin what, Reached(what)
    PROVE  /\ Happened({"lost"}) => Reached(what)'
           /\ Happened({"linked"}) /\ link = "configured" => Reached(what)'
<1>1. since # Off
    BY DEF Reached, Saw, Off
<1>2. ASSUME Happened({"lost"})
      PROVE  Reached(what)'
    BY <1>1, <1>2 DEF Happened, Reached, Saw, Lost
<1>3. ASSUME Happened({"linked"}), link = "configured"
      PROVE  Reached(what)'
    BY <1>1, <1>3 DEF Happened, Reached, Saw, Lost
<1> QED
    BY <1>2, <1>3

(* The action that takes the next step of a run.                           *)
LEMMA Acts ==
    ASSUME DriverInv, pc = "job", pc' = "job", DriverStep
    PROVE  /\ Selected /\ step \in 1 .. Len(Case.script) /\ Step = Case.script[step]
           /\ \/ Step.do = "start" /\ step = 1 /\ StartFresh
              \/ Step.do = "start" /\ step # 1 /\ StartExisting
              \/ Step.do = "set" /\ SetKey
              \/ Step.do = "save" /\ SaveRdb
              \/ Step.do = "replicaof" /\ ReplicaOf
              \/ Step.do \in {"connected", "disconnected", "value", "check"} /\ Wait
              \/ Step.do = "stop" /\ StopMaster
              \/ Step.do = "clock" /\ ReadClock
<1>1. Selected /\ step \in 1 .. Len(Case.script) /\ Step = Case.script[step]
    BY DEF DriverInv, ControlInv, Step
<1>2. /\ Step.do = "start" /\ Step.role = "server" /\ Step.how # "existing" => step = 1
      /\ Step.do = "start" /\ Step.role = "replica" => step = 2
      /\ step = 1 => Step.do = "start" /\ Step.role = "server" /\ Step.how # "existing"
      /\ Step.do = "start" => Step.role \in Roles
    BY <1>1, Course, Orders, FirstStep
<1>3. ~Raise /\ ~TakeSample
    BY DEF Raise, TakeSample
<1>4. StartExisting => Step.do = "start" /\ (Step.role = "replica" \/ Step.how = "existing")
    BY DEF StartExisting, At
<1>5. StartFresh => Step.do = "start" /\ Step.role = "server" /\ Step.how # "existing"
    BY DEF StartFresh, At
<1>6. step = 1 => ~StartExisting
    BY <1>2, <1>4, ServerIn DEF Roles
<1>7. StartFresh => step = 1
    BY <1>2, <1>5
<1> QED
    BY <1>1, <1>3, <1>4, <1>6, <1>7, Moves

(* The driver's next step of a run, by what it does.                       *)
LEMMA Turns ==
    ASSUME DriverInv, DataInv, pc = "job", pc' = "job", DriverStep
    PROVE  /\ Selected /\ step \in 1 .. Len(Case.script) /\ step' = step + 1
           /\ Case' = Case /\ suite' = suite /\ Impl' = Impl
           /\ Step.do = "start" /\ step = 1 =>
                 /\ proc' = [proc EXCEPT !["server"] = "loading"] /\ link' = "none"
           /\ Step.do = "start" /\ step # 1 =>
                 /\ proc' = [proc EXCEPT ![Step.role] = "loading"]
                 /\ Happened({"started"}) /\ UNCHANGED <<store, log, link>>
           /\ Step.do = "set" =>
                 /\ proc["server"] = "up" /\ Happened({"set"}) /\ UNCHANGED <<proc, link>>
                 /\ store'["replica"] = store["replica"] /\ (AllOwn(log') => AllOwn(log))
           /\ Step.do = "save" =>
                 proc["server"] = "up" /\ Happened({"saved"}) /\ UNCHANGED <<proc, store, log, link>>
           /\ Step.do = "replicaof" =>
                 /\ proc["replica"] = "up" /\ link' = "configured"
                 /\ UNCHANGED <<proc, store, log, since>>
           /\ Step.do = "connected" => proc["replica"] = "up" /\ link = "connected"
           /\ Step.do = "disconnected" => proc["replica"] = "up" /\ link = "configured"
           /\ Step.do = "value" => KeyIs(Step.word)
           /\ Step.do \in {"connected", "disconnected", "value", "check"} =>
                 UNCHANGED <<proc, store, log, link, since>>
           /\ Step.do = "stop" =>
                 /\ proc' = [proc EXCEPT !["server"] = "none"]
                 /\ UNCHANGED <<store, log, link, since>>
           /\ Step.do = "clock" =>
                 /\ since' = (IF link = "configured" THEN {"down"} ELSE {})
                 /\ UNCHANGED <<proc, store, log, link>>
           /\ Step.do # "sample"
<1>1. Selected /\ step \in 1 .. Len(Case.script)
    BY Acts
<1>4. Advance => /\ step' = step + 1 /\ Case' = Case /\ suite' = suite /\ Impl' = Impl
    BY SameCase DEF Advance
<1>5. CASE Step.do = "start" /\ step = 1 /\ StartFresh
    BY <1>1, <1>4, <1>5 DEF StartFresh
<1>6. CASE Step.do = "start" /\ step # 1 /\ StartExisting
    BY <1>1, <1>4, <1>6 DEF StartExisting
<1>7. CASE Step.do = "set" /\ SetKey
  <2>1. /\ Order \in Write /\ proc["server"] = "up" /\ Advance
        /\ store' = [store EXCEPT !["server"] = Written(@, Order)]
        /\ log' = Append(log, Order) \/ log' = log
        /\ Happened({"set"}) /\ UNCHANGED <<proc, link>>
      BY <1>7, SetKeyWrites
  <2>2. store'["replica"] = store["replica"] /\ (AllOwn(log') => AllOwn(log))
      BY <2>1, AppendedWrites, ServerIn DEF DataInv
  <2> QED
      BY <1>1, <1>4, <1>7, <2>1, <2>2
<1>8. CASE Step.do = "save" /\ SaveRdb
    BY <1>1, <1>4, <1>8 DEF SaveRdb
<1>9. CASE Step.do = "replicaof" /\ ReplicaOf
    BY <1>1, <1>4, <1>9 DEF ReplicaOf, history
<1>10. CASE Step.do \in {"connected", "disconnected", "value", "check"} /\ Wait
    BY <1>1, <1>4, <1>10
       DEF Wait, WaitConnected, WaitDisconnected, WaitForValue, CheckRecovered, At, servers,
           history, KeyIs
<1>11. CASE Step.do = "stop" /\ StopMaster
    BY <1>1, <1>4, <1>11 DEF StopMaster, history
<1>12. CASE Step.do = "clock" /\ ReadClock
    BY <1>1, <1>4, <1>12 DEF ReadClock, servers
<1> QED
    BY Acts, <1>5, <1>6, <1>7, <1>8, <1>9, <1>10, <1>11, <1>12

-----------------------------------------------------------------------------
(* Each table survives the driver's steps.                                 *)
LEMMA PersistenceTurn ==
    ASSUME DriverInv, DataInv, pc = "job", pc' = "job", DriverStep, suite = "persistence",
           PersistenceTable
    PROVE  PersistenceTable'
<1>1. /\ Selected /\ step \in 1 .. Len(Case.script) /\ step' = step + 1
      /\ Case' = Case /\ Step = Case.script[step]
      /\ Step.do = "start" /\ step = 1 => link' = "none"
      /\ Step.do = "start" /\ step # 1 => Happened({"started"}) /\ link' = link
      /\ Step.do = "set" => Happened({"set"}) /\ link' = link
      /\ Step.do = "save" => Happened({"saved"}) /\ link' = link
      /\ Step.do = "check" => UNCHANGED <<link, since>>
      /\ Step.do = "stop" => UNCHANGED <<link, since>>
      /\ Step.do = "clock" =>
            since' = (IF link = "configured" THEN {"down"} ELSE {}) /\ link' = link
      /\ Step.do # "sample"
    BY Turns DEF Step
<1>2. Off # {}
    BY DEF Off
<1> USE DEF Start, Set, Do, Check
<1>3. CASE Case.name = "save" /\ Case.script = SaveOnce
    BY <1>1, <1>2, <1>3, SaveSteps DEF PersistenceTable, Happened
<1>4. CASE Case.name = "restart_recovery_aof" /\ Case.script = RecoveryAofOnce
    BY <1>1, <1>2, <1>4, RecoveryAofSteps DEF PersistenceTable, Happened
<1>5. CASE Case.name = "restart_recovery_rdb_aof" /\ Case.script = RecoveryRdbAofOnce
    BY <1>1, <1>2, <1>5, RecoveryRdbAofSteps DEF PersistenceTable, Happened
<1> QED
    BY <1>1, <1>3, <1>4, <1>5, SixCases

LEMMA FullSyncTurn ==
    ASSUME DriverInv, DataInv, pc = "job", pc' = "job", DriverStep, Case.name = "full_sync",
           FullSyncTable
    PROVE  FullSyncTable'
<1>1. Selected /\ step \in 1 .. Len(Case.script) /\ step' = step + 1 /\ Step = Case.script[step]
    BY Turns DEF Step
<1>2. Case.script = FullSyncOnce
    BY <1>1, SixCases
<1>3. step \in 1 .. 9
    BY <1>1, <1>2, Turns, FullSyncSteps DEF Do
<1>4. proc \in [Roles -> {"none", "loading", "up"}]
    BY DEF DriverInv, ControlInv
<1> USE DEF Start, Set, Do, WaitValue
<1>5. CASE step = 1
    BY <1>1, <1>2, <1>5, FullSyncSteps, Turns DEF FullSyncTable
<1>6. CASE step = 2
    BY <1>1, <1>2, <1>6, FullSyncSteps, Turns DEF FullSyncTable
<1>7. CASE step \in 3 .. 5
    BY <1>1, <1>2, <1>7, FullSyncSteps, Turns DEF FullSyncTable
<1>8. CASE step = 6
    BY <1>1, <1>2, <1>8, FullSyncSteps, Turns DEF FullSyncTable
<1>9. CASE step = 7
    BY <1>1, <1>2, <1>9, FullSyncSteps, Turns DEF FullSyncTable
<1>10. CASE step \in 8 .. 9
    BY <1>1, <1>2, <1>10, FullSyncSteps, Turns DEF FullSyncTable, Saw, Lost, Same
<1> QED
    BY <1>3, <1>5, <1>6, <1>7, <1>8, <1>9, <1>10

LEMMA IncrementalSyncTurn ==
    ASSUME DriverInv, DataInv, pc = "job", pc' = "job", DriverStep,
           Case.name = "incremental_sync", IncrementalSyncTable
    PROVE  IncrementalSyncTable'
<1>1. Selected /\ step \in 1 .. Len(Case.script) /\ step' = step + 1 /\ Step = Case.script[step]
    BY Turns DEF Step
<1>2. Case.script = IncrementalSyncOnce
    BY <1>1, SixCases
<1>3. step \in 1 .. 11
    BY <1>1, <1>2, Turns, IncrementalSyncSteps DEF Do
<1> USE DEF Start, Set, Do, WaitValue
<1>4. CASE step = 1
    BY <1>1, <1>2, <1>4, IncrementalSyncSteps, Turns DEF IncrementalSyncTable
<1>5. CASE step = 2
    BY <1>1, <1>2, <1>5, IncrementalSyncSteps, Turns DEF IncrementalSyncTable
<1>6. CASE step \in 3 .. 5
    BY <1>1, <1>2, <1>6, IncrementalSyncSteps, Turns DEF IncrementalSyncTable
<1>7. CASE step = 6
    BY <1>1, <1>2, <1>7, IncrementalSyncSteps, Turns DEF IncrementalSyncTable
<1>8. CASE step \in 7 .. 8
    BY <1>1, <1>2, <1>8, IncrementalSyncSteps, Turns DEF IncrementalSyncTable, Same, KeyIs
<1>9. CASE step = 9
  <2>1. /\ since' = (IF link = "configured" THEN {"down"} ELSE {})
        /\ link \in {"configured", "connected"} /\ UNCHANGED <<proc, store, log, link>>
        /\ step' = 10 /\ Same /\ KeyIs("value") /\ proc["server"] = "up" /\ proc["replica"] = "up"
      BY <1>1, <1>2, <1>9, IncrementalSyncSteps, Turns DEF IncrementalSyncTable
  <2>2. Saw({})'
      BY <2>1 DEF Saw, Lost
  <2>3. Same' /\ KeyIs("value")'
      BY <2>1 DEF Same, KeyIs, Word
  <2> QED
      BY <2>1, <2>2, <2>3 DEF IncrementalSyncTable
<1>10. CASE step = 10
  <2>1. /\ Happened({"set"}) /\ UNCHANGED <<proc, link>> /\ store'["replica"] = store["replica"]
        /\ proc["server"] = "up" /\ proc["replica"] = "up" /\ KeyIs("value")
        /\ Saw({}) /\ step' = 11 /\ link \in {"configured", "connected"}
      BY <1>1, <1>2, <1>10, IncrementalSyncSteps, Turns DEF IncrementalSyncTable
  <2>2. Saw({} \cup {"set"})'
      BY <2>1, Seen
  <2>3. {} \cup {"set"} = {"set"} /\ KeyIs("value")'
      BY <2>1 DEF KeyIs, Word
  <2>4. Saw({"set"})'
      BY <2>2, <2>3
  <2> QED
      BY <2>1, <2>3, <2>4 DEF IncrementalSyncTable
<1>11. CASE step = 11
  <2>1. /\ KeyIs("newer") /\ UNCHANGED <<proc, store, link, since>> /\ step' = 12
        /\ link \in {"configured", "connected"} /\ proc["server"] = "up" /\ proc["replica"] = "up"
        /\ (Saw({"set"}) /\ KeyIs("value")) \/ (Reached({"set"}) /\ Same)
      BY <1>1, <1>2, <1>11, IncrementalSyncSteps, Turns DEF IncrementalSyncTable
  <2>2. ~KeyIs("value")
      BY <2>1 DEF KeyIs
  <2>3. Reached({"set"})' /\ Same'
      BY <2>1, <2>2 DEF Reached, Saw, Lost, Same
  <2> QED
      BY <2>1, <2>3 DEF IncrementalSyncTable
<1> QED
    BY <1>3, <1>4, <1>5, <1>6, <1>7, <1>8, <1>9, <1>10, <1>11

LEMMA ReconnectTurn ==
    ASSUME DriverInv, DataInv, pc = "job", pc' = "job", DriverStep,
           Case.name = "reconnect_recovery", ReconnectTable
    PROVE  ReconnectTable'
<1>1. Selected /\ step \in 1 .. Len(Case.script) /\ step' = step + 1 /\ Step = Case.script[step]
    BY Turns DEF Step
<1>2. Case.script = ReconnectOnce
    BY <1>1, SixCases
<1>3. step \in 1 .. 15
    BY <1>1, <1>2, Turns, ReconnectSteps DEF Do
<1>a. proc \in [Roles -> {"none", "loading", "up"}]
    BY DEF DriverInv, ControlInv
<1> USE DEF Start, Set, Do, WaitValue
<1>4. CASE step = 1
    BY <1>1, <1>2, <1>4, ReconnectSteps, Turns DEF ReconnectTable
<1>5. CASE step = 2
    BY <1>1, <1>2, <1>5, ReconnectSteps, Turns DEF ReconnectTable
<1>6. CASE step \in 3 .. 5
    BY <1>1, <1>2, <1>6, ReconnectSteps, Turns DEF ReconnectTable
<1>7. CASE step = 6
    BY <1>1, <1>2, <1>7, ReconnectSteps, Turns DEF ReconnectTable
<1>8. CASE step \in 7 .. 8
    BY <1>1, <1>2, <1>8, ReconnectSteps, Turns DEF ReconnectTable, Same
<1>9. CASE step = 9
  <2>1. /\ proc' = [proc EXCEPT !["server"] = "none"] /\ step' = 10 /\ proc["replica"] = "up"
        /\ link \in {"configured", "connected"} /\ link' = link
      BY <1>1, <1>2, <1>9, ReconnectSteps, Turns DEF ReconnectTable
  <2>2. proc'["server"] = "none" /\ proc'["replica"] = "up"
      BY <1>a, <2>1, ServerIn
  <2> QED
      BY <2>1, <2>2 DEF ReconnectTable
<1>10. CASE step \in 10 .. 11
    BY <1>1, <1>2, <1>10, ReconnectSteps, Turns DEF ReconnectTable
<1>11. CASE step = 12
  <2>1. /\ proc' = [proc EXCEPT !["server"] = "loading"] /\ Happened({"started"}) /\ link' = link
        /\ step' = 13 /\ proc["replica"] = "up" /\ link = "configured" /\ since = {"down"}
      BY <1>1, <1>2, <1>11, ReconnectSteps, Turns DEF ReconnectTable
  <2>2. proc'["server"] = "loading" /\ proc'["replica"] = "up"
      BY <1>a, <2>1, ServerIn
  <2>3. since' = {"down", "started"}
      BY <2>1 DEF Happened, Off
  <2> QED
      BY <2>1, <2>2, <2>3 DEF ReconnectTable
<1>12. CASE step = 13
  <2>1. /\ UNCHANGED <<proc, store, log, link, since>> /\ step' = 14 /\ link = "connected"
        /\ proc["replica"] = "up"
      BY <1>1, <1>2, <1>12, ReconnectSteps, Turns DEF ReconnectTable
  <2>2. /\ proc["server"] = "up" /\ Saw({"down", "started", "linked"}) /\ Same
        /\ AllOwn(log) => Word(store["server"], "key") # "after"
      BY <1>12, <2>1 DEF ReconnectTable
  <2>3. AllOwn(log) => ~KeyIs("after")
      BY <2>2 DEF Same, KeyIs
  <2>4. Saw({"down", "started", "linked"})' /\ Same' /\ (AllOwn(log') => ~KeyIs("after")')
      BY <2>1, <2>2, <2>3 DEF Saw, Lost, Same, KeyIs, Word
  <2> QED
      BY <2>1, <2>2, <2>4 DEF ReconnectTable
<1>13. CASE step = 14
  <2>1. /\ Happened({"set"}) /\ UNCHANGED <<proc, link>> /\ store'["replica"] = store["replica"]
        /\ (AllOwn(log') => AllOwn(log)) /\ step' = 15
        /\ proc["server"] = "up" /\ proc["replica"] = "up" /\ link \in {"configured", "connected"}
        /\ Saw({"down", "started", "linked"}) /\ (AllOwn(log) => ~KeyIs("after"))
      BY <1>1, <1>2, <1>13, ReconnectSteps, Turns DEF ReconnectTable
  <2>2. Saw({"down", "started", "linked"} \cup {"set"})'
      BY <2>1, Seen
  <2>3. {"down", "started", "linked"} \cup {"set"} = Whole
      BY DEF Whole
  <2>4. Saw(Whole)' /\ (AllOwn(log') => ~KeyIs("after")')
      BY <2>1, <2>2, <2>3 DEF KeyIs, Word
  <2> QED
      BY <2>1, <2>4 DEF ReconnectTable
<1>14. CASE step = 15
  <2>1. /\ UNCHANGED <<proc, store, log, link, since>> /\ step' = 16 /\ KeyIs("after")
        /\ proc["server"] = "up" /\ proc["replica"] = "up" /\ link \in {"configured", "connected"}
        /\ AllOwn(log) => Reached(Whole) /\ Same
      BY <1>1, <1>2, <1>14, ReconnectSteps, Turns DEF ReconnectTable
  <2>2. AllOwn(log') => Reached(Whole)' /\ Same'
      BY <2>1 DEF Reached, Saw, Lost, Same
  <2> QED
      BY <2>1, <2>2 DEF ReconnectTable
<1> QED
    BY <1>3, <1>4, <1>5, <1>6, <1>7, <1>8, <1>9, <1>10, <1>11, <1>12, <1>13, <1>14

-----------------------------------------------------------------------------
(* What the servers do meanwhile.                                          *)
LEMMA LogGrowsOwn ==
    ASSUME DriverInv, DataInv, WordsInv, pc = "job", step >= 2, Flush
    PROVE  AllOwn(log') <=> AllOwn(log)
BY JoinedWrites DEF Flush, DataInv, WordsInv

LEMMA LoadedMaster ==
    ASSUME DriverInv, DataInv, WordsInv, pc = "job", step = 13, AllOwn(log), Load("server")
    PROVE  Word(store'["server"], "key") # "after"
<1>1. store' = [store EXCEPT !["server"] = Recovered(log)]
    BY DEF Load
<1>2. store'["server"] = Recovered(log)
    BY <1>1, ServerIn DEF DataInv
<1>3. OwnBefore(log)
    BY DEF WordsInv, Late
<1>4. NoAfter(Recovered(log))
    BY <1>3, NoAfterRecovered DEF DataInv
<1> QED
    BY <1>2, <1>4 DEF NoAfter, Keys

LEMMA Meanwhile ==
    ASSUME ServerStep \/ UNCHANGED vars
    PROVE  UNCHANGED <<pc, suite, impls, job, step, sent>> /\ Case' = Case /\ Impl' = Impl
<1>1. UNCHANGED <<pc, suite, impls, job, step, sent>>
    BY DEF ServerStep, Load, Flush, LinkUp, Poll, PollFails, LinkLost, driver, history, vars
<1> QED
    BY <1>1, SameCase

LEMMA FullSyncAside ==
    ASSUME DriverInv, DataInv, WordsInv, pc = "job", Selected, Case.name = "full_sync",
           FullSyncTable, ServerStep
    PROVE  FullSyncTable'
<1>1. step' = step /\ step \in Nat /\ proc \in [Roles -> {"none", "loading", "up"}]
      /\ store \in [Roles -> Data] /\ step \in 1 .. Len(Case.script) /\ step >= 1
    BY Meanwhile, Course DEF DriverInv, ControlInv, DataInv
<1> USE ServerIn
<1>2. ASSUME NEW r \in Roles, Load(r)
      PROVE  FullSyncTable'
  <2>1. /\ proc[r] = "loading" /\ proc' = [proc EXCEPT ![r] = "up"] /\ UNCHANGED <<link, since>>
      BY <1>2 DEF Load, history
  <2>2. /\ \A q \in Roles : proc[q] = "up" => proc'[q] = "up"
        /\ step < 8
      BY <1>1, <2>1 DEF FullSyncTable, Roles
  <2> QED
      BY <1>1, <2>1, <2>2 DEF FullSyncTable
<1>3. CASE Flush
    BY <1>1, <1>3 DEF Flush, FullSyncTable, Saw, Lost, Same, history
<1>4. CASE LinkUp
  <2>1. /\ link = "configured" /\ link' = "connected" /\ Happened({"linked"}) /\ proc' = proc
        /\ store' = [store EXCEPT !["replica"] = store["server"]]
      BY <1>4 DEF LinkUp
  <2>2. step = 1 \/ (step = 8 /\ since = {}) \/ (step >= 8 /\ Saw({"linked"}))
      BY <1>1, <2>1 DEF FullSyncTable
  <2>3. Same'
      BY <1>1, <2>1 DEF Same
  <2>4. step = 8 /\ since = {} => Saw({"linked"})'
      BY <2>1 DEF Happened, Off, Saw
  <2>5. Saw({"linked"}) => Saw({"linked"})'
      BY <2>1, Seen
  <2> QED
      BY <1>1, <2>1, <2>2, <2>3, <2>4, <2>5 DEF FullSyncTable
<1>5. CASE Poll \/ PollFails
  <2>1. link = "connected" /\ ~Same
      BY <1>5 DEF Poll, PollFails, Same
  <2>2. step = 1
      BY <1>1, <2>1 DEF FullSyncTable
  <2> QED
      BY <1>1, <2>2 DEF FullSyncTable
<1>6. CASE LinkLost
  <2>1. link = "connected" /\ Happened({"lost"}) /\ UNCHANGED <<proc, store>>
      BY <1>6 DEF LinkLost
  <2>2. step = 1 \/ (step >= 8 /\ Saw({"linked"}) /\ Same)
      BY <1>1, <2>1 DEF FullSyncTable
  <2>3. Saw({"linked"}) => Saw({"linked"})'
      BY <2>1, Seen
  <2> QED
      BY <1>1, <2>1, <2>2, <2>3 DEF FullSyncTable, Same
<1> QED
    BY <1>2, <1>3, <1>4, <1>5, <1>6 DEF ServerStep

LEMMA IncrementalSyncAside ==
    ASSUME DriverInv, DataInv, WordsInv, pc = "job", Selected,
           Case.name = "incremental_sync", IncrementalSyncTable, ServerStep
    PROVE  IncrementalSyncTable'
<1>0. Len(Case.script) = 12
    BY SixCases, IncrementalSyncSteps
<1>1. step' = step /\ step \in Nat /\ proc \in [Roles -> {"none", "loading", "up"}]
      /\ store \in [Roles -> Data] /\ step >= 1 /\ step <= 12
    BY <1>0, Meanwhile DEF DriverInv, ControlInv, DataInv
<1> USE ServerIn
<1>2. ASSUME NEW r \in Roles, Load(r)
      PROVE  IncrementalSyncTable'
  <2>1. /\ proc[r] = "loading" /\ proc' = [proc EXCEPT ![r] = "up"] /\ UNCHANGED <<link, since>>
      BY <1>2 DEF Load, history
  <2>2. /\ \A q \in Roles : proc[q] = "up" => proc'[q] = "up"
        /\ step < 7
      BY <1>1, <2>1 DEF IncrementalSyncTable, Roles
  <2> QED
      BY <1>1, <2>1, <2>2 DEF IncrementalSyncTable
<1>3. CASE Flush
  <2>1. UNCHANGED <<proc, store, link, since>>
      BY <1>3 DEF Flush, history
  <2> QED
      BY <1>1, <2>1 DEF IncrementalSyncTable, Reached, Saw, Lost, Same, KeyIs, Word
<1>4. CASE LinkUp
  <2>1. /\ link = "configured" /\ link' = "connected" /\ proc' = proc /\ Happened({"linked"})
        /\ store' = [store EXCEPT !["replica"] = store["server"]]
      BY <1>4 DEF LinkUp
  <2>2. Same' /\ (Same => store' = store)
      BY <1>1, <2>1 DEF Same
  <2>3. /\ Saw({}) => Saw({})'
        /\ Saw({"set"}) => Reached({"set"})'
        /\ Reached({"set"}) => Reached({"set"})'
      BY <2>1, Seen, StillReached
  <2>4. step \in 9 .. 10 => KeyIs("value")'
      BY <1>1, <2>2 DEF IncrementalSyncTable, KeyIs, Word
  <2>5. step = 1 \/ step >= 7
      BY <1>1, <2>1 DEF IncrementalSyncTable
  <2> QED
      BY <1>1, <2>1, <2>2, <2>3, <2>4, <2>5 DEF IncrementalSyncTable
<1>5. CASE Poll \/ PollFails
  <2>1. /\ link = "connected" /\ ~Same /\ proc' = proc
        /\ store' = [store EXCEPT !["replica"] = store["server"]]
        /\ \/ Happened({"polled"}) /\ link' = link
           \/ Happened({"polled", "lost"}) /\ link' = "configured"
      BY <1>5 DEF Poll, PollFails, Same
  <2>2. step = 1 \/ (step = 11 /\ Saw({"set"}))
      BY <1>1, <2>1 DEF IncrementalSyncTable
  <2>3. Same'
      BY <1>1, <2>1 DEF Same
  <2>4. Saw({"set"}) => Reached({"set"})'
      BY <2>1, Seen
  <2> QED
      BY <1>1, <2>1, <2>2, <2>3, <2>4 DEF IncrementalSyncTable
<1>6. CASE LinkLost
  <2>1. /\ link = "connected" /\ Happened({"lost"}) /\ UNCHANGED <<proc, store>>
        /\ link' = "configured"
      BY <1>6 DEF LinkLost
  <2>2. Same' = Same /\ KeyIs("value")' = KeyIs("value")
      BY <2>1 DEF Same, KeyIs, Word
  <2>3. /\ Saw({}) => Saw({})'
        /\ Saw({"set"}) => Saw({"set"})'
        /\ Reached({"set"}) => Reached({"set"})'
      BY <2>1, Seen, StillReached
  <2>4. step = 1 \/ step >= 7
      BY <1>1, <2>1 DEF IncrementalSyncTable
  <2> QED
      BY <1>1, <2>1, <2>2, <2>3, <2>4 DEF IncrementalSyncTable
<1> QED
    BY <1>2, <1>3, <1>4, <1>5, <1>6 DEF ServerStep

LEMMA ReconnectAside ==
    ASSUME DriverInv, DataInv, WordsInv, pc = "job", Selected,
           Case.name = "reconnect_recovery", ReconnectTable, ServerStep
    PROVE  ReconnectTable'
<1>0. Len(Case.script) = 16
    BY SixCases, ReconnectSteps
<1>1. step' = step /\ step \in Nat /\ proc \in [Roles -> {"none", "loading", "up"}]
      /\ store \in [Roles -> Data] /\ step >= 1 /\ step <= 16
    BY SMTT(30), <1>0, Meanwhile DEF DriverInv, ControlInv, DataInv
<1> USE ServerIn
<1>2. CASE Load("server")
  <2>1. /\ proc["server"] = "loading" /\ proc' = [proc EXCEPT !["server"] = "up"]
        /\ UNCHANGED <<link, since, log>>
      BY <1>2 DEF Load, history
  <2>2. /\ proc'["server"] = "up" /\ proc'["replica"] = proc["replica"]
        /\ step <= 3 \/ (step = 13 /\ link = "configured" /\ since = {"down", "started"})
      BY <1>1, <2>1 DEF ReconnectTable
  <2>3. step = 13 /\ AllOwn(log') => Word(store'["server"], "key") # "after"
      BY <1>2, <2>1, LoadedMaster
  <2>4. CASE step <= 3
      BY <1>1, <2>1, <2>4 DEF ReconnectTable
  <2>5. CASE step = 13 /\ link = "configured" /\ since = {"down", "started"}
    <3>1. Word(store["server"], "key")' = Word(store'["server"], "key")
        BY DEF Word
    <3> QED
        BY <1>1, <2>1, <2>2, <2>3, <2>5, <3>1 DEF ReconnectTable
  <2> QED
      BY <2>2, <2>4, <2>5
<1>3. CASE Load("replica")
  <2>1. /\ proc["replica"] = "loading" /\ UNCHANGED <<link, since, log>>
        /\ proc' = [proc EXCEPT !["replica"] = "up"]
      BY <1>3 DEF Load, history
  <2>2. step < 7 /\ proc'["server"] = proc["server"]
      BY <1>1, <2>1 DEF ReconnectTable
  <2> QED
      BY <1>1, <2>1, <2>2 DEF ReconnectTable
<1>4. CASE Flush
  <2>1. UNCHANGED <<proc, store, link, since>>
      BY <1>4 DEF Flush, history
  <2>2. step >= 2 => (AllOwn(log') <=> AllOwn(log))
      BY <1>4, LogGrowsOwn
  <2>3. CASE step >= 2
    <3>1. (AllOwn(log) <=> AllOwn(log')) /\ Same' = Same /\ KeyIs("after")' = KeyIs("after")
        BY <2>1, <2>2, <2>3 DEF Same, KeyIs, Word
    <3>2. /\ Reached(Whole) => Reached(Whole)'
          /\ \A what \in {Whole, {"down", "started", "linked"}} : Saw(what) => Saw(what)'
        BY <2>1 DEF Reached, Saw, Lost
    <3> QED
        BY <1>1, <2>1, <3>1, <3>2 DEF ReconnectTable, Word
  <2>4. CASE step = 1
      BY <1>1, <2>4 DEF ReconnectTable
  <2> QED
      BY <1>1, <2>3, <2>4
<1>5. CASE LinkUp
  <2>1. /\ link = "configured" /\ link' = "connected" /\ Happened({"linked"})
        /\ UNCHANGED <<proc, log>> /\ proc["server"] = "up"
        /\ store' = [store EXCEPT !["replica"] = store["server"]]
      BY <1>1, <1>5 DEF LinkUp
  <2>2. step = 1 \/ step \in 7 .. 9 \/ step >= 13
      BY <1>1, <2>1 DEF ReconnectTable
  <2>3. Same' /\ (Same => store' = store) /\ store'["server"] = store["server"]
      BY <1>1, <2>1 DEF Same
  <2>4. CASE step = 13
    <3>1. Word(store["server"], "key")' = Word(store["server"], "key")
        BY <2>3 DEF Word
    <3>2. since = {"down", "started"} => Saw({"down", "started", "linked"})'
        BY <2>1 DEF Happened, Off, Saw
    <3>3. Saw({"down", "started", "linked"}) => Saw({"down", "started", "linked"})'
        BY <2>1, Seen
    <3> QED
        BY <1>1, <2>1, <2>3, <2>4, <3>1, <3>2, <3>3 DEF ReconnectTable
  <2>5. CASE step = 14
    <3>1. Saw({"down", "started", "linked"}) => Saw({"down", "started", "linked"})'
        BY <2>1, Seen
    <3>2. AllOwn(log') => ~KeyIs("after")'
        BY <2>1, <2>3, <2>5 DEF ReconnectTable, KeyIs, Word
    <3> QED
        BY <1>1, <2>1, <2>3, <2>5, <3>1, <3>2 DEF ReconnectTable
  <2>6. CASE step >= 15
    <3>1. /\ Saw(Whole) => Reached(Whole)'
          /\ Reached(Whole) => Reached(Whole)'
        BY <2>1, Seen, StillReached DEF Whole
    <3> QED
        BY <1>1, <2>1, <2>3, <2>6, <3>1 DEF ReconnectTable
  <2> QED
      BY <1>1, <2>1, <2>2, <2>3, <2>4, <2>5, <2>6 DEF ReconnectTable
<1>6. CASE Poll \/ PollFails
  <2>1. /\ link = "connected" /\ ~Same /\ UNCHANGED <<proc, log>> /\ proc["server"] = "up"
        /\ store' = [store EXCEPT !["replica"] = store["server"]]
        /\ \/ Happened({"polled"}) /\ link' = link
           \/ Happened({"polled", "lost"}) /\ link' = "configured"
      BY <1>1, <1>6 DEF Poll, PollFails, Same
  <2>2. /\ step = 1 \/ step >= 15
        /\ step = 15 /\ AllOwn(log) => Saw(Whole)
        /\ step = 16 => ~AllOwn(log)
      BY <1>1, <2>1 DEF ReconnectTable
  <2>3. Same'
      BY <1>1, <2>1 DEF Same
  <2>4. Saw(Whole) => Reached(Whole)'
      BY <2>1, Seen DEF Whole
  <2> QED
      BY <1>1, <2>1, <2>2, <2>3, <2>4 DEF ReconnectTable
<1>7. CASE LinkLost
  <2>1. /\ link = "connected" /\ Happened({"lost"}) /\ link' = "configured"
        /\ UNCHANGED <<proc, store, log>>
      BY <1>7 DEF LinkLost
  <2>2. step = 1 \/ step \in 7 .. 10 \/ step >= 13
      BY <1>1, <2>1 DEF ReconnectTable
  <2>3. /\ Same' = Same /\ KeyIs("after")' = KeyIs("after")
        /\ Word(store["server"], "key")' = Word(store["server"], "key")
      BY <2>1 DEF Same, KeyIs, Word
  <2>4. /\ Saw({"down", "started", "linked"}) => Saw({"down", "started", "linked"})'
        /\ Saw(Whole) => Saw(Whole)'
        /\ Reached(Whole) => Reached(Whole)'
      BY <2>1, Seen, StillReached DEF Whole
  <2> QED
      BY <1>1, <2>1, <2>2, <2>3, <2>4 DEF ReconnectTable
<1> QED
    BY <1>2, <1>3, <1>4, <1>5, <1>6, <1>7 DEF ServerStep, Roles

LEMMA PersistenceAside ==
    ASSUME DriverInv, pc = "job", PersistenceTable, ServerStep
    PROVE  PersistenceTable'
<1>1. step' = step /\ Case' = Case /\ step \in Nat /\ step >= 1
    BY Meanwhile, Course DEF DriverInv, ControlInv
<1>2. CASE (\E r \in Roles : Load(r)) \/ Flush
  <2>1. UNCHANGED <<link, since>>
      BY <1>2 DEF Load, Flush, history
  <2> QED
      BY <1>1, <2>1 DEF PersistenceTable
<1>3. CASE LinkUp \/ Poll \/ PollFails \/ LinkLost
  <2>1. link # "none"
      BY <1>3 DEF LinkUp, Poll, PollFails, LinkLost
  <2>2. step = 1
      BY <1>1, <2>1 DEF PersistenceTable
  <2> QED
      BY <1>1, <2>2 DEF PersistenceTable
<1> QED
    BY <1>2, <1>3 DEF ServerStep

LEMMA TableAtOne ==
    step = 1 => PersistenceTable /\ FullSyncTable /\ IncrementalSyncTable /\ ReconnectTable
BY DEF PersistenceTable, FullSyncTable, IncrementalSyncTable, ReconnectTable

LEMMA TableInit == Init => TableInv
BY DEF Init, TableInv

LEMMA TableNext ==
    DriverInv /\ DataInv /\ WordsInv /\ TableInv /\ [Next]_vars => TableInv'
<1> SUFFICES ASSUME DriverInv, DataInv, WordsInv, TableInv, [Next]_vars, pc' = "job"
             PROVE  TableInv'
    BY DEF TableInv
<1>1. (step = 1 => PersistenceTable /\ FullSyncTable /\ IncrementalSyncTable /\ ReconnectTable)'
    BY TableAtOne, PTL
<1>2. ASSUME step' = 1
      PROVE  TableInv'
    BY <1>1, <1>2 DEF TableInv
<1>3. ASSUME pc = "job", ServerStep
      PROVE  TableInv'
  <2>1. Case' = Case /\ suite' = suite /\ Selected
      BY <1>3, Meanwhile DEF DriverInv, ControlInv
  <2> QED
      BY <1>3, <2>1, PersistenceAside, FullSyncAside, IncrementalSyncAside, ReconnectAside
         DEF TableInv
<1>4. ASSUME pc = "job", DriverStep
      PROVE  TableInv'
  <2>1. Case' = Case /\ suite' = suite
      BY <1>4, Turns
  <2> QED
      BY <1>4, <2>1, PersistenceTurn, FullSyncTurn, IncrementalSyncTurn, ReconnectTurn
         DEF TableInv
<1>5. ASSUME pc # "job", DriverStep
      PROVE  step' = 1
  <2>1. NextRound \/ NextJob
      BY <1>5 DEF DriverStep, StartFresh, StartExisting, SetKey, SaveRdb, ReplicaOf, Wait,
                  WaitConnected, WaitDisconnected, WaitForValue, CheckRecovered, StopMaster,
                  ReadClock, TakeSample, Raise, StopProcess, CleanUp, At, Advance
  <2> QED
      BY <2>1 DEF NextRound, NextJob, DriverInv, ControlInv
<1>6. ASSUME UNCHANGED vars
      PROVE  TableInv'
    BY SMTT(30), <1>6 DEF vars, driver, servers, history, TableInv, PersistenceTable, FullSyncTable,
                IncrementalSyncTable, ReconnectTable, Reached, Saw, Lost, Same, KeyIs, Word,
                Case, Cases
<1>7. ASSUME pc # "job", ServerStep
      PROVE  FALSE
    BY <1>7, Meanwhile
<1>8. \A s \in Suites, i \in Impls : Main(s, i) => step' = 1
    BY DEF Main
<1>9. ~Killed
    BY DEF Killed
<1> QED
    BY <1>2, <1>3, <1>4, <1>5, <1>6, <1>7, <1>8, <1>9 DEF Next, Suites, Impls

LEMMA RealSample == DriverInv /\ DataInv /\ TableInv => SampleIsReal
<1> SUFFICES ASSUME DriverInv, DataInv, TableInv, At("sample"), suite = "replication" => ~OldLog
             PROVE  since = Measured[Case.name] \/ (Disturbed /\ Meant)
    BY DEF SampleIsReal
<1>1. pc = "job" /\ Step.do = "sample"
    BY DEF At
<1>2. Selected /\ step = Len(Case.script)
    BY <1>1, Course DEF DriverInv, ControlInv, Step
<1>3. suite = "replication" => AllOwn(log)
  <2>1. DOMAIN log = 1 .. Len(log)
      BY LenProperties DEF DataInv
  <2> QED
      BY <2>1 DEF OldLog, AllOwn
<1>4. CASE suite = "persistence"
  <2>1. PersistenceTable
      BY <1>1, <1>4 DEF TableInv
  <2>2. CASE Case.name = "save" /\ Case.script = SaveOnce
      BY <1>2, <2>1, <2>2, SaveSteps DEF PersistenceTable, Measured
  <2>3. CASE Case.name = "restart_recovery_aof" /\ Case.script = RecoveryAofOnce
      BY <1>2, <2>1, <2>3, RecoveryAofSteps DEF PersistenceTable, Measured
  <2>4. CASE Case.name = "restart_recovery_rdb_aof" /\ Case.script = RecoveryRdbAofOnce
      BY <1>2, <2>1, <2>4, RecoveryRdbAofSteps DEF PersistenceTable, Measured
  <2> QED
      BY <1>2, <1>4, <2>2, <2>3, <2>4, SixCases
<1>5. CASE Case.name = "full_sync" /\ Case.script = FullSyncOnce
  <2>1. Saw({"linked"})
      BY <1>1, <1>2, <1>5, FullSyncSteps DEF TableInv, FullSyncTable
  <2>2. Measured[Case.name] = {"linked"}
      BY <1>5 DEF Measured
  <2> QED
      BY <2>1, <2>2 DEF Saw, Lost, Disturbed, Meant
<1>6. CASE Case.name = "incremental_sync" /\ Case.script = IncrementalSyncOnce
  <2>1. Reached({"set"})
      BY <1>1, <1>2, <1>6, IncrementalSyncSteps DEF TableInv, IncrementalSyncTable
  <2>2. Measured[Case.name] = {"set", "polled"}
      BY <1>6 DEF Measured
  <2> QED
      BY <2>1, <2>2 DEF Reached, Saw, Lost, Disturbed, Meant
<1>7. CASE suite = "replication" /\ Case.name = "reconnect_recovery" /\ Case.script = ReconnectOnce
  <2>1. Reached(Whole)
      BY <1>1, <1>2, <1>3, <1>7, ReconnectSteps DEF TableInv, ReconnectTable
  <2>2. Measured[Case.name] = {"down", "started", "linked", "set", "polled"}
      BY <1>7 DEF Measured
  <2> QED
      BY <2>1, <2>2 DEF Reached, Saw, Lost, Whole, Disturbed, Meant
<1> QED
    BY <1>2, <1>4, <1>5, <1>6, <1>7, SixCases

(* A sample is taken when what its case is named for has happened since    *)
(* the clock was read, and nothing else but losses of the link by itself.  *)
THEOREM SamplesAreReal == Spec => []SampleIsReal
BY DriverInit, DriverNext, DataInit, DataNext, WordsInit, WordsNext, TableInit, TableNext,
   RealSample, PTL DEF Spec

-----------------------------------------------------------------------------
(* What the servers hold of what the run wrote.                            *)
Keeps(written, data) == \A k \in Keys : written[k] # Absent => data[k] = written[k]

LEMMA KeepsWritten ==
    ASSUME NEW s \in Data, NEW d \in Data, NEW w \in Write, Keeps(s, d)
    PROVE  Keeps(Written(s, w), Written(d, w))
<1>1. /\ Written(s, w)[w.key] = [word |-> w.word, own |-> w.own]
      /\ \A k \in Keys : k # w.key => Written(s, w)[k] = s[k]
    BY WrittenIs
<1>2. /\ Written(d, w)[w.key] = [word |-> w.word, own |-> w.own]
      /\ \A k \in Keys : k # w.key => Written(d, w)[k] = d[k]
    BY WrittenIs
<1> QED
    BY <1>1, <1>2 DEF Keeps

LEMMA KeepsEmpty == \A d : Keeps(Empty, d)
BY DEF Keeps, Empty

(* The persistence benchmark of redis-uya, write by write.                 *)
Mine(key, word) == [key |-> key, word |-> word, own |-> TRUE]
Planned(n) ==
    IF n = 1 THEN Mine("first", "x") ELSE IF n = 2 THEN Mine("last", "x")
    ELSE IF n = 3 THEN Mine("key", "base") ELSE IF n = 4 THEN Mine("key", "newer")
    ELSE Mine("extra", "value")
Over(d, n) ==
    LET one == Written(d, Planned(1))
        two == Written(one, Planned(2))
        three == Written(two, Planned(3))
        four == Written(three, Planned(4))
        five == Written(four, Planned(5))
    IN  IF n = 0 THEN d ELSE IF n = 1 THEN one ELSE IF n = 2 THEN two ELSE IF n = 3 THEN three
        ELSE IF n = 4 THEN four ELSE five

LEMMA PlannedTyped == \A n \in 1 .. 5 : Planned(n) \in Write
BY DEF Planned, Mine, Write, Keys, Words

LEMMA OverStep ==
    ASSUME NEW d, NEW n \in 0 .. 4
    PROVE  Over(d, n + 1) = Written(Over(d, n), Planned(n + 1))
<1>1. CASE n = 0
    BY <1>1 DEF Over
<1>2. CASE n = 1
    BY <1>2 DEF Over
<1>3. CASE n = 2
    BY <1>3 DEF Over
<1>4. CASE n = 3
    BY <1>4 DEF Over
<1>5. CASE n = 4
    BY <1>5 DEF Over
<1> QED
    BY <1>1, <1>2, <1>3, <1>4, <1>5

LEMMA OverTyped == \A d \in Data : \A n \in 0 .. 5 : Over(d, n) \in Data
<1> TAKE d \in Data
<1>0. Over(d, 0) = d
    BY DEF Over
<1>1. \A n \in 0 .. 4 : Over(d, n) \in Data => Over(d, n + 1) \in Data
  <2> TAKE n \in 0 .. 4
  <2> HAVE Over(d, n) \in Data
  <2>1. Planned(n + 1) \in Write
      BY PlannedTyped
  <2> QED
      BY <2>1, OverStep, WrittenIs
<1> QED
    BY <1>0, <1>1

(* What a log that is a prefix of the plan recovers.                       *)
LEMMA ReplayedPlan ==
    ASSUME NEW d, NEW s \in Seq(Write), Len(s) <= 5, \A i \in 1 .. Len(s) : s[i] = Planned(i)
    PROVE  Replayed(s, d) = Over(d, Len(s))
<1> DEFINE N == Len(s)
<1>1. N \in Nat /\ DOMAIN s = 1..N /\ N <= 5 /\ \A i \in 1 .. N : s[i] = Planned(i)
    BY LenProperties
<1> HIDE DEF N
<1>2. PICK h : Traces(h, d, s, N) /\ Replayed(s, d) = h[N]
    BY <1>1, ReplayedTraces
<1> DEFINE H == {n \in Nat : h[n] = Over(d, n)}
<1>3. 0 \in H
    BY <1>2 DEF Traces, Over
<1>4. ASSUME NEW n \in Nat, n \in H, n < N PROVE n + 1 \in H
  <2>1. n + 1 \in 1..N /\ (n + 1) - 1 = n /\ n + 1 \in Nat /\ n \in 0 .. 4
      BY <1>1, <1>4
  <2>2. h[n + 1] = Written(h[n], s[n + 1]) /\ h[n] = Over(d, n)
      BY <1>2, <1>4, <2>1 DEF Traces
  <2>3. Over(d, n + 1) = Written(Over(d, n), Planned(n + 1))
      BY <2>1, OverStep
  <2> QED
      BY <1>1, <2>1, <2>2, <2>3
<1>5. \A n \in 0..N : n \in H
  <2> HIDE DEF H
  <2> QED
      BY <1>1, <1>3, <1>4, NumbersUpTo
<1> QED
    BY <1>1, <1>2, <1>5 DEF N

SoFar(n) == Over(Empty, n)

(* The last key of the plan is in no shorter log.                          *)
LEMMA AllOfTwo ==
    ASSUME NEW m \in 0 .. 2, Word(SoFar(m), "last") = "x"
    PROVE  m = 2
<1>1. SoFar(0) = Empty /\ SoFar(1) = Written(Empty, Mine("first", "x"))
    BY DEF SoFar, Over, Planned
<1>2. Word(SoFar(0), "last") = Absent /\ Word(SoFar(1), "last") = Absent
    BY <1>1 DEF Word, Written, Mine, Empty, Keys
<1> QED
    BY <1>2, AfterIsNot

LEMMA AllOfFive ==
    ASSUME NEW m \in 0 .. 5, Word(Over(SoFar(3), m), "extra") = "value"
    PROVE  m = 5 /\ Over(SoFar(3), m) = SoFar(5)
<1> DEFINE d == SoFar(3)
<1>1. d \in Data /\ d["extra"] = Absent
  <2>1. d \in Data
      BY EmptyIsData, OverTyped DEF SoFar
  <2>2. d["extra"] = Absent
      BY ZenonT(60) DEF SoFar, Over, Planned, Written, Mine, Empty, Keys
  <2> QED
      BY <2>1, <2>2
<1> HIDE DEF d
<1>2. \A n \in 0 .. 3 : Over(d, n)["extra"] = Absent => Over(d, n + 1)["extra"] = Absent
  <2> TAKE n \in 0 .. 3
  <2>1. Over(d, n + 1) = Written(Over(d, n), Planned(n + 1)) /\ Over(d, n) \in Data
      BY <1>1, OverStep, OverTyped
  <2>2. Planned(n + 1) \in Write /\ Planned(n + 1).key # "extra"
      BY PlannedTyped DEF Planned, Mine
  <2>3. "extra" \in Keys
      BY DEF Keys
  <2>4. \A e \in Data, w \in Write : w.key # "extra" => Written(e, w)["extra"] = e["extra"]
      BY <2>3, WrittenIs
  <2> QED
      BY <2>1, <2>2, <2>4
<1>3. Over(d, 0)["extra"] = Absent
    BY <1>1 DEF Over
<1>4. \A n \in 0 .. 4 : Over(d, n)["extra"] = Absent
    BY <1>2, <1>3
<1>5. m = 5
    BY <1>4, AfterIsNot DEF Word, d
<1>6. \A e \in Data : Over(e, 5) = [k \in Keys |-> [word |-> IF k \in {"first", "last"} THEN "x"
                                                 ELSE IF k = "key" THEN "newer" ELSE "value",
                                               own |-> TRUE]]
    BY DEF Over, Planned, Written, Mine, Data, Keys
<1> QED
    BY <1>1, <1>5, <1>6, EmptyIsData DEF d, SoFar

-----------------------------------------------------------------------------
(* While the first server runs: what it was sent is in its memory, and in  *)
(* its AOF or the buffer of it.                                            *)
Wrote(n) ==
    /\ Len(log) + Len(buf) = n
    /\ \A i \in 1 .. Len(log) : log[i] = Planned(i)
    /\ \A i \in 1 .. Len(buf) : buf[i] = Planned(Len(log) + i)
    /\ sent = SoFar(n) /\ store["server"] = SoFar(n)
    /\ n > 0 => proc["server"] = "up"
(* After it was stopped: its AOF is a prefix.                              *)
Kept(n) ==
    /\ buf = <<>> /\ Len(log) <= n /\ sent = SoFar(n)
    /\ \A i \in 1 .. Len(log) : log[i] = Planned(i)
Restored(n) == proc["server"] = "up" /\ store["server"] = SoFar(n)

(* The table of the data of each case, step by step.                       *)
SaveData ==
    /\ step = 2 => rdb = Absent
    /\ \A n \in 0 .. 2 : step = n + 2 => Wrote(n)
    /\ step > 4 => Wrote(2)
AofData ==
    /\ rdb = Absent
    /\ \A n \in 0 .. 2 : step = n + 2 => Wrote(n)
    /\ step > 4 => Kept(2)
    /\ step \in 5 .. 6 => proc["server"] = "none"
    /\ step = 7 /\ proc["server"] = "up" => store["server"] = Recovered(log)
    /\ step = 8 => Restored(2)
RdbData ==
    /\ step <= 5 => rdb = Absent
    /\ step > 5 => rdb = SoFar(3)
    /\ \A n \in 0 .. 3 : step = n + 2 => Wrote(n)
    /\ \A n \in 3 .. 5 : step = n + 3 => Wrote(n)
    /\ step > 8 => Kept(5)
    /\ step \in 9 .. 10 => proc["server"] = "none"
    /\ step = 11 /\ proc["server"] = "up" => store["server"] = Recovered(log)
    /\ step = 12 => Restored(5)

(* Redis' own AOF has all the run wrote, but also what was there before.   *)
RedisData ==
    /\ buf = <<>> /\ Keeps(sent, Replayed(log, Empty))
    /\ proc["server"] = "up" => Keeps(sent, store["server"])
    /\ Case.name = "save" /\ step > 2 => proc["server"] = "up"
    /\ Case.name = "restart_recovery_aof" /\ step = 8 => proc["server"] = "up"
    /\ Case.name = "restart_recovery_rdb_aof" /\ step = 12 => proc["server"] = "up"

(* The master of a pair that is not stopped holds all that was sent.       *)
PairData ==
    /\ Keeps(sent, store["server"])
    /\ step < 4 => sent = Empty

KeptInv ==
    pc = "job" /\ step >= 2 =>
        /\ suite = "persistence" /\ Impl = "redis-uya" =>
              /\ Case.name = "save" => SaveData
              /\ Case.name = "restart_recovery_aof" => AofData
              /\ Case.name = "restart_recovery_rdb_aof" => RdbData
        /\ suite = "persistence" /\ Impl = "redis" => RedisData
        /\ Case.name \in {"full_sync", "incremental_sync"} => PairData

LEMMA WroteNothing ==
    ASSUME log' = <<>>, buf' = <<>>, sent' = Empty, store'["server"] = Empty
    PROVE  Wrote(0)'
BY DEF Wrote, SoFar, Over

LEMMA WroteMore ==
    ASSUME DataInv, NEW n \in 0 .. 4, Wrote(n), Order = Planned(n + 1), SetKey, DriverInv,
           Impl = "redis-uya"
    PROVE  Wrote(n + 1)'
<1>1. /\ Order \in Write /\ proc["server"] = "up" /\ proc' = proc /\ log' = log
      /\ store' = [store EXCEPT !["server"] = Written(@, Order)]
      /\ sent' = Written(sent, Order) /\ buf' = Append(buf, Order)
    BY SetKeyWrites
<1>2. /\ Len(log) \in Nat /\ Len(buf) \in Nat /\ Len(buf') = Len(buf) + 1
      /\ \A i \in 1 .. Len(buf) : buf'[i] = buf[i]
      /\ buf'[Len(buf) + 1] = Order
    BY <1>1, LenProperties, AppendProperties DEF DataInv
<1>3. Over(Empty, n + 1) = Written(Over(Empty, n), Planned(n + 1))
    BY OverStep
<1>4. store'["server"] = SoFar(n + 1) /\ sent' = SoFar(n + 1)
    BY <1>1, <1>3, ServerIn DEF Wrote, SoFar, DataInv
<1>5. \A i \in 1 .. Len(buf') : i \in 1 .. Len(buf) \/ i = Len(buf) + 1
    BY <1>2
<1>6. \A i \in 1 .. Len(buf') : buf'[i] = Planned(Len(log') + i)
  <2> TAKE i \in 1 .. Len(buf')
  <2>1. CASE i \in 1 .. Len(buf)
      BY <1>1, <1>2, <2>1 DEF Wrote
  <2>2. CASE i = Len(buf) + 1
    <3>1. Len(log') + i = n + 1
        BY <1>1, <1>2, <2>2 DEF Wrote
    <3> QED
        BY <1>2, <2>2, <3>1
  <2> QED
      BY <1>5, <2>1, <2>2
<1>7. Len(log') + Len(buf') = n + 1
    BY <1>1, <1>2 DEF Wrote
<1>8. \A i \in 1 .. Len(log') : log'[i] = Planned(i)
    BY <1>1 DEF Wrote
<1> QED
    BY <1>1, <1>4, <1>6, <1>7, <1>8 DEF Wrote

LEMMA WroteFlushed ==
    ASSUME DataInv, NEW n \in 0 .. 5, Wrote(n), Flush
    PROVE  Wrote(n)'
<1>1. log' = log \o buf /\ buf' = <<>> /\ UNCHANGED <<store, sent, proc>>
    BY DEF Flush, history
<1>2. log \in Seq(Write) /\ buf \in Seq(Write)
    BY DEF DataInv
<1>3. /\ Len(log) \in Nat /\ Len(buf) \in Nat /\ Len(log') = Len(log) + Len(buf)
      /\ \A i \in 1 .. Len(log) + Len(buf) :
            log'[i] = IF i <= Len(log) THEN log[i] ELSE buf[i - Len(log)]
    BY <1>1, <1>2, LenProperties, ConcatProperties
<1>4. \A i \in 1 .. Len(log') : log'[i] = Planned(i)
  <2> TAKE i \in 1 .. Len(log')
  <2>1. CASE i <= Len(log)
      BY <1>3, <2>1 DEF Wrote
  <2>2. CASE ~(i <= Len(log))
    <3>1. i - Len(log) \in 1 .. Len(buf) /\ Len(log) + (i - Len(log)) = i
        BY <1>3, <2>2
    <3>2. log'[i] = buf[i - Len(log)]
        BY <1>3, <2>2
    <3> QED
        BY <3>1, <3>2 DEF Wrote
  <2> QED
      BY <2>1, <2>2
<1>5. Len(buf') = 0 /\ Len(log') + Len(buf') = n
    BY <1>1, <1>3 DEF Wrote
<1> QED
    BY <1>1, <1>4, <1>5 DEF Wrote

LEMMA WroteStays ==
    ASSUME NEW n, Wrote(n), UNCHANGED <<log, buf, sent, store>>,
           proc'["server"] = proc["server"]
    PROVE  Wrote(n)'
BY DEF Wrote

LEMMA KeptStays ==
    ASSUME NEW n, Kept(n), UNCHANGED <<log, buf, sent>>
    PROVE  Kept(n)'
BY DEF Kept

LEMMA KeptStopped ==
    ASSUME DataInv, NEW n \in 0 .. 5, Wrote(n), UNCHANGED <<log, sent>>, buf' = <<>>
    PROVE  Kept(n)'
<1>1. Len(log) \in Nat /\ Len(buf) \in Nat
    BY LenProperties DEF DataInv
<1> QED
    BY <1>1 DEF Wrote, Kept

LEMMA KeptLog ==
    ASSUME DataInv, NEW n \in 0 .. 5, Kept(n)
    PROVE  /\ log \in Seq(Write) /\ Len(log) \in 0 .. n
           /\ \A i \in 1 .. Len(log) : log[i] = Planned(i)
<1>1. log \in Seq(Write) /\ Len(log) \in Nat
    BY LenProperties DEF DataInv
<1>2. Len(log) <= n /\ \A i \in 1 .. Len(log) : log[i] = Planned(i)
    BY DEF Kept
<1> QED
    BY <1>1, <1>2

LEMMA RecoveredStays ==
    ASSUME UNCHANGED <<log, rdb>>, Impl' = Impl
    PROVE  Recovered(log)' = Recovered(log)
BY DEF Recovered

-----------------------------------------------------------------------------
(* The driver's next step of a run, by what it does to the data.           *)
LEMMA Deeds ==
    ASSUME DriverInv, DataInv, pc = "job", pc' = "job", DriverStep
    PROVE  /\ Step.do = "start" /\ step = 1 =>
                 StartFresh /\ buf' = <<>> /\ sent' = Empty /\ store' = [r \in Roles |-> Empty]
           /\ Step.do = "start" /\ step # 1 => UNCHANGED <<store, log, buf, rdb, sent>>
           /\ Step.do = "set" => SetKey
           /\ Step.do = "save" =>
                 /\ rdb' = IF Impl = "redis-uya" THEN store["server"] ELSE rdb
                 /\ UNCHANGED <<store, log, buf, sent>>
           /\ Step.do \in {"replicaof", "clock", "connected", "disconnected", "value", "check"} =>
                 UNCHANGED <<store, log, buf, rdb, sent>>
           /\ Step.do = "check" => proc["server"] = "up" /\ AsExpected
           /\ Step.do = "stop" => buf' = <<>> /\ UNCHANGED <<store, log, rdb, sent>>
<1>1. CASE Step.do = "start" /\ step = 1 /\ StartFresh
    BY <1>1 DEF StartFresh
<1>2. CASE Step.do = "start" /\ step # 1 /\ StartExisting
    BY <1>2 DEF StartExisting
<1>3. CASE Step.do = "set" /\ SetKey
    BY <1>3
<1>4. CASE Step.do = "save" /\ SaveRdb
    BY <1>4 DEF SaveRdb
<1>5. CASE Step.do = "replicaof" /\ ReplicaOf
    BY <1>5 DEF ReplicaOf, history
<1>6. CASE Step.do \in {"connected", "disconnected", "value", "check"} /\ Wait
    BY <1>6 DEF Wait, WaitConnected, WaitDisconnected, WaitForValue, CheckRecovered, At, servers,
                history
<1>7. CASE Step.do = "stop" /\ StopMaster
    BY <1>7 DEF StopMaster, history
<1>8. CASE Step.do = "clock" /\ ReadClock
    BY <1>8 DEF ReadClock, servers
<1> QED
    BY <1>1, <1>2, <1>3, <1>4, <1>5, <1>6, <1>7, <1>8, Acts

(* The first server of the persistence benchmark of redis-uya is empty.    *)
LEMMA StartsEmpty ==
    ASSUME DriverInv, DataInv, StartFresh, suite = "persistence", Impl = "redis-uya"
    PROVE  log' = <<>> /\ rdb' = Absent
<1>1. pc = "job" /\ Step.do = "start" /\ Step.how # "existing"
    BY DEF StartFresh, At
<1>2. Selected /\ step \in 1 .. Len(Case.script) /\ Step = Case.script[step]
    BY <1>1 DEF DriverInv, ControlInv, Step
<1>3. Step.how = "fresh"
    BY <1>1, <1>2, Orders
<1> QED
    BY <1>3 DEF StartFresh, CleanupRemovesLog, CleanupRemovesRdb

LEMMA OrderIs ==
    ASSUME NEW key, NEW word, Step = Set(key, word)
    PROVE  Order = Mine(key, word)
BY DEF Order, Mine, Set

LEMMA PlannedIs ==
    /\ Planned(1) = Mine("first", "x") /\ Planned(2) = Mine("last", "x")
    /\ Planned(3) = Mine("key", "base") /\ Planned(4) = Mine("key", "newer")
    /\ Planned(5) = Mine("extra", "value")
BY DEF Planned

LEMMA SaveDataTurn ==
    ASSUME DriverInv, DataInv, pc = "job", pc' = "job", DriverStep, suite = "persistence",
           Impl = "redis-uya", Case.name = "save", step >= 2 => SaveData
    PROVE  SaveData'
<1>1. /\ Selected /\ step \in 1 .. Len(Case.script) /\ step' = step + 1
      /\ Step = Case.script[step] /\ Step.do # "sample"
    BY Turns, Acts
<1>2. Case.script = SaveOnce
    BY <1>1, SixCases
<1>3. step \in 1 .. 5
    BY <1>1, <1>2, SaveSteps DEF Do
<1> USE DEF Start, Set, Do
<1>4. CASE step = 1
  <2>1. /\ StartFresh /\ buf' = <<>> /\ sent' = Empty /\ store' = [r \in Roles |-> Empty]
      BY <1>1, <1>2, <1>4, SaveSteps, Deeds
  <2>2. log' = <<>> /\ rdb' = Absent
      BY <2>1, StartsEmpty
  <2>3. Wrote(0)'
      BY <2>1, <2>2, WroteNothing, ServerIn
  <2> QED
      BY <1>1, <1>4, <2>2, <2>3 DEF SaveData
<1>5. CASE step \in 2 .. 3
  <2>1. SetKey /\ Step = (IF step = 2 THEN Set("first", "x") ELSE Set("last", "x"))
      BY <1>1, <1>2, <1>5, SaveSteps, Deeds
  <2>2. Order = Planned((step - 2) + 1)
    <3>1. CASE step = 2
      <4>1. (step - 2) + 1 = 1 /\ Step = Set("first", "x")
          BY <2>1, <3>1
      <4> QED
          BY <4>1, OrderIs, PlannedIs
    <3>2. CASE step = 3
      <4>1. (step - 2) + 1 = 2 /\ Step = Set("last", "x")
          BY <2>1, <3>2
      <4> QED
          BY <4>1, OrderIs, PlannedIs
    <3> QED
        BY <1>5, <3>1, <3>2
  <2>3. PICK n \in 0 .. 1 : step = n + 2 /\ Wrote(n) /\ Order = Planned(n + 1)
    <3>1. step - 2 \in 0 .. 1 /\ step = (step - 2) + 2
        BY <1>5
    <3> QED
        BY <2>2, <3>1 DEF SaveData
  <2>4. Wrote(n + 1)'
      BY <2>1, <2>3, WroteMore
  <2> QED
      BY <1>1, <2>3, <2>4 DEF SaveData
<1>6. CASE step \in 4 .. 5
  <2>1. UNCHANGED <<store, log, buf, sent, proc>>
      BY <1>1, <1>2, <1>6, SaveSteps, Deeds, Turns
  <2>2. Wrote(2)
      BY <1>1, <1>6 DEF SaveData
  <2>3. Wrote(2)'
      BY <2>1, <2>2, WroteStays
  <2> QED
      BY <1>1, <1>6, <2>3 DEF SaveData
<1> QED
    BY <1>3, <1>4, <1>5, <1>6

LEMMA AofDataTurn ==
    ASSUME DriverInv, DataInv, pc = "job", pc' = "job", DriverStep, suite = "persistence",
           Impl = "redis-uya", Case.name = "restart_recovery_aof", step >= 2 => AofData
    PROVE  AofData'
<1>1. /\ Selected /\ step \in 1 .. Len(Case.script) /\ step' = step + 1 /\ Impl' = Impl
      /\ Step = Case.script[step] /\ Step.do # "sample"
      /\ proc \in [Roles -> {"none", "loading", "up"}]
    BY Turns, Acts DEF DriverInv, ControlInv
<1>2. Case.script = RecoveryAofOnce
    BY <1>1, SixCases
<1>3. step \in 1 .. 7
    BY <1>1, <1>2, RecoveryAofSteps DEF Do
<1> USE DEF Start, Set, Do, Check
<1>4. CASE step = 1
  <2>1. /\ StartFresh /\ buf' = <<>> /\ sent' = Empty /\ store' = [r \in Roles |-> Empty]
      BY <1>1, <1>2, <1>4, RecoveryAofSteps, Deeds
  <2>2. log' = <<>> /\ rdb' = Absent
      BY <2>1, StartsEmpty
  <2>3. Wrote(0)'
      BY <2>1, <2>2, WroteNothing, ServerIn
  <2> QED
      BY <1>1, <1>4, <2>2, <2>3 DEF AofData
<1>5. CASE step \in 2 .. 3
  <2>1. SetKey /\ Step = (IF step = 2 THEN Set("first", "x") ELSE Set("last", "x"))
      BY <1>1, <1>2, <1>5, RecoveryAofSteps, Deeds
  <2>2. Order = Planned((step - 2) + 1)
    <3>1. CASE step = 2
      <4>1. (step - 2) + 1 = 1 /\ Step = Set("first", "x")
          BY <2>1, <3>1
      <4> QED
          BY <4>1, OrderIs, PlannedIs
    <3>2. CASE step = 3
      <4>1. (step - 2) + 1 = 2 /\ Step = Set("last", "x")
          BY <2>1, <3>2
      <4> QED
          BY <4>1, OrderIs, PlannedIs
    <3> QED
        BY <1>5, <3>1, <3>2
  <2>3. PICK n \in 0 .. 1 : step = n + 2 /\ Wrote(n) /\ Order = Planned(n + 1)
    <3>1. step - 2 \in 0 .. 1 /\ step = (step - 2) + 2
        BY <1>5
    <3> QED
        BY <2>2, <3>1 DEF AofData
  <2>4. Wrote(n + 1)'
      BY <2>1, <2>3, WroteMore
  <2>5. rdb' = rdb
      BY <2>1, SetKeyWrites
  <2> QED
      BY <1>1, <1>5, <2>3, <2>4, <2>5 DEF AofData
<1>6. CASE step = 4
  <2>1. /\ UNCHANGED <<store, log, rdb, sent>> /\ buf' = <<>>
        /\ proc' = [proc EXCEPT !["server"] = "none"]
      BY <1>1, <1>2, <1>6, RecoveryAofSteps, Deeds, Turns
  <2>2. Wrote(2)
      BY <1>6 DEF AofData
  <2>3. Kept(2)' /\ proc'["server"] = "none"
      BY <1>1, <2>1, <2>2, KeptStopped, ServerIn
  <2> QED
      BY <1>1, <1>6, <2>1, <2>3 DEF AofData
<1>7. CASE step = 5
  <2>1. UNCHANGED <<store, log, buf, rdb, sent, proc>>
      BY <1>1, <1>2, <1>7, RecoveryAofSteps, Deeds, Turns
  <2>2. Kept(2)'
      BY <1>1, <1>7, <2>1, KeptStays DEF AofData
  <2> QED
      BY <1>1, <1>7, <2>1, <2>2 DEF AofData
<1>8. CASE step = 6
  <2>1. /\ UNCHANGED <<store, log, buf, rdb, sent>>
        /\ proc' = [proc EXCEPT !["server"] = "loading"]
      BY <1>1, <1>2, <1>8, RecoveryAofSteps, Deeds, Turns
  <2>2. Kept(2)' /\ proc'["server"] # "up"
      BY <1>1, <1>8, <2>1, KeptStays, ServerIn DEF AofData
  <2> QED
      BY <1>1, <1>8, <2>1, <2>2 DEF AofData
<1>9. CASE step = 7
  <2>1. /\ UNCHANGED <<store, log, buf, rdb, sent, proc>> /\ proc["server"] = "up" /\ AsExpected
        /\ Step = Check(<<"last">>, <<"x">>)
      BY <1>1, <1>2, <1>9, RecoveryAofSteps, Deeds, Turns
  <2>2. Kept(2) /\ store["server"] = Recovered(log) /\ rdb = Absent
      BY <1>1, <1>9, <2>1 DEF AofData
  <2>3. Word(store["server"], "last") = "x"
      BY <2>1 DEF AsExpected
  <2>4. /\ log \in Seq(Write) /\ Len(log) \in 0 .. 2
        /\ \A i \in 1 .. Len(log) : log[i] = Planned(i)
      BY <2>2, KeptLog
  <2>5. Recovered(log) = SoFar(Len(log))
      BY <2>2, <2>4, ReplayedPlan DEF Recovered, SoFar
  <2>6. Len(log) = 2
      BY <2>2, <2>3, <2>4, <2>5, AllOfTwo
  <2>7. Kept(2)' /\ Restored(2)'
      BY <2>1, <2>2, <2>5, <2>6, KeptStays DEF Restored
  <2> QED
      BY <1>1, <1>9, <2>1, <2>2, <2>7 DEF AofData
<1> QED
    BY <1>3, <1>4, <1>5, <1>6, <1>7, <1>8, <1>9

LEMMA RdbDataTurn ==
    ASSUME DriverInv, DataInv, pc = "job", pc' = "job", DriverStep, suite = "persistence",
           Impl = "redis-uya", Case.name = "restart_recovery_rdb_aof", step >= 2 => RdbData
    PROVE  RdbData'
<1>1. /\ Selected /\ step \in 1 .. Len(Case.script) /\ step' = step + 1 /\ Impl' = Impl
      /\ Step = Case.script[step] /\ Step.do # "sample"
      /\ proc \in [Roles -> {"none", "loading", "up"}]
    BY Turns, Acts DEF DriverInv, ControlInv
<1>2. Case.script = RecoveryRdbAofOnce
    BY <1>1, SixCases
<1>3. step \in 1 .. 11
    BY <1>1, <1>2, RecoveryRdbAofSteps DEF Do
<1> USE DEF Start, Set, Do, Check
<1>4. CASE step = 1
  <2>1. /\ StartFresh /\ buf' = <<>> /\ sent' = Empty /\ store' = [r \in Roles |-> Empty]
      BY <1>1, <1>2, <1>4, RecoveryRdbAofSteps, Deeds
  <2>2. log' = <<>> /\ rdb' = Absent
      BY <2>1, StartsEmpty
  <2>3. Wrote(0)'
      BY <2>1, <2>2, WroteNothing, ServerIn
  <2> QED
      BY <1>1, <1>4, <2>2, <2>3 DEF RdbData
<1>5. CASE step \in 2 .. 4
  <2>1. SetKey /\ Step = (IF step = 2 THEN Set("first", "x")
                          ELSE IF step = 3 THEN Set("last", "x") ELSE Set("key", "base"))
      BY <1>1, <1>2, <1>5, RecoveryRdbAofSteps, Deeds
  <2>2. Order = Planned((step - 2) + 1)
    <3>1. CASE step = 2
      <4>1. (step - 2) + 1 = 1 /\ Step = Set("first", "x")
          BY <2>1, <3>1
      <4> QED
          BY <4>1, OrderIs, PlannedIs
    <3>2. CASE step = 3
      <4>1. (step - 2) + 1 = 2 /\ Step = Set("last", "x")
          BY <2>1, <3>2
      <4> QED
          BY <4>1, OrderIs, PlannedIs
    <3>3. CASE step = 4
      <4>1. (step - 2) + 1 = 3 /\ Step = Set("key", "base")
          BY <2>1, <3>3
      <4> QED
          BY <4>1, OrderIs, PlannedIs
    <3> QED
        BY <1>5, <3>1, <3>2, <3>3
  <2>3. PICK n \in 0 .. 2 : step = n + 2 /\ Wrote(n) /\ Order = Planned(n + 1)
    <3>1. step - 2 \in 0 .. 2 /\ step = (step - 2) + 2
        BY <1>5
    <3> QED
        BY <2>2, <3>1 DEF RdbData
  <2>4. Wrote(n + 1)'
      BY <2>1, <2>3, WroteMore
  <2>5. rdb' = rdb
      BY <2>1, SetKeyWrites
  <2> QED
      BY <1>1, <1>5, <2>3, <2>4, <2>5 DEF RdbData
<1>6. CASE step = 5
  <2>1. UNCHANGED <<store, log, buf, sent, proc>> /\ rdb' = store["server"]
      BY <1>1, <1>2, <1>6, RecoveryRdbAofSteps, Deeds, Turns
  <2>2. Wrote(3)
      BY <1>6 DEF RdbData
  <2>3. Wrote(3)' /\ rdb' = SoFar(3)
      BY <2>1, <2>2, WroteStays DEF Wrote
  <2> QED
      BY <1>1, <1>6, <2>3 DEF RdbData
<1>7. CASE step \in 6 .. 7
  <2>1. SetKey /\ Step = (IF step = 6 THEN Set("key", "newer") ELSE Set("extra", "value"))
      BY <1>1, <1>2, <1>7, RecoveryRdbAofSteps, Deeds
  <2>2. Order = Planned((step - 3) + 1)
    <3>1. CASE step = 6
      <4>1. (step - 3) + 1 = 4 /\ Step = Set("key", "newer")
          BY <2>1, <3>1
      <4> QED
          BY <4>1, OrderIs, PlannedIs
    <3>2. CASE step = 7
      <4>1. (step - 3) + 1 = 5 /\ Step = Set("extra", "value")
          BY <2>1, <3>2
      <4> QED
          BY <4>1, OrderIs, PlannedIs
    <3> QED
        BY <1>7, <3>1, <3>2
  <2>3. PICK n \in 3 .. 4 : step = n + 3 /\ Wrote(n) /\ Order = Planned(n + 1)
    <3>1. step - 3 \in 3 .. 4 /\ step = (step - 3) + 3
        BY <1>7
    <3> QED
        BY <2>2, <3>1 DEF RdbData
  <2>4. Wrote(n + 1)'
      BY <2>1, <2>3, WroteMore
  <2>5. rdb' = rdb
      BY <2>1, SetKeyWrites
  <2> QED
      BY <1>1, <1>7, <2>3, <2>4, <2>5 DEF RdbData
<1>8. CASE step = 8
  <2>1. /\ UNCHANGED <<store, log, rdb, sent>> /\ buf' = <<>>
        /\ proc' = [proc EXCEPT !["server"] = "none"]
      BY <1>1, <1>2, <1>8, RecoveryRdbAofSteps, Deeds, Turns
  <2>2. Wrote(5) /\ rdb = SoFar(3)
      BY <1>8 DEF RdbData
  <2>3. Kept(5)' /\ proc'["server"] = "none"
      BY <1>1, <2>1, <2>2, KeptStopped, ServerIn
  <2> QED
      BY <1>1, <1>8, <2>1, <2>2, <2>3 DEF RdbData
<1>9. CASE step = 9
  <2>1. UNCHANGED <<store, log, buf, rdb, sent, proc>>
      BY <1>1, <1>2, <1>9, RecoveryRdbAofSteps, Deeds, Turns
  <2>2. Kept(5)' /\ rdb = SoFar(3)
      BY <1>9, <2>1, KeptStays DEF RdbData
  <2> QED
      BY <1>1, <1>9, <2>1, <2>2 DEF RdbData
<1>10. CASE step = 10
  <2>1. /\ UNCHANGED <<store, log, buf, rdb, sent>>
        /\ proc' = [proc EXCEPT !["server"] = "loading"]
      BY <1>1, <1>2, <1>10, RecoveryRdbAofSteps, Deeds, Turns
  <2>2. Kept(5)' /\ proc'["server"] # "up" /\ rdb = SoFar(3)
      BY <1>1, <1>10, <2>1, KeptStays, ServerIn DEF RdbData
  <2> QED
      BY <1>1, <1>10, <2>1, <2>2 DEF RdbData
<1>11. CASE step = 11
  <2>1. /\ UNCHANGED <<store, log, buf, rdb, sent, proc>> /\ proc["server"] = "up" /\ AsExpected
        /\ Step = Check(<<"key", "extra">>, <<"newer", "value">>)
      BY <1>1, <1>2, <1>11, RecoveryRdbAofSteps, Deeds, Turns
  <2>2. Kept(5) /\ store["server"] = Recovered(log) /\ rdb = SoFar(3)
      BY <1>11, <2>1 DEF RdbData
  <2>3. Word(store["server"], "extra") = "value"
      BY <2>1 DEF AsExpected
  <2>4. /\ log \in Seq(Write) /\ Len(log) \in 0 .. 5
        /\ \A i \in 1 .. Len(log) : log[i] = Planned(i)
      BY <2>2, KeptLog
  <2>5. rdb # Absent
    <3>1. SoFar(3) \in Data
        BY EmptyIsData, OverTyped DEF SoFar
    <3> QED
        BY <2>2, <3>1, AbsentAssumption
  <2>6. Recovered(log) = Over(SoFar(3), Len(log))
      BY <2>2, <2>4, <2>5, ReplayedPlan DEF Recovered
  <2>7. Recovered(log) = SoFar(5)
      BY <2>2, <2>3, <2>4, <2>6, AllOfFive
  <2>8. Kept(5)' /\ Restored(5)'
      BY <2>1, <2>2, <2>7, KeptStays DEF Restored
  <2> QED
      BY <1>1, <1>11, <2>1, <2>2, <2>8 DEF RdbData
<1> QED
    BY <1>3, <1>4, <1>5, <1>6, <1>7, <1>8, <1>9, <1>10, <1>11

LEMMA RedisDataTurn ==
    ASSUME DriverInv, DataInv, pc = "job", pc' = "job", DriverStep, suite = "persistence",
           Impl = "redis", step >= 2 => RedisData
    PROVE  RedisData'
<1>1. /\ Selected /\ step \in 1 .. Len(Case.script) /\ step' = step + 1 /\ Case' = Case
      /\ Step = Case.script[step] /\ Step.do # "sample"
      /\ proc \in [Roles -> {"none", "loading", "up"}]
    BY Turns, Acts DEF DriverInv, ControlInv
<1>2. /\ Step.do \in {"start", "set", "save", "stop", "clock", "check"}
      /\ step = 1 => Step.do = "start"
      /\ Step.do = "start" => Step.role = "server"
      /\ Case.name = "save" => step = 1 \/ Step.do \in {"set", "save", "clock"}
      /\ Case.name = "save" /\ step = 2 => Step.do = "set"
      /\ Case.name = "restart_recovery_aof" /\ step = 7 => Step.do = "check"
      /\ Case.name = "restart_recovery_rdb_aof" /\ step = 11 => Step.do = "check"
  <2> USE DEF Start, Set, Do, Check
  <2>1. CASE Case.name = "save" /\ Case.script = SaveOnce
      BY <1>1, <2>1, SaveSteps
  <2>2. CASE Case.name = "restart_recovery_aof" /\ Case.script = RecoveryAofOnce
      BY <1>1, <2>2, RecoveryAofSteps
  <2>3. CASE Case.name = "restart_recovery_rdb_aof" /\ Case.script = RecoveryRdbAofOnce
      BY <1>1, <2>3, RecoveryRdbAofSteps
  <2> QED
      BY <1>1, <2>1, <2>2, <2>3, SixCases
<1>3. CASE step = 1
  <2>1. /\ buf' = <<>> /\ sent' = Empty /\ proc' = [proc EXCEPT !["server"] = "loading"]
      BY <1>1, <1>2, <1>3, Deeds, Turns
  <2>2. Keeps(sent', Replayed(log', Empty)) /\ Keeps(sent', store'["server"])
      BY <2>1, KeepsEmpty
  <2> QED
      BY <1>1, <1>3, <2>1, <2>2 DEF RedisData
<1>4. CASE step # 1 /\ Step.do = "set"
  <2>1. SetKey /\ RedisData /\ step >= 2
      BY <1>1, <1>4, Deeds
  <2>2. /\ Order \in Write /\ proc["server"] = "up" /\ UNCHANGED <<proc, buf>>
        /\ store' = [store EXCEPT !["server"] = Written(@, Order)]
        /\ sent' = Written(sent, Order) /\ log' = Append(log, Order)
      BY <2>1, SetKeyWrites
  <2>3. store["server"] \in Data /\ sent \in Data /\ log \in Seq(Write) /\ Empty \in Data
      BY EmptyIsData, ServerIn DEF DataInv
  <2>4. /\ Replayed(log', Empty) = Written(Replayed(log, Empty), Order)
        /\ Replayed(log, Empty) \in Data
      BY <2>2, <2>3, ReplayedAppend, ReplayedTyped
  <2>5. Keeps(sent', Replayed(log', Empty))
      BY <2>1, <2>2, <2>3, <2>4, KeepsWritten DEF RedisData
  <2>6. store'["server"] = Written(store["server"], Order)
      BY <2>2, ServerIn DEF DataInv
  <2>7. Keeps(sent', store'["server"])
      BY <2>1, <2>2, <2>3, <2>6, KeepsWritten DEF RedisData
  <2> QED
      BY <2>1, <2>2, <2>5, <2>7 DEF RedisData
<1>5. CASE step # 1 /\ Step.do # "set"
  <2>1. RedisData /\ step >= 2
      BY <1>1, <1>5
  <2>2. UNCHANGED <<store, log, sent>> /\ buf' = <<>>
      BY <1>1, <1>2, <1>5, <2>1, Deeds DEF RedisData
  <2>3. proc'["server"] = "up" => proc["server"] = "up"
      BY <1>1, <1>2, <1>5, Turns, ServerIn
  <2>4. /\ Keeps(sent', Replayed(log', Empty))
        /\ proc'["server"] = "up" => Keeps(sent', store'["server"])
      BY <2>1, <2>2, <2>3 DEF RedisData
  <2>5. Case.name = "save" => proc'["server"] = "up"
    <3>1. Case.name = "save" => step > 2 /\ Step.do \in {"save", "clock"}
        BY <1>1, <1>2, <1>5, <2>1
    <3> QED
        BY <2>1, <3>1, Turns DEF RedisData
  <2>6. Step.do = "check" => proc'["server"] = "up"
      BY Deeds, Turns
  <2>7. /\ Case.name = "restart_recovery_aof" /\ step' = 8 => proc'["server"] = "up"
        /\ Case.name = "restart_recovery_rdb_aof" /\ step' = 12 => proc'["server"] = "up"
      BY <1>1, <1>2, <2>6
  <2> QED
      BY <1>1, <2>2, <2>4, <2>5, <2>7 DEF RedisData
<1> QED
    BY <1>3, <1>4, <1>5

LEMMA PairDataTurn ==
    ASSUME DriverInv, DataInv, pc = "job", pc' = "job", DriverStep,
           Case.name \in {"full_sync", "incremental_sync"}, step >= 2 => PairData
    PROVE  PairData'
<1>1. /\ Selected /\ step \in 1 .. Len(Case.script) /\ step' = step + 1
      /\ Step = Case.script[step] /\ Step.do # "sample"
    BY Turns, Acts
<1>2. /\ Step.do \in {"start", "set", "clock", "replicaof", "connected", "value"}
      /\ step = 1 => Step.do = "start"
      /\ step = 2 => Step.do = "start"
  <2> USE DEF Start, Set, Do, WaitValue
  <2>1. CASE Case.script = FullSyncOnce
      BY <1>1, <2>1, FullSyncSteps
  <2>2. CASE Case.script = IncrementalSyncOnce
      BY <1>1, <2>2, IncrementalSyncSteps
  <2> QED
      BY <1>1, <2>1, <2>2, SixCases
<1>3. CASE step = 1
  <2>1. sent' = Empty
      BY <1>1, <1>2, <1>3, Deeds
  <2>2. Keeps(sent', store'["server"])
      BY <2>1, KeepsEmpty
  <2> QED
      BY <2>1, <2>2 DEF PairData
<1>4. CASE step # 1 /\ Step.do = "set"
  <2>1. SetKey /\ PairData /\ step >= 3
      BY <1>1, <1>2, <1>4, Deeds
  <2>2. /\ Order \in Write /\ sent' = Written(sent, Order)
        /\ store' = [store EXCEPT !["server"] = Written(@, Order)]
      BY <2>1, SetKeyWrites
  <2>3. /\ store["server"] \in Data /\ sent \in Data
        /\ store'["server"] = Written(store["server"], Order)
      BY <2>2, ServerIn DEF DataInv
  <2>4. Keeps(sent', store'["server"])
      BY <2>1, <2>2, <2>3, KeepsWritten DEF PairData
  <2> QED
      BY <1>1, <2>1, <2>4 DEF PairData
<1>5. CASE step # 1 /\ Step.do # "set"
  <2>1. PairData /\ UNCHANGED <<store, sent>>
      BY <1>1, <1>2, <1>5, Deeds
  <2> QED
      BY <1>1, <2>1 DEF PairData
<1> QED
    BY <1>3, <1>4, <1>5

-----------------------------------------------------------------------------
(* What the servers do meanwhile to the data.                              *)
LEMMA WroteLoads ==
    ASSUME DataInv, NEW n \in 0 .. 5, Wrote(n), Load("server"), rdb = Absent
    PROVE  Wrote(n)' /\ n = 0
<1>1. /\ proc["server"] = "loading" /\ UNCHANGED <<log, buf, sent>>
      /\ store' = [store EXCEPT !["server"] = Recovered(log)]
    BY DEF Load, history
<1>2. n = 0
    BY <1>1 DEF Wrote
<1>3. Len(log) \in Nat /\ Len(buf) \in Nat /\ log \in Seq(Write)
    BY LenProperties DEF DataInv
<1>4. log = <<>>
    BY <1>2, <1>3 DEF Wrote
<1>5. Recovered(log) = Empty
    BY <1>4, ReplayedEmpty DEF Recovered
<1>6. store'["server"] = Empty
    BY <1>1, <1>5, ServerIn DEF DataInv
<1> QED
    BY <1>1, <1>2, <1>6 DEF Wrote, SoFar, Over

(* What a server's step leaves of the master.                              *)
LEMMA OtherSteps ==
    ASSUME DriverInv, DataInv, Load("replica") \/ LinkUp \/ Poll \/ PollFails \/ LinkLost
    PROVE  /\ UNCHANGED <<log, buf, rdb, sent>> /\ store'["server"] = store["server"]
           /\ proc'["server"] = proc["server"]
<1>1. store \in [Roles -> Data] /\ proc \in [Roles -> {"none", "loading", "up"}]
    BY DEF DriverInv, ControlInv, DataInv
<1>2. CASE Load("replica")
  <2>1. /\ UNCHANGED <<log, buf, rdb, sent>> /\ proc' = [proc EXCEPT !["replica"] = "up"]
        /\ store' = [store EXCEPT !["replica"] = Recovered(<<>>)]
      BY <1>2 DEF Load, history
  <2> QED
      BY <1>1, <2>1, ServerIn
<1>3. CASE LinkUp \/ Poll \/ PollFails
  <2>1. /\ UNCHANGED <<log, buf, rdb, sent, proc>>
        /\ store' = [store EXCEPT !["replica"] = store["server"]]
      BY <1>3 DEF LinkUp, Poll, PollFails
  <2> QED
      BY <1>1, <2>1, ServerIn
<1>4. CASE LinkLost
    BY <1>4 DEF LinkLost
<1> QED
    BY <1>2, <1>3, <1>4

LEMMA LoadsMaster ==
    ASSUME DriverInv, DataInv, Load("server")
    PROVE  /\ proc["server"] = "loading" /\ proc'["server"] = "up"
           /\ UNCHANGED <<log, buf, rdb, sent>> /\ store'["server"] = Recovered(log)
BY ServerIn DEF Load, DataInv, DriverInv, ControlInv, history

LEMMA SaveDataAside ==
    ASSUME DriverInv, DataInv, pc = "job", Selected, suite = "persistence", step >= 2,
           Case.name = "save", SaveData, ServerStep
    PROVE  SaveData'
<1>0. step' = step /\ step \in Nat
    BY Meanwhile DEF DriverInv, ControlInv
<1>1. CASE Load("server")
  <2>1. rdb' = rdb /\ proc["server"] = "loading"
      BY <1>1, LoadsMaster
  <2>2. step <= 4
      BY <1>0, <2>1 DEF SaveData, Wrote
  <2>3. step = 2 /\ Wrote(0)
    <3>1. step \in {2, 3, 4}
        BY <1>0, <2>2
    <3>2. step # 3 /\ step # 4
        BY <2>1 DEF SaveData, Wrote
    <3> QED
        BY <3>1, <3>2 DEF SaveData
  <2>4. Wrote(0)'
      BY <1>1, <2>3, WroteLoads DEF SaveData
  <2> QED
      BY <1>0, <2>1, <2>3, <2>4 DEF SaveData
<1>2. CASE Flush
    BY <1>0, <1>2, WroteFlushed DEF SaveData, Flush
<1>3. CASE Load("replica") \/ LinkUp \/ Poll \/ PollFails \/ LinkLost
    BY <1>0, <1>3, OtherSteps DEF SaveData, Wrote
<1> QED
    BY <1>1, <1>2, <1>3 DEF ServerStep, Roles

LEMMA AofDataAside ==
    ASSUME DriverInv, DataInv, pc = "job", Selected, suite = "persistence", step >= 2,
           Case.name = "restart_recovery_aof", AofData, ServerStep
    PROVE  AofData'
<1>0. step' = step /\ step \in 2 .. 8 /\ Impl' = Impl
  <2>1. Len(Case.script) = 8
      BY SixCases, RecoveryAofSteps
  <2> QED
      BY <2>1, Meanwhile DEF DriverInv, ControlInv
<1>1. CASE Load("server")
  <2>1. /\ UNCHANGED <<log, buf, rdb, sent>> /\ proc["server"] = "loading"
        /\ store'["server"] = Recovered(log)
      BY <1>1, LoadsMaster
  <2>2. step = 2 \/ step = 7
      BY <1>0, <2>1 DEF AofData, Wrote, Restored
  <2>3. CASE step = 2
    <3>1. Wrote(0)'
        BY <1>1, <2>3, WroteLoads DEF AofData
    <3> QED
        BY <1>0, <2>1, <2>3, <3>1 DEF AofData
  <2>4. CASE step = 7
    <3>1. Kept(2)'
        BY <2>1, <2>4, KeptStays DEF AofData
    <3>2. Recovered(log)' = Recovered(log)
        BY <1>0, <2>1, RecoveredStays
    <3> QED
        BY <1>0, <2>1, <2>4, <3>1, <3>2 DEF AofData
  <2> QED
      BY <2>2, <2>3, <2>4
<1>2. CASE Flush
  <2>1. buf # <<>> /\ rdb' = rdb
      BY <1>2 DEF Flush
  <2>2. step \in 2 .. 4
      BY <1>0, <2>1 DEF AofData, Kept
  <2> QED
      BY <1>0, <1>2, <2>1, <2>2, WroteFlushed DEF AofData
<1>3. CASE Load("replica") \/ LinkUp \/ Poll \/ PollFails \/ LinkLost
  <2>1. /\ UNCHANGED <<log, buf, rdb, sent>> /\ store'["server"] = store["server"]
        /\ proc'["server"] = proc["server"]
      BY <1>3, OtherSteps
  <2>2. Recovered(log)' = Recovered(log)
      BY <1>0, <2>1, RecoveredStays
  <2> QED
      BY <1>0, <2>1, <2>2 DEF AofData, Wrote, Kept, Restored
<1> QED
    BY <1>1, <1>2, <1>3 DEF ServerStep, Roles

LEMMA RdbDataAside ==
    ASSUME DriverInv, DataInv, pc = "job", Selected, suite = "persistence", step >= 2,
           Case.name = "restart_recovery_rdb_aof", RdbData, ServerStep
    PROVE  RdbData'
<1>0. step' = step /\ step \in 2 .. 12 /\ Impl' = Impl
  <2>1. Len(Case.script) = 12
      BY SixCases, RecoveryRdbAofSteps
  <2> QED
      BY <2>1, Meanwhile DEF DriverInv, ControlInv
<1>1. CASE Load("server")
  <2>1. /\ UNCHANGED <<log, buf, rdb, sent>> /\ proc["server"] = "loading"
        /\ store'["server"] = Recovered(log)
      BY <1>1, LoadsMaster
  <2>2. step = 2 \/ step = 11
    <3>1. ~Wrote(1) /\ ~Wrote(2) /\ ~Wrote(3) /\ ~Wrote(4) /\ ~Wrote(5) /\ ~Restored(5)
        BY <2>1 DEF Wrote, Restored
    <3>2. step \notin {3, 4, 5, 6, 7, 8, 12}
        BY <3>1 DEF RdbData
    <3>3. step \notin {9, 10}
        BY <2>1 DEF RdbData
    <3> QED
        BY <1>0, <3>2, <3>3
  <2>3. CASE step = 2
    <3>1. Wrote(0)'
        BY <1>1, <2>3, WroteLoads DEF RdbData
    <3> QED
        BY <1>0, <2>1, <2>3, <3>1 DEF RdbData
  <2>4. CASE step = 11
    <3>1. Kept(5)'
        BY <2>1, <2>4, KeptStays DEF RdbData
    <3>2. Recovered(log)' = Recovered(log)
        BY <1>0, <2>1, RecoveredStays
    <3> QED
        BY <1>0, <2>1, <2>4, <3>1, <3>2 DEF RdbData
  <2> QED
      BY <2>2, <2>3, <2>4
<1>2. CASE Flush
  <2>1. buf # <<>> /\ rdb' = rdb
      BY <1>2 DEF Flush
  <2>2. step \in 2 .. 8
      BY <1>0, <2>1 DEF RdbData, Kept
  <2> QED
      BY <1>0, <1>2, <2>1, <2>2, WroteFlushed DEF RdbData
<1>3. CASE Load("replica") \/ LinkUp \/ Poll \/ PollFails \/ LinkLost
  <2>1. /\ UNCHANGED <<log, buf, rdb, sent>> /\ store'["server"] = store["server"]
        /\ proc'["server"] = proc["server"]
      BY <1>3, OtherSteps
  <2>2. Recovered(log)' = Recovered(log)
      BY <1>0, <2>1, RecoveredStays
  <2> QED
      BY <1>0, <2>1, <2>2 DEF RdbData, Wrote, Kept, Restored
<1> QED
    BY <1>1, <1>2, <1>3 DEF ServerStep, Roles

LEMMA RedisDataAside ==
    ASSUME DriverInv, DataInv, Impl = "redis", RedisData, ServerStep
    PROVE  RedisData'
<1>0. step' = step /\ Case' = Case
    BY Meanwhile
<1>1. CASE Load("server")
  <2>1. /\ UNCHANGED <<log, buf, sent>> /\ proc'["server"] = "up"
        /\ store'["server"] = Replayed(log, Empty)
      BY <1>1, LoadsMaster DEF Recovered
  <2> QED
      BY <1>0, <2>1 DEF RedisData
<1>2. ~Flush
    BY DEF RedisData, Flush
<1>3. CASE Load("replica") \/ LinkUp \/ Poll \/ PollFails \/ LinkLost
    BY <1>0, <1>3, OtherSteps DEF RedisData
<1> QED
    BY <1>1, <1>2, <1>3 DEF ServerStep, Roles

LEMMA PairDataAside ==
    ASSUME DriverInv, DataInv, TableInv, pc = "job",
           Case.name \in {"full_sync", "incremental_sync"}, PairData, ServerStep
    PROVE  PairData'
<1>0. step' = step /\ step \in Nat
    BY Meanwhile DEF DriverInv, ControlInv
<1>1. CASE Load("server")
  <2>1. sent' = sent /\ proc["server"] = "loading"
      BY <1>1, LoadsMaster
  <2>2. step < 4
      BY <1>0, <2>1 DEF TableInv, FullSyncTable, IncrementalSyncTable
  <2> QED
      BY <1>0, <2>1, <2>2, KeepsEmpty DEF PairData
<1>2. CASE Flush
    BY <1>0, <1>2 DEF Flush, PairData, history
<1>3. CASE Load("replica") \/ LinkUp \/ Poll \/ PollFails \/ LinkLost
    BY <1>0, <1>3, OtherSteps DEF PairData
<1> QED
    BY <1>1, <1>2, <1>3 DEF ServerStep, Roles

LEMMA KeptInit == Init => KeptInv
BY DEF Init, KeptInv

LEMMA KeptNext ==
    DriverInv /\ DataInv /\ WordsInv /\ TableInv /\ KeptInv /\ [Next]_vars => KeptInv'
<1> SUFFICES ASSUME DriverInv, DataInv, WordsInv, TableInv, KeptInv, [Next]_vars, pc' = "job"
             PROVE  KeptInv'
    BY DEF KeptInv
<1>1. ASSUME step' = 1
      PROVE  KeptInv'
    BY <1>1 DEF KeptInv
<1>2. ASSUME pc = "job", DriverStep
      PROVE  KeptInv'
  <2>1. Case' = Case /\ suite' = suite /\ Impl' = Impl
      BY <1>2, Turns
  <2> QED
      BY <1>2, <2>1, SaveDataTurn, AofDataTurn, RdbDataTurn, RedisDataTurn, PairDataTurn
         DEF KeptInv
<1>3. ASSUME pc = "job", step >= 2, ServerStep
      PROVE  KeptInv'
  <2>1. Case' = Case /\ suite' = suite /\ Impl' = Impl /\ Selected
      BY <1>3, Meanwhile DEF DriverInv, ControlInv
  <2> QED
      BY <1>3, <2>1, SaveDataAside, AofDataAside, RdbDataAside, RedisDataAside, PairDataAside
         DEF KeptInv
<1>4. ASSUME pc = "job", ServerStep, ~(step >= 2)
      PROVE  step' = 1
    BY <1>4, Meanwhile DEF DriverInv, ControlInv
<1>5. ASSUME UNCHANGED vars
      PROVE  KeptInv'
  <2>1. /\ UNCHANGED <<pc, suite, step, proc, log, buf, rdb, sent, store>>
        /\ Case' = Case /\ Impl' = Impl
      BY <1>5, Meanwhile DEF vars, servers
  <2>2. Recovered(log)' = Recovered(log)
      BY <2>1, RecoveredStays
  <2>3. /\ SaveData => SaveData'
        /\ AofData => AofData'
        /\ RdbData => RdbData'
        /\ RedisData => RedisData'
        /\ PairData => PairData'
      BY <2>1, <2>2 DEF SaveData, AofData, RdbData, RedisData, PairData, Wrote, Kept, Restored
  <2> QED
      BY <2>1, <2>3 DEF KeptInv
<1>6. ASSUME pc # "job", DriverStep
      PROVE  step' = 1
  <2>1. NextRound \/ NextJob
      BY <1>6 DEF DriverStep, StartFresh, StartExisting, SetKey, SaveRdb, ReplicaOf, Wait,
                  WaitConnected, WaitDisconnected, WaitForValue, CheckRecovered, StopMaster,
                  ReadClock, TakeSample, Raise, StopProcess, CleanUp, At, Advance
  <2> QED
      BY <2>1 DEF NextRound, NextJob, DriverInv, ControlInv
<1>7. ASSUME pc # "job", ServerStep
      PROVE  FALSE
    BY <1>7, Meanwhile
<1>8. \A s \in Suites, i \in Impls : Main(s, i) => step' = 1
    BY DEF Main
<1>9. ~Killed
    BY DEF Killed
<1> QED
    BY <1>1, <1>2, <1>3, <1>4, <1>5, <1>6, <1>7, <1>8, <1>9 DEF Next, Suites, Impls

LEMMA HeldSample ==
    DriverInv /\ DataInv /\ WordsInv /\ TableInv /\ KeptInv => SampleHoldsDataset
<1> SUFFICES ASSUME DriverInv, DataInv, WordsInv, TableInv, KeptInv, At("sample")
             PROVE  /\ suite = "replication" /\ ~OldLog => store["replica"] = store["server"]
                    /\ Case.name # "reconnect_recovery" => Keeps(sent, store["server"])
                    /\ suite = "persistence" /\ Impl = "redis-uya" =>
                          store["server"] = sent /\ ~OldLog
    BY DEF SampleHoldsDataset, Keeps, Own
<1>1. pc = "job" /\ Step.do = "sample"
    BY DEF At
<1>2. Selected /\ step = Len(Case.script) /\ step >= 2
    BY <1>1, Course DEF DriverInv, ControlInv, Step
<1>3. OldLog <=> ~AllOwn(log)
  <2>1. DOMAIN log = 1 .. Len(log)
      BY LenProperties DEF DataInv
  <2> QED
      BY <2>1 DEF OldLog, AllOwn
<1>4. suite = "replication" /\ AllOwn(log) => Same
  <2>1. CASE Case.name = "full_sync" /\ Case.script = FullSyncOnce
      BY <1>1, <1>2, <2>1, FullSyncSteps DEF TableInv, FullSyncTable
  <2>2. CASE Case.name = "incremental_sync" /\ Case.script = IncrementalSyncOnce
      BY <1>1, <1>2, <2>2, IncrementalSyncSteps DEF TableInv, IncrementalSyncTable
  <2>3. CASE Case.name = "reconnect_recovery" /\ Case.script = ReconnectOnce
      BY <1>1, <1>2, <2>3, ReconnectSteps DEF TableInv, ReconnectTable
  <2> QED
      BY <1>2, <2>1, <2>2, <2>3, SixCases
<1>5. suite = "persistence" /\ Impl = "redis-uya" => store["server"] = sent /\ AllOwn(log)
  <2> SUFFICES ASSUME suite = "persistence", Impl = "redis-uya"
               PROVE  store["server"] = sent /\ AllOwn(log)
      OBVIOUS
  <2>1. AllOwn(log)
      BY <1>1, <1>2 DEF WordsInv
  <2>2. CASE Case.name = "save" /\ Case.script = SaveOnce
    <3>1. step = 6 /\ SaveData
        BY <1>1, <1>2, <2>2, SaveSteps DEF KeptInv
    <3>2. Wrote(2)
        BY <3>1 DEF SaveData
    <3> QED
        BY <2>1, <3>2 DEF Wrote
  <2>3. CASE Case.name = "restart_recovery_aof" /\ Case.script = RecoveryAofOnce
    <3>1. step = 8 /\ AofData
        BY <1>1, <1>2, <2>3, RecoveryAofSteps DEF KeptInv
    <3>2. Kept(2) /\ Restored(2)
        BY <3>1 DEF AofData
    <3> QED
        BY <2>1, <3>2 DEF Kept, Restored
  <2>4. CASE Case.name = "restart_recovery_rdb_aof" /\ Case.script = RecoveryRdbAofOnce
    <3>1. step = 12 /\ RdbData
        BY <1>1, <1>2, <2>4, RecoveryRdbAofSteps DEF KeptInv
    <3>2. Kept(5) /\ Restored(5)
        BY <3>1 DEF RdbData
    <3> QED
        BY <2>1, <3>2 DEF Kept, Restored
  <2> QED
      BY <1>2, <2>1, <2>2, <2>3, <2>4, SixCases
<1>6. suite = "persistence" /\ Impl = "redis" => Keeps(sent, store["server"])
  <2> SUFFICES ASSUME suite = "persistence", Impl = "redis"
               PROVE  Keeps(sent, store["server"])
      OBVIOUS
  <2>1. RedisData
      BY <1>1, <1>2 DEF KeptInv
  <2>2. proc["server"] = "up"
    <3>1. CASE Case.name = "save" /\ Case.script = SaveOnce
        BY <1>2, <2>1, <3>1, SaveSteps DEF RedisData
    <3>2. CASE Case.name = "restart_recovery_aof" /\ Case.script = RecoveryAofOnce
        BY <1>2, <2>1, <3>2, RecoveryAofSteps DEF RedisData
    <3>3. CASE Case.name = "restart_recovery_rdb_aof" /\ Case.script = RecoveryRdbAofOnce
        BY <1>2, <2>1, <3>3, RecoveryRdbAofSteps DEF RedisData
    <3> QED
        BY <1>2, <3>1, <3>2, <3>3, SixCases
  <2> QED
      BY <2>1, <2>2 DEF RedisData
<1>7. Case.name \in {"full_sync", "incremental_sync"} => Keeps(sent, store["server"])
    BY <1>1, <1>2 DEF KeptInv, PairData
<1>8. Keeps(sent, sent)
    BY DEF Keeps
<1> QED
    BY <1>2, <1>3, <1>4, <1>5, <1>6, <1>7, <1>8, SixCases DEF Same

(* The servers a sample is taken of hold what the run wrote.               *)
THEOREM SamplesHoldTheDataset == Spec => []SampleHoldsDataset
BY DriverInit, DriverNext, DataInit, DataNext, WordsInit, WordsNext, TableInit, TableNext,
   KeptInit, KeptNext, HeldSample, PTL DEF Spec
=============================================================================
