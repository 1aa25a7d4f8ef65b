------------------------- MODULE Persistence_proofs -------------------------
(***************************************************************************)
(* Proved here for every set of keys, buffer size, request mix and bound:  *)
(* the types, and that a BGSAVE child and a rewrite child never exist      *)
(* together; as long as nobody asks for SAVE or BGSAVE, that a restart     *)
(* restores a state the server was in and that buffers, files and children *)
(* implement the durable store, and that every prefix of the AOF, all that *)
(* a power failure may leave, restores a moment of the history, no older   *)
(* than what WAITAOF confirmed unless it did so while a rewrite ran; and   *)
(* until the process ends, that the RDB file is a snapshot.  The           *)
(* restrictions are needed: the run bgsave_duplicates shows commands twice *)
(* in the AOF, and an RDB file may hold commands that a crash takes from   *)
(* the AOF.                                                                *)
(*                                                                         *)
(* What a replay computes is a fold over a sequence of commands.  The two  *)
(* equations it satisfies are proved first.                                *)
(***************************************************************************)
EXTENDS Persistence, SequenceTheorems, WellFoundedInduction, TLAPS

-----------------------------------------------------------------------------
(* Induction over data.  The library's induction theorems take an operator *)
(* as a parameter; that the natural numbers are well-founded does not, and *)
(* gives a least counterexample.                                           *)
LEMMA LeastElement ==
    ASSUME NEW T, T \subseteq Nat, T # {}
    PROVE  \E n \in T : \A m \in T : ~(m < n)
<1> DEFINE R == OpToRel(<, Nat)
<1>1. IsWellFoundedOn(R, Nat)
    BY NatLessThanWellFounded
<1> HIDE DEF R
<1>2. \E n \in T : \A m \in T : ~(<<m, n>> \in R)
    BY <1>1, WFMin
<1>3. \A n, m \in Nat : m < n => <<m, n>> \in R
    BY DEF R, OpToRel
<1> QED
    BY <1>2, <1>3

(* A set that holds 0 and with each number the next holds them all.        *)
LEMMA NumbersUpTo ==
    ASSUME NEW N \in Nat, NEW S, 0 \in S,
           \A n \in Nat : n \in S /\ n < N => n + 1 \in S
    PROVE  \A n \in 0..N : n \in S
<1> DEFINE T == {n \in 0..N : n \notin S}
<1> SUFFICES ASSUME T # {} PROVE FALSE
    OBVIOUS
<1>1. T \subseteq Nat
    OBVIOUS
<1>2. PICK n \in T : \A m \in T : ~(m < n)
    BY <1>1, LeastElement
<1>3. n \in 0..N /\ n \notin S /\ n # 0
    BY <1>2
<1>4. n - 1 \in 0..N /\ n - 1 < n /\ n - 1 < N /\ n - 1 \in Nat /\ (n - 1) + 1 = n
    BY <1>3
<1>5. n - 1 \in S
    BY <1>2, <1>4
<1> QED
    BY <1>3, <1>4, <1>5

-----------------------------------------------------------------------------
(* What a replay computes.  Replay folds the commands over the sets of     *)
(* their positions, the largest position last.                             *)

LEMMA LargestPosition ==
    ASSUME NEW n \in Nat, NEW S \in SUBSET (1..n), n \in S
    PROVE  Max(S) = n
<1>1. n \in S /\ \A y \in S : n >= y
    OBVIOUS
<1>2. Max(S) \in S /\ \A y \in S : Max(S) >= y
    BY <1>1 DEF Max
<1>3. PICK m \in S : m = Max(S)
    BY <1>2
<1>4. m \in Nat /\ n >= m /\ m >= n
    BY <1>1, <1>2, <1>3
<1> QED
    BY <1>3, <1>4

(* f folds the commands of s up to position n onto d.                      *)
IsFold(f, d, s, n) ==
    f = [S \in SUBSET (1..n) |-> IF S = {} THEN d ELSE Apply(f[S \ {Max(S)}], s[Max(S)])]

LEMMA FoldExists ==
    ASSUME NEW d, NEW s, NEW N \in Nat
    PROVE  \E f : IsFold(f, d, s, N)
<1> DEFINE G == {n \in Nat : \E f : IsFold(f, d, s, n)}
<1>1. 0 \in G
  <2> DEFINE f == [S \in SUBSET (1..0) |-> d]
  <2>1. IsFold(f, d, s, 0)
    <3>1. \A S \in SUBSET (1..0) : S = {}
        OBVIOUS
    <3> QED
        BY <3>1 DEF IsFold
  <2> QED
      BY <2>1
<1>2. ASSUME NEW n \in Nat, n \in G PROVE n + 1 \in G
  <2>1. PICK f : IsFold(f, d, s, n)
      BY <1>2
  <2> DEFINE g == [S \in SUBSET (1..(n + 1)) |->
                     IF n + 1 \in S THEN Apply(f[S \ {n + 1}], s[n + 1]) ELSE f[S]]
  <2>2. ASSUME NEW S \in SUBSET (1..(n + 1))
        PROVE  g[S] = IF S = {} THEN d ELSE Apply(g[S \ {Max(S)}], s[Max(S)])
    <3>1. CASE n + 1 \in S
      <4>1. Max(S) = n + 1
          BY <3>1, LargestPosition
      <4>2. S \ {n + 1} \in SUBSET (1..n) /\ S \ {n + 1} \in SUBSET (1..(n + 1)) /\ n + 1 \notin S \ {n + 1}
          OBVIOUS
      <4>3. g[S \ {n + 1}] = f[S \ {n + 1}]
          BY <4>2
      <4>4. g[S] = Apply(f[S \ {n + 1}], s[n + 1])
          BY <3>1
      <4> QED
          BY <3>1, <4>1, <4>3, <4>4
    <3>2. CASE n + 1 \notin S
      <4>1. S \in SUBSET (1..n)
          BY <3>2
      <4>2. g[S] = f[S]
          BY <3>2
      <4>3. f[S] = IF S = {} THEN d ELSE Apply(f[S \ {Max(S)}], s[Max(S)])
          BY <2>1, <4>1 DEF IsFold
      <4>4. S \ {Max(S)} \in SUBSET (1..(n + 1)) /\ n + 1 \notin S \ {Max(S)}
          BY <3>2
      <4>5. g[S \ {Max(S)}] = f[S \ {Max(S)}]
          BY <4>4
      <4> QED
          BY <4>2, <4>3, <4>5
    <3> QED
        BY <3>1, <3>2
  <2>3. IsFold(g, d, s, n + 1)
      BY <2>2 DEF IsFold
  <2> QED
      BY <2>3
<1>3. \A n \in 0..N : n \in G
    BY <1>1, <1>2, NumbersUpTo
<1> QED
    BY <1>3

(* The state after each prefix of the commands, position by position.      *)
Traces(h, d, s, n) ==
    /\ h[0] = d
    /\ \A i \in 1..n : h[i] = Apply(h[i - 1], s[i])

LEMMA ReplayTraces ==
    ASSUME NEW d, NEW s, NEW N \in Nat, DOMAIN s = 1..N
    PROVE  \E h : DOMAIN h = 0..N /\ Traces(h, d, s, N) /\ Replay(d, s) = h[N]
<1> DEFINE f == CHOOSE f : IsFold(f, d, s, N)
           h == [i \in 0..N |-> f[1..i]]
<1>1. IsFold(f, d, s, N)
    BY FoldExists
<1>2. Replay(d, s) = f[1..N]
    BY DEF Replay, FoldLeft, MapThenFoldSet, IsFold
<1> HIDE DEF f
<1>3. f[1..0] = d
  <2>1. 1..0 = {} /\ 1..0 \in SUBSET (1..N)
      OBVIOUS
  <2> QED
      BY <1>1, <2>1 DEF IsFold
<1>4. ASSUME NEW i \in 1..N
      PROVE  f[1..i] = Apply(f[1..(i - 1)], s[i])
  <2>1. 1..i \in SUBSET (1..N) /\ i \in 1..i /\ i \in Nat
      OBVIOUS
  <2>3. (1..i) \ {i} = 1..(i - 1)
      BY <2>1
  <2>2. Max(1..i) = i
      BY LargestPosition
  <2> QED
      BY <1>1, <2>1, <2>2, <2>3 DEF IsFold
<1>5. Traces(h, d, s, N)
    BY <1>3, <1>4 DEF Traces
<1> QED
    BY <1>2, <1>5

(* The same commands lead to the same states.                              *)
LEMMA TracesAgree ==
    ASSUME NEW d, NEW s, NEW t, NEW N \in Nat, \A i \in 1..N : s[i] = t[i],
           NEW g, NEW h, Traces(g, d, s, N), Traces(h, d, t, N)
    PROVE  g[N] = h[N]
<1> DEFINE S == {n \in Nat : g[n] = h[n]}
<1>1. 0 \in S
    BY DEF Traces
<1>2. ASSUME NEW n \in Nat, n \in S, n < N PROVE n + 1 \in S
  <2>1. n + 1 \in 1..N /\ (n + 1) - 1 = n /\ n + 1 \in Nat
      BY <1>2
  <2>2. g[n + 1] = Apply(g[n], s[n + 1]) /\ h[n + 1] = Apply(h[n], t[n + 1])
      BY <2>1 DEF Traces
  <2> QED
      BY <1>2, <2>1, <2>2
<1>3. \A n \in 0..N : n \in S
  <2> HIDE DEF S
  <2> QED
      BY <1>1, <1>2, NumbersUpTo
<1> QED
    BY <1>3

LEMMA ReplayEmpty == \A d : Replay(d, <<>>) = d
<1> TAKE d
<1>1. DOMAIN <<>> = 1..0 /\ 0 \in Nat
    OBVIOUS
<1>2. PICK h : Traces(h, d, <<>>, 0) /\ Replay(d, <<>>) = h[0]
    BY <1>1, ReplayTraces
<1> QED
    BY <1>2 DEF Traces

LEMMA ReplayAppend ==
    ASSUME NEW S, NEW d, NEW s \in Seq(S), NEW c \in S
    PROVE  Replay(d, Append(s, c)) = Apply(Replay(d, s), c)
<1> DEFINE t == Append(s, c)
           N == Len(s)
<1>1. N \in Nat /\ DOMAIN s = 1..N /\ t \in Seq(S) /\ Len(t) = N + 1
    BY LenProperties, AppendProperties
<1>2. DOMAIN t = 1..(N + 1) /\ t[N + 1] = c /\ \A i \in 1..N : t[i] = s[i]
    BY <1>1, LenProperties, AppendProperties
<1> HIDE DEF t, N
<1>3. PICK g : Traces(g, d, s, N) /\ Replay(d, s) = g[N]
    BY <1>1, ReplayTraces
<1>4. PICK h : Traces(h, d, t, N + 1) /\ Replay(d, t) = h[N + 1]
    BY <1>1, <1>2, ReplayTraces
<1>5. Traces(h, d, t, N)
    BY <1>1, <1>4 DEF Traces
<1>6. g[N] = h[N]
    BY <1>1, <1>2, <1>3, <1>5, TracesAgree
<1>7. h[N + 1] = Apply(h[N], c)
  <2>1. N + 1 \in 1..(N + 1) /\ (N + 1) - 1 = N
      BY <1>1
  <2> QED
      BY <1>2, <1>4, <2>1 DEF Traces
<1> QED
    BY <1>3, <1>4, <1>6, <1>7 DEF t

LEMMA ReplayType ==
    ASSUME NEW d \in DB, NEW s \in Seq(Cmd)
    PROVE  Replay(d, s) \in DB
<1> DEFINE N == Len(s)
<1>1. N \in Nat /\ DOMAIN s = 1..N /\ \A i \in 1..N : s[i] \in Cmd
    BY LenProperties, ElementOfSeq
<1> HIDE DEF N
<1>2. PICK h : Traces(h, d, s, N) /\ Replay(d, s) = h[N]
    BY <1>1, ReplayTraces
<1> DEFINE G == {n \in Nat : h[n] \in DB}
<1>3. 0 \in G
    BY <1>2 DEF Traces
<1>4. ASSUME NEW n \in Nat, n \in G, n < N PROVE n + 1 \in G
  <2>1. n + 1 \in 1..N /\ (n + 1) - 1 = n /\ n + 1 \in Nat
      BY <1>1, <1>4
  <2>2. h[n + 1] = Apply(h[n], s[n + 1]) /\ h[n] \in DB /\ s[n + 1] \in Cmd
      BY <1>1, <1>2, <1>4, <2>1 DEF Traces
  <2>3. \A e \in DB, c \in Cmd : Apply(e, c) \in DB
      BY DEF DB, Cmd, Write, Apply
  <2> QED
      BY <2>1, <2>2, <2>3
<1>5. \A n \in 0..N : n \in G
  <2> HIDE DEF G
  <2> QED
      BY <1>1, <1>3, <1>4, NumbersUpTo
<1> QED
    BY <1>1, <1>2, <1>5

-----------------------------------------------------------------------------
(* The types. *)
LEMMA CommandsTypes ==
    /\ <<>> \in Seq(Cmd) /\ Len(<<>>) = 0
    /\ \A s \in Seq(Cmd) : Len(s) \in Nat
    /\ \A s, t \in Seq(Cmd) : s \o t \in Seq(Cmd) /\ Len(s \o t) = Len(s) + Len(t)
    /\ \A s \in Seq(Cmd), c \in Cmd : Append(s, c) \in Seq(Cmd) /\ Len(Append(s, c)) = Len(s) + 1
    /\ \A c \in Cmd : <<c>> \in Seq(Cmd) /\ Len(<<c>>) = 1
<1>1. <<>> \in Seq(Cmd) /\ Len(<<>>) = 0
    BY EmptySeq
<1>2. \A s \in Seq(Cmd) : Len(s) \in Nat
    BY LenProperties
<1>3. \A s, t \in Seq(Cmd) : s \o t \in Seq(Cmd) /\ Len(s \o t) = Len(s) + Len(t)
    BY ConcatProperties
<1>4. \A s \in Seq(Cmd), c \in Cmd : Append(s, c) \in Seq(Cmd) /\ Len(Append(s, c)) = Len(s) + 1
    BY AppendProperties
<1>5. \A c \in Cmd : <<c>> \in Seq(Cmd) /\ Len(<<c>>) = 1
    OBVIOUS
<1> QED
    BY <1>1, <1>2, <1>3, <1>4, <1>5

Rebuild(snap) == [op |-> "rebuild", snap |-> snap]

LEMMA CommandTypes ==
    /\ Write \subseteq Cmd
    /\ \A snap \in DB : Rebuild(snap) \in Cmd
    /\ \A d \in DB, c \in Cmd : Apply(d, c) \in DB
    /\ Empty \in DB
BY DEF Cmd, Write, DB, Apply, Rebuild, Empty

LEMMA HistoryTypes ==
    /\ \A s \in Seq(Write) : Len(s) \in Nat
    /\ \A s \in Seq(Write), c \in Write :
          Append(s, c) \in Seq(Write) /\ Len(Append(s, c)) = Len(s) + 1
    /\ \A s \in Seq(Write) : \A n \in 0..Len(s) :
          SubSeq(s, 1, n) \in Seq(Write) /\ Len(SubSeq(s, 1, n)) = n
<1>1. \A s \in Seq(Write) : Len(s) \in Nat
    BY LenProperties
<1>2. \A s \in Seq(Write), c \in Write :
         Append(s, c) \in Seq(Write) /\ Len(Append(s, c)) = Len(s) + 1
    BY AppendProperties
<1>3. ASSUME NEW s \in Seq(Write), NEW n \in 0..Len(s)
      PROVE  SubSeq(s, 1, n) \in Seq(Write) /\ Len(SubSeq(s, 1, n)) = n
  <2>1. Len(s) \in Nat /\ \A i \in 1..n : s[i] \in Write
      BY LenProperties, ElementOfSeq
  <2> QED
      BY <2>1, SubSeqProperties
<1> QED
    BY <1>1, <1>2, <1>3

LEMMA ChildTypes ==
    /\ NoChild \in ChildType
    /\ \A snap \in DB, buf \in Seq(Cmd) : Forked(snap, buf) \in ChildType
    /\ \A c \in ChildType : c.snap \in DB /\ c.buf \in Seq(Cmd)
    /\ \A c \in ChildType, p \in Phase :
          [c EXCEPT !.phase = p, !.buf = <<>>] \in ChildType /\ [c EXCEPT !.phase = p] \in ChildType
<1>1. NoChild \in ChildType
    BY CommandTypes, CommandsTypes DEF NoChild, ChildType, Phase
<1> QED
    BY <1>1, CommandsTypes DEF Forked, ChildType, Phase

(* The process and its children; the files, the buffers and the history.   *)
ProcessTypes ==
    /\ up \in BOOLEAN /\ db \in DB
    /\ bgsave_requested \in BOOLEAN /\ bgsave \in ChildType
    /\ rewrite_requested \in BOOLEAN /\ rewrite \in ChildType
    /\ pending_output \in BOOLEAN /\ crashes \in Nat

LogTypes ==
    /\ aof_buf \in Seq(Cmd) /\ aof_file \in Seq(Cmd) /\ rewrite_buf \in Seq(Cmd)
    /\ aof_synced \in 0..Len(aof_file)
    /\ ops \in Seq(Write) /\ flushed \in 0..Len(ops) /\ synced_ops \in 0..Len(ops)

RdbTypes ==
    /\ rdb_file \in File /\ tmp_file \in File \cup {NoFile}
    /\ savers \in [Saver -> SaverType]
    /\ \A w \in Saver : savers[w].fd = "tmp" => tmp_file # NoFile
    /\ overlap \in BOOLEAN /\ rdb_overlap \in BOOLEAN

LEMMA TypesSplit ==
    /\ TypeOK <=> ProcessTypes /\ LogTypes /\ RdbTypes
    /\ TypeOK' <=> ProcessTypes' /\ LogTypes' /\ RdbTypes'
BY DEF TypeOK, ProcessTypes, LogTypes, RdbTypes

(* Files, and those who write them.                                        *)
LEMMA FileTypes ==
    /\ NewFile \in File
    /\ \A d \in DB : Dump(d) \in File /\ Dump(d)[1] = {d}
    /\ \A f \in File, b \in 1..Blocks, d \in DB : [f EXCEPT ![b] = {d}] \in File
    /\ NoFile \notin File
    /\ 1 \in 1..Blocks
BY PersistenceAssumption DEF File, NewFile, Dump, NoFile

LEMMA SaverTypes ==
    /\ Idle \in SaverType /\ Idle.step = "idle" /\ Idle.fd = "none" /\ Idle.done = 0
    /\ Unlinked \in SaverType /\ Unlinked.step = "unlinked" /\ Unlinked.fd = "none"
    /\ [Idle EXCEPT !.step = "failed"] \in SaverType
    /\ [Idle EXCEPT !.step = "failed"].step = "failed"
    /\ [Idle EXCEPT !.step = "failed"].fd = "none"
    /\ [step |-> "writing", fd |-> "tmp", done |-> 0] \in SaverType
    /\ \A r \in SaverType :
         /\ \A n \in 0..Blocks : /\ [r EXCEPT !.done = n] \in SaverType
                                 /\ [r EXCEPT !.done = n].fd = r.fd
                                 /\ [r EXCEPT !.done = n].step = r.step
                                 /\ [r EXCEPT !.done = n].done = n
         /\ \A x \in {"rdb", "gone"} : /\ [r EXCEPT !.fd = x] \in SaverType
                                       /\ [r EXCEPT !.fd = x].fd = x
                                       /\ [r EXCEPT !.fd = x].step = r.step
BY PersistenceAssumption DEF SaverType, Idle, Unlinked

(* What a restart may load is a keyspace; of a whole dump it is its own.    *)
LEMMA LoadsTypes == \A f \in File : \A d \in Loads(f) : d \in DB
<1> SUFFICES ASSUME NEW f \in File, NEW d \in Loads(f) PROVE d \in DB
    OBVIOUS
<1> DEFINE S == UNION {f[b] : b \in 1..Blocks}
<1>1. f[1] \subseteq DB /\ S \subseteq DB /\ Empty \in DB
  <2>1. \A b \in 1..Blocks : f[b] \subseteq DB
      BY DEF File
  <2>2. 1 \in 1..Blocks
      BY PersistenceAssumption
  <2>3. S \subseteq DB
      BY <2>1
  <2> QED
      BY <2>1, <2>2, <2>3, CommandTypes
<1>2. \A e \in Mixtures(S) : e \in DB
    BY <1>1 DEF Mixtures, DB
<1>3. d \in f[1] \/ d = Empty \/ d \in Mixtures(S)
    BY DEF Loads
<1> HIDE DEF S
<1>4. CASE d \in Mixtures(S)
    BY <1>2, <1>4
<1>5. CASE d \in f[1] \/ d = Empty
    BY <1>1, <1>5
<1> QED
    BY <1>3, <1>4, <1>5

LEMMA LoadsDump ==
    \A d \in DB : Loads(Dump(d)) = {d} /\ (CHOOSE e \in Loads(Dump(d)) : TRUE) = d
<1>1. \A d \in DB : Loads(Dump(d)) = {d}
    BY FileTypes DEF Loads
<1>2. ASSUME NEW d PROVE (CHOOSE e \in {d} : TRUE) = d
    OBVIOUS
<1> QED
    BY <1>1, <1>2

LEMMA InitTypes == Init => TypeOK
<1> SUFFICES ASSUME Init PROVE TypeOK
    OBVIOUS
<1>4. RdbTypes
    BY FileTypes, SaverTypes, CommandTypes DEF Init, RdbTypes
<1>1. ProcessTypes
    BY CommandTypes, ChildTypes DEF Init, ProcessTypes
<1>2. <<>> \in Seq(Write) /\ <<>> \in Seq(Cmd) /\ Len(<<>>) = 0
    BY EmptySeq
<1>3. LogTypes
    BY <1>2, CommandTypes DEF Init, LogTypes
<1> QED
    BY <1>1, <1>3, <1>4, TypesSplit

(* Writing out only adds to the file.                                      *)
LEMMA FlushTypes ==
    ASSUME TypeOK, NEW s \in Seq(Cmd), aof_file' = aof_file \o s
    PROVE  aof_file' \in Seq(Cmd) /\ aof_synced \in 0..Len(aof_file') /\ Len(aof_file') \in Nat
<1>1. aof_file \in Seq(Cmd) /\ aof_synced \in 0..Len(aof_file)
    BY TypesSplit DEF LogTypes
<1>2. Len(s) \in Nat /\ Len(aof_file) \in Nat /\ aof_file' \in Seq(Cmd)
      /\ Len(aof_file') = Len(aof_file) + Len(s)
    BY <1>1, CommandsTypes
<1>3. \A i, j, k \in Nat : i <= j => i <= j + k
    OBVIOUS
<1> QED
    BY <1>1, <1>2, <1>3

(* What a step of rdb_save_file_at leaves alone, and who else touches the  *)
(* RDB file, its temporary file and their writers.                         *)
LEMMA SaverFrame ==
    ASSUME NEW w \in Saver, SaverStep(w)
    PROVE  /\ UNCHANGED <<up, db, aof_buf, aof_file, aof_synced, bgsave_requested,
                          rewrite_requested, rewrite, rewrite_buf, pending_output, overlap,
                          history>>
           /\ \/ bgsave' = bgsave
              \/ w = "child" /\ \E p \in {"ok", "failed"} : bgsave' = [bgsave EXCEPT !.phase = p]
           /\ savers[w].step \in {"unlinked", "writing", "failed"}
<1>1. CASE SaverOpens(w) \/ SaverWrites(w) \/ SaverErrs(w)
    BY <1>1 DEF SaverOpens, SaverWrites, SaverErrs, children
<1>2. CASE SaverRenames(w) \/ SaverCannotOpen(w) \/ SaverCleansUp(w)
    BY <1>2 DEF SaverRenames, Rename, SaverCannotOpen, SaverCleansUp, Exit
<1> QED
    BY <1>1, <1>2 DEF SaverStep

LEMMA RdbSteps ==
    ASSUME [Next]_vars
    PROVE  \/ UNCHANGED rdb
           \/ Save \/ BgsaveSaves \/ StartBgsave \/ BgsaveDies
           \/ Crash \/ Shutdown \/ \E w \in Saver : SaverStep(w)
BY DEF Next, vars, disk, rdb, Execute, Flush, WaitAof, Request, ClientStalls, ClientReads, ReapBgsave,
   StartRewrite, ReapRewrite, ReapFailedRewrite, BgsaveClosesFds, RewriteClosesFds, RewriteSaves,
   RewriteDies, Restart

LEMMA UnlinkTypes ==
    ASSUME RdbTypes, NEW w \in Saver, NEW next \in SaverType, next.fd # "tmp", Unlink(w, next)
    PROVE  /\ savers' \in [Saver -> SaverType] /\ tmp_file' = NoFile
           /\ \A v \in Saver : savers'[v].fd # "tmp"
BY SaverTypes DEF RdbTypes, Unlink

LEMMA RdbTypesStep ==
    ASSUME TypeOK, [Next]_vars
    PROVE  RdbTypes'
<1>0. RdbTypes /\ db \in DB /\ bgsave.snap \in DB
    BY TypesSplit, ChildTypes DEF ProcessTypes
<1>1. CASE UNCHANGED rdb
    BY <1>0, <1>1 DEF rdb, RdbTypes
<1>2. CASE Save \/ BgsaveSaves
  <2>1. PICK w \in Saver : Unlink(w, Unlinked)
      BY <1>2 DEF Save, BgsaveSaves, Saver
  <2>2. overlap' \in BOOLEAN /\ UNCHANGED <<rdb_file, rdb_overlap>>
    <3>1. BgsaveAlive \in BOOLEAN
        BY DEF BgsaveAlive
    <3>2. (overlap' = BgsaveAlive \/ overlap' = overlap) /\ UNCHANGED <<rdb_file, rdb_overlap>>
        BY <1>2 DEF Save, BgsaveSaves
    <3> QED
        BY <1>0, <3>1, <3>2 DEF RdbTypes
  <2> QED
      BY <1>0, <2>1, <2>2, UnlinkTypes, SaverTypes DEF RdbTypes
<1>3. CASE StartBgsave
    BY <1>0, <1>3 DEF StartBgsave, RdbTypes
<1>4. CASE BgsaveDies \/ Crash \/ Shutdown
  <2>1. /\ savers' = [savers EXCEPT !["child"] = Idle] \/ savers' = [w \in Saver |-> Idle]
        /\ UNCHANGED <<rdb_file, tmp_file, overlap, rdb_overlap>>
      BY <1>4 DEF BgsaveDies, Crash, Shutdown, ProcessGone
  <2> QED
      BY <1>0, <2>1, SaverTypes DEF RdbTypes
<1>5. ASSUME NEW w \in Saver, SaverStep(w) PROVE RdbTypes'
  <2>1. overlap' = overlap
      BY <1>5, SaverFrame
  <2>2. CASE SaverOpens(w)
      BY <1>0, <2>2, FileTypes, SaverTypes DEF SaverOpens, RdbTypes
  <2>3. CASE SaverWrites(w)
    <3>1. PICK b : b = savers[w].done + 1
        OBVIOUS
    <3>2. /\ b <= Blocks /\ savers' = [savers EXCEPT ![w].done = b] /\ rdb_overlap' = rdb_overlap
          /\ tmp_file' = IF savers[w].fd = "tmp" THEN [tmp_file EXCEPT ![b] = {Snapshot(w)}]
                         ELSE tmp_file
          /\ rdb_file' = IF savers[w].fd = "rdb" THEN [rdb_file EXCEPT ![b] = {Snapshot(w)}]
                         ELSE rdb_file
        BY <2>3, <3>1 DEF SaverWrites
    <3>3. b \in 1..Blocks /\ b \in 0..Blocks /\ Snapshot(w) \in DB
      <4>1. savers[w].done \in 0..Blocks
          BY <1>0 DEF RdbTypes, SaverType
      <4> QED
          BY <1>0, <3>1, <3>2, <4>1, PersistenceAssumption DEF Snapshot
    <3>4. rdb_file' \in File /\ tmp_file' \in File \cup {NoFile}
          /\ (tmp_file # NoFile => tmp_file' # NoFile)
        BY <1>0, <3>2, <3>3, FileTypes DEF RdbTypes
    <3>5. savers' \in [Saver -> SaverType] /\ \A v \in Saver : savers'[v].fd = savers[v].fd
      <4>1. savers' = [savers EXCEPT ![w] = [savers[w] EXCEPT !.done = b]]
          BY <3>2
      <4>2. savers \in [Saver -> SaverType] /\ savers[w] \in SaverType
          BY <1>0 DEF RdbTypes
      <4>3. /\ [savers[w] EXCEPT !.done = b] \in SaverType
            /\ [savers[w] EXCEPT !.done = b].fd = savers[w].fd
          BY <3>3, <4>2 DEF SaverType
      <4> QED
          BY <4>1, <4>2, <4>3
    <3> QED
        BY <1>0, <2>1, <3>2, <3>4, <3>5 DEF RdbTypes
  <2>4. CASE SaverRenames(w)
    <3>1. /\ tmp_file \in File /\ rdb_file' = tmp_file /\ tmp_file' = NoFile
          /\ rdb_overlap' = overlap
        BY <1>0, <2>4 DEF SaverRenames, Rename, RdbTypes
    <3>2. /\ savers' \in [Saver -> SaverType]
          /\ \A v \in Saver : savers'[v].fd # "tmp"
        BY <1>0, <2>4, SaverTypes DEF SaverRenames, Rename, RdbTypes
    <3> QED
        BY <1>0, <2>1, <3>1, <3>2 DEF RdbTypes
  <2>5. CASE SaverCannotOpen(w) \/ SaverErrs(w)
    <3>1. PICK r \in SaverType : r.fd = "none" /\ savers' = [savers EXCEPT ![w] = r]
        BY <1>0, <2>5, SaverTypes DEF SaverCannotOpen, SaverErrs
    <3>2. UNCHANGED <<rdb_file, tmp_file, rdb_overlap>>
        BY <2>5 DEF SaverCannotOpen, SaverErrs
    <3> QED
        BY <1>0, <2>1, <3>1, <3>2 DEF RdbTypes
  <2>6. CASE SaverCleansUp(w)
      BY <1>0, <2>1, <2>6, UnlinkTypes, SaverTypes DEF SaverCleansUp, RdbTypes
  <2> QED
      BY <1>5, <2>2, <2>3, <2>4, <2>5, <2>6 DEF SaverStep
<1> QED
    BY <1>1, <1>2, <1>3, <1>4, <1>5, RdbSteps

LEMMA TypesStep ==
    ASSUME TypeOK, [Next]_vars
    PROVE  TypeOK'
<1> SUFFICES ProcessTypes' /\ LogTypes'
    BY RdbTypesStep, TypesSplit
<1>0. ProcessTypes /\ LogTypes
    BY TypesSplit
<1>a. Len(ops) \in Nat /\ Len(aof_file) \in Nat /\ Len(ops) \in 0..Len(ops)
    BY <1>0, HistoryTypes, CommandsTypes DEF LogTypes
<1>1. ASSUME NEW c \in Write, Execute(c) PROVE ProcessTypes' /\ LogTypes'
  <2>1. c \in Cmd /\ db' \in DB
      BY <1>0, <1>1, CommandTypes DEF Execute, ProcessTypes
  <2>2. ProcessTypes'
      BY <1>0, <1>1, <2>1 DEF Execute, ProcessTypes
  <2>3. rewrite_buf' \in Seq(Cmd)
      BY <1>0, <1>1, <2>1, CommandsTypes DEF Execute, LogTypes
  <2>4. ops' \in Seq(Write) /\ Len(ops') = Len(ops) + 1
      BY <1>0, <1>1, HistoryTypes DEF Execute, LogTypes
  <2>5. /\ aof_buf' \in Seq(Cmd) /\ aof_file' \in Seq(Cmd) /\ aof_synced \in 0..Len(aof_file')
        /\ flushed' \in {flushed, Len(ops)}
    <3>1. CASE Len(aof_buf) = BufCap
      <4>1. aof_file' = aof_file \o aof_buf /\ aof_buf' = <<c>> /\ flushed' = Len(ops)
          BY <1>1, <3>1 DEF Execute, AppendAof
      <4>2. aof_buf \in Seq(Cmd)
          BY <1>0 DEF LogTypes
      <4> QED
          BY <2>1, <4>1, <4>2, CommandsTypes, FlushTypes
    <3>2. CASE Len(aof_buf) # BufCap
      <4>1. aof_file' = aof_file /\ aof_buf' = Append(aof_buf, c) /\ flushed' = flushed
          BY <1>1, <3>2 DEF Execute, AppendAof
      <4> QED
          BY <1>0, <2>1, <4>1, CommandsTypes DEF LogTypes
    <3> QED
        BY <3>1, <3>2
  <2>6. flushed' \in 0..Len(ops') /\ synced_ops' \in 0..Len(ops')
    <3>1. flushed \in 0..Len(ops) /\ synced_ops \in 0..Len(ops) /\ synced_ops' = synced_ops
        BY <1>0, <1>1 DEF LogTypes, Execute
    <3> QED
        BY <1>a, <2>4, <2>5, <3>1
  <2>7. LogTypes'
      BY <1>0, <1>1, <2>3, <2>4, <2>5, <2>6 DEF Execute, LogTypes
  <2> QED
      BY <2>2, <2>7
<1>2. ASSUME FlushAof
      PROVE  /\ aof_file' \in Seq(Cmd) /\ aof_synced \in 0..Len(aof_file') /\ Len(aof_file') \in Nat
             /\ aof_buf' = <<>> /\ aof_buf' \in Seq(Cmd) /\ flushed' = Len(ops)
  <2>1. aof_buf \in Seq(Cmd)
      BY <1>0 DEF LogTypes
  <2> QED
      BY <1>2, <2>1, FlushTypes, CommandsTypes DEF FlushAof
<1>3. CASE Flush
    BY <1>0, <1>a, <1>2, <1>3 DEF Flush, ProcessTypes, LogTypes, children
<1>4. CASE WaitAof
    BY <1>0, <1>a, <1>2, <1>4 DEF WaitAof, ProcessTypes, LogTypes, children
<1>5. CASE Save
    BY <1>0, <1>5 DEF Save, ProcessTypes, LogTypes, children, history
<1>6. ASSUME NEW S \in Batch, Request(S) PROVE ProcessTypes' /\ LogTypes'
    BY <1>0, <1>6 DEF Request, ProcessTypes, LogTypes, disk, rdb, history
<1>7. CASE ClientStalls \/ ClientReads
    BY <1>0, <1>7 DEF ClientStalls, ClientReads, ProcessTypes, LogTypes, disk, rdb, children, history
<1>8. CASE ReapBgsave
    BY <1>0, <1>8, ChildTypes DEF ReapBgsave, ProcessTypes, LogTypes, disk, rdb, history
<1>9. CASE StartBgsave
  <2>1. Forked(db, aof_buf) \in ChildType
      BY <1>0, ChildTypes DEF ProcessTypes, LogTypes
  <2>2. bgsave' \in ChildType
      BY <1>0, <1>9, <2>1 DEF StartBgsave, ProcessTypes
  <2> QED
      BY <1>0, <1>9, <2>2 DEF StartBgsave, ProcessTypes, LogTypes, disk, rdb, history
<1>10. CASE StartRewrite
  <2>1. FlushAof /\ rewrite' = Forked(db, aof_buf') /\ rewrite_buf' = <<>>
      BY <1>10 DEF StartRewrite
  <2>2. rewrite' \in ChildType /\ rewrite_buf' \in Seq(Cmd)
      BY <1>0, <1>2, <2>1, ChildTypes, CommandsTypes DEF ProcessTypes
  <2> QED
      BY <1>0, <1>a, <1>2, <1>10, <2>1, <2>2 DEF StartRewrite, ProcessTypes, LogTypes
<1>11. CASE ReapRewrite
  <2>1. Rebuild(rewrite.snap) \in Cmd /\ rewrite_buf \in Seq(Cmd)
      BY <1>0, CommandTypes, ChildTypes DEF ProcessTypes, LogTypes
  <2>2. aof_file' = <<Rebuild(rewrite.snap)>> \o rewrite_buf /\ aof_synced' = 1 /\ aof_buf' = <<>>
        /\ rewrite' = NoChild /\ rewrite_buf' = <<>> /\ flushed' = Len(ops)
      BY <1>11 DEF ReapRewrite, Rebuild
  <2>3. aof_file' \in Seq(Cmd) /\ Len(aof_file') = 1 + Len(rewrite_buf) /\ Len(rewrite_buf) \in Nat
      BY <2>1, <2>2, CommandsTypes
  <2>4. aof_synced' \in 0..Len(aof_file')
      BY <2>2, <2>3
  <2> QED
      BY <1>0, <1>a, <1>11, <2>2, <2>3, <2>4, ChildTypes, CommandsTypes
         DEF ReapRewrite, ProcessTypes, LogTypes
<1>12. CASE ReapFailedRewrite
    BY <1>0, <1>12, ChildTypes, CommandsTypes
       DEF ReapFailedRewrite, ProcessTypes, LogTypes, disk, rdb, history
<1>13. CASE BgsaveClosesFds \/ RewriteClosesFds
  <2>1. PICK s \in Seq(Cmd) : aof_file' = aof_file \o s
      BY <1>0, <1>13, ChildTypes DEF BgsaveClosesFds, RewriteClosesFds, ProcessTypes
  <2>2. aof_file' \in Seq(Cmd) /\ aof_synced \in 0..Len(aof_file')
      BY SMTT(30), <2>1, FlushTypes
  <2>3. bgsave' \in ChildType /\ rewrite' \in ChildType
      BY ZenonT(60), <1>0, <1>13, ChildTypes DEF BgsaveClosesFds, RewriteClosesFds, ProcessTypes, Phase
  <2> QED
      BY <1>0, <1>13, <2>2, <2>3
         DEF BgsaveClosesFds, RewriteClosesFds, ProcessTypes, LogTypes, history
<1>14. CASE BgsaveSaves \/ RewriteSaves \/ BgsaveDies \/ RewriteDies \/ (\E w \in Saver : SaverStep(w))
  <2>1. bgsave' \in ChildType /\ rewrite' \in ChildType
      BY <1>0, <1>14, ChildTypes, SaverFrame
         DEF BgsaveSaves, RewriteSaves, BgsaveDies, RewriteDies, ProcessTypes, LogTypes, Phase,
             children
  <2>2. UNCHANGED <<up, db, aof_buf, aof_file, aof_synced, bgsave_requested, rewrite_requested,
                    rewrite_buf, pending_output, history>>
      BY <1>14, SaverFrame DEF BgsaveSaves, RewriteSaves, BgsaveDies, RewriteDies, disk, rdb, children
  <2> QED
      BY <1>0, <2>1, <2>2 DEF ProcessTypes, LogTypes, history
<1>15. ASSUME ProcessGone
       PROVE  ProcessTypes' /\ aof_buf' \in Seq(Cmd) /\ rewrite_buf' \in Seq(Cmd)
  <2>1. /\ up' = FALSE /\ db' = Empty /\ aof_buf' = <<>> /\ rewrite_buf' = <<>>
        /\ bgsave' = NoChild /\ rewrite' = NoChild /\ pending_output' = FALSE
        /\ bgsave_requested' = FALSE /\ rewrite_requested' = FALSE /\ crashes' = crashes + 1
      BY <1>15 DEF ProcessGone
  <2>2. NoChild \in ChildType /\ Empty \in DB /\ <<>> \in Seq(Cmd)
      BY ChildTypes, CommandTypes, CommandsTypes
  <2>3. crashes' \in Nat
      BY <1>0, <2>1 DEF ProcessTypes
  <2> QED
      BY <2>1, <2>2, <2>3 DEF ProcessTypes
<1>16. CASE Crash
  <2>1. flushed \in 0..Len(ops) /\ synced_ops \in 0..Len(ops) /\ ops \in Seq(Write)
      BY <1>0 DEF LogTypes
  <2>2. ops' \in Seq(Write) /\ Len(ops') = flushed /\ flushed' = flushed
      BY <1>16, <2>1, HistoryTypes DEF Crash
  <2>3. synced_ops' \in 0..flushed
      BY <1>a, <1>16, <2>1 DEF Crash
  <2>4. flushed' \in 0..Len(ops') /\ synced_ops' \in 0..Len(ops')
      BY <1>a, <2>1, <2>2, <2>3
  <2> QED
      BY <1>0, <1>15, <1>16, <2>2, <2>4 DEF Crash, LogTypes, disk, rdb
<1>17. CASE Shutdown
  <2>1. aof_file' \in Seq(Cmd) /\ aof_synced \in 0..Len(aof_file')
      BY <1>0, <1>17, FlushTypes DEF Shutdown, LogTypes
  <2> QED
      BY <1>0, <1>a, <1>15, <1>17, <2>1 DEF Shutdown, LogTypes
<1>18. CASE Restart
  <2>1. db' \in DB
      BY <1>0, <1>18, TypesSplit, LoadsTypes, ReplayType DEF Restart, LogTypes, RdbTypes
  <2> QED
      BY <1>0, <1>18, <2>1 DEF Restart, ProcessTypes, LogTypes, disk, rdb, children, history
<1>19. CASE UNCHANGED vars
    BY <1>0, <1>19 DEF vars, ProcessTypes, LogTypes, disk, rdb, children, history
<1> QED
    BY <1>1, <1>3, <1>4, <1>5, <1>6, <1>7, <1>8, <1>9, <1>10, <1>11, <1>12, <1>13, <1>14,
       <1>16, <1>17, <1>18, <1>19 DEF Next

(* What the fields of the persistence runtime and the files hold: a replay *)
(* of any AOF over any RDB file is a keyspace, and no more is counted as   *)
(* written out, or as fsynced, than there is.                              *)
THEOREM PersistenceTyped == Spec => []TypeOK
BY InitTypes, TypesStep, PTL DEF Spec

-----------------------------------------------------------------------------
(* Those who write the RDB file.  Blocks 1..n of a dump of d, so far.      *)
Partial(d, n) == [b \in 1..Blocks |-> IF b <= n THEN {d} ELSE {}]

(* A saver in the child is the child's work.  Only who writes has a file   *)
(* open.                                                                   *)
Working ==
    /\ ~up => bgsave.phase = "none" /\ \A w \in Saver : savers[w].step = "idle"
    /\ savers["child"].step # "idle" => bgsave.phase = "saving"
    /\ \A w \in Saver : savers[w].step # "writing" => savers[w].fd = "none"

(* SAVE and a live child are together only in an overlap, and only there   *)
(* may a saver find its file renamed; alone, it has written what the       *)
(* temporary file holds.                                                   *)
Meeting ==
    /\ savers["server"].step # "idle" /\ BgsaveAlive => overlap
    /\ \A w \in Saver : savers[w].fd = "rdb" => overlap /\ rdb_overlap
    /\ \A w \in Saver : savers[w].step = "writing" /\ ~overlap =>
          savers[w].fd = "tmp" /\ tmp_file = Partial(Snapshot(w), savers[w].done)

WritingInv == TypeOK /\ Working /\ Meeting

LEMMA PartialDump ==
    /\ \A d \in DB : Partial(d, 0) = NewFile /\ Partial(d, Blocks) = Dump(d)
    /\ \A d \in DB, n \in 0..Blocks : n + 1 <= Blocks =>
          [Partial(d, n) EXCEPT ![n + 1] = {d}] = Partial(d, n + 1)
<1>1. \A d \in DB : Partial(d, 0) = NewFile /\ Partial(d, Blocks) = Dump(d)
    BY PersistenceAssumption DEF Partial, NewFile, Dump
<1>2. ASSUME NEW d \in DB, NEW n \in 0..Blocks, n + 1 <= Blocks
      PROVE  [Partial(d, n) EXCEPT ![n + 1] = {d}] = Partial(d, n + 1)
  <2>1. \A b \in 1..Blocks : b <= n + 1 <=> b <= n \/ b = n + 1
      BY PersistenceAssumption
  <2> QED
      BY <2>1 DEF Partial
<1> QED
    BY <1>1, <1>2

LEMMA WritingInit == Init => WritingInv
BY InitTypes, SaverTypes DEF Init, WritingInv, Working, Meeting, Saver

(* What a step of one saver does to the others: at most their file loses    *)
(* its name or gets another.                                               *)
LEMMA OtherSavers ==
    ASSUME RdbTypes, NEW w \in Saver, NEW v \in Saver, v # w,
           SaverStep(w) \/ \E next : Unlink(w, next)
    PROVE  /\ savers'[v].step = savers[v].step
           /\ savers'[v].fd = savers[v].fd \/ savers'[v].fd \in {"rdb", "gone"}
<1>1. savers[v] \in SaverType /\ savers \in [Saver -> SaverType]
    BY DEF RdbTypes
<1>2. ASSUME NEW next, Unlink(w, next)
      PROVE  savers'[v] = savers[v] \/ savers'[v] = [savers[v] EXCEPT !.fd = "gone"]
    BY <1>2 DEF Unlink
<1>3. CASE SaverOpens(w) \/ SaverWrites(w) \/ SaverCannotOpen(w) \/ SaverErrs(w)
    BY <1>1, <1>3 DEF SaverOpens, SaverWrites, SaverCannotOpen, SaverErrs
<1>4. CASE SaverRenames(w)
  <2>1. \/ savers'[v] = savers[v]
        \/ \E x \in {"rdb", "gone"} : savers'[v] = [savers[v] EXCEPT !.fd = x]
      BY <1>1, <1>4 DEF SaverRenames, Rename
  <2>2. ASSUME NEW x \in {"rdb", "gone"}, savers'[v] = [savers[v] EXCEPT !.fd = x]
        PROVE  savers'[v].step = savers[v].step /\ savers'[v].fd \in {"rdb", "gone"}
      BY <1>1, <2>2, SaverTypes
  <2> QED
      BY <2>1, <2>2
<1>5. CASE SaverCleansUp(w) \/ \E next : Unlink(w, next)
    BY ZenonT(60), <1>1, <1>2, <1>5, SaverTypes DEF SaverCleansUp
<1> QED
    BY <1>3, <1>4, <1>5 DEF SaverStep

(* The steps that leave the savers alone: the keyspace changes only in the *)
(* event loop or at a restart, and no child comes to life.                 *)
LEMMA BesidesSavers ==
    ASSUME [Next]_vars, UNCHANGED rdb, ~Save, ~BgsaveSaves, ~StartBgsave, ~BgsaveDies, ~Crash,
           ~Shutdown, ~\E w \in Saver : SaverStep(w)
    PROVE  /\ up' = up \/ ~up
           /\ db' = db \/ ~up \/ savers["server"].step = "idle"
           /\ \/ bgsave' = bgsave
              \/ bgsave' = NoChild /\ bgsave.phase \in {"ok", "failed"}
              \/ bgsave.phase = "forked" /\ bgsave' = [bgsave EXCEPT !.phase = "saving", !.buf = <<>>]
BY DEF Next, vars, disk, children, Execute, Flush, WaitAof, Request, ClientStalls, ClientReads, ReapBgsave,
   StartRewrite, ReapRewrite, ReapFailedRewrite, BgsaveClosesFds, RewriteClosesFds, RewriteSaves,
   RewriteDies, Restart, Running

LEMMA WritingStep ==
    ASSUME WritingInv, [Next]_vars
    PROVE  WritingInv'
<1>0. /\ TypeOK /\ TypeOK' /\ RdbTypes /\ savers \in [Saver -> SaverType]
      /\ "child" \in Saver /\ "server" \in Saver /\ bgsave \in ChildType /\ db \in DB
      /\ savers' \in [Saver -> SaverType] /\ \A w \in Saver : w \in {"server", "child"}
    BY TypesStep, TypesSplit DEF WritingInv, RdbTypes, ProcessTypes, Saver
<1>1. Working /\ Meeting
    BY DEF WritingInv
<1> SUFFICES Working' /\ Meeting'
    BY <1>0 DEF WritingInv
<1>2. CASE UNCHANGED rdb /\ ~(Save \/ BgsaveSaves \/ StartBgsave \/ BgsaveDies \/ Crash \/ Shutdown
                             \/ \E w \in Saver : SaverStep(w))
  <2>1. /\ UNCHANGED <<rdb_file, tmp_file, savers, overlap, rdb_overlap>>
        /\ up' = up \/ ~up
        /\ db' = db \/ ~up \/ savers["server"].step = "idle"
        /\ \/ bgsave' = bgsave
           \/ bgsave' = NoChild /\ bgsave.phase \in {"ok", "failed"}
           \/ bgsave.phase = "forked" /\ bgsave' = [bgsave EXCEPT !.phase = "saving", !.buf = <<>>]
      BY <1>2, BesidesSavers DEF rdb
  <2>2. Working'
      BY <1>0, <1>1, <2>1 DEF Working, NoChild, ChildType
  <2>3. BgsaveAlive' => BgsaveAlive
      BY <1>0, <2>1 DEF BgsaveAlive, NoChild, ChildType
  <2>4. \A w \in Saver : savers[w].step = "writing" => Snapshot(w)' = Snapshot(w)
      BY <1>0, <1>1, <2>1 DEF Working, Snapshot
  <2> QED
      BY <1>1, <2>1, <2>2, <2>3, <2>4 DEF Meeting
<1>3. CASE Save
  <2>1. /\ Unlink("server", Unlinked) /\ overlap' = BgsaveAlive /\ savers["server"].step = "idle" /\ up
        /\ UNCHANGED <<up, db, bgsave, rdb_overlap>>
      BY <1>3 DEF Save, Running, children
  <2>2. savers'["server"].step = "unlinked" /\ savers'["server"].fd = "none"
      BY <1>0, <2>1, SaverTypes DEF Unlink
  <2>3. /\ savers'["child"].step = savers["child"].step
        /\ \/ savers'["child"].fd = savers["child"].fd
           \/ savers'["child"].fd = "gone" /\ savers["child"].fd = "tmp"
      BY <1>0, <2>1, SaverTypes DEF Unlink
  <2>4. savers["child"].step # "idle" => overlap'
      BY <1>1, <2>1 DEF Working, BgsaveAlive
  <2>5. Working'
      BY <1>0, <1>1, <2>1, <2>2, <2>3 DEF Working
  <2> QED
      BY <1>0, <1>1, <2>1, <2>2, <2>3, <2>4, <2>5 DEF Meeting, Working, BgsaveAlive
<1>4. CASE BgsaveSaves
  <2>1. /\ Unlink("child", Unlinked) /\ savers["child"].step = "idle" /\ bgsave.phase = "saving"
        /\ UNCHANGED <<up, db, bgsave, overlap, rdb_overlap>>
      BY <1>4 DEF BgsaveSaves, children
  <2>2. savers'["child"].step = "unlinked" /\ savers'["child"].fd = "none"
      BY <1>0, <2>1, SaverTypes DEF Unlink
  <2>3. /\ savers'["server"].step = savers["server"].step
        /\ \/ savers'["server"].fd = savers["server"].fd
           \/ savers'["server"].fd = "gone" /\ savers["server"].fd = "tmp"
      BY <1>0, <2>1, SaverTypes DEF Unlink
  <2>4. savers["server"].step # "idle" => overlap
      BY <1>1, <2>1 DEF Meeting, BgsaveAlive
  <2>5. savers["server"].step = "idle" => savers["server"].fd = "none"
      BY <1>0, <1>1 DEF Working
  <2>6. Working'
    <3>1. up'
        BY <1>1, <2>1 DEF Working
    <3>2. \A w \in Saver : savers'[w].step # "writing" => savers'[w].fd = "none"
        BY <1>0, <1>1, <2>1, <2>2, <2>3 DEF Working
    <3> QED
        BY <2>1, <3>1, <3>2 DEF Working
  <2>7. /\ \A w \in Saver : ~(savers'[w].step = "writing" /\ ~overlap')
        /\ \A w \in Saver : savers'[w].fd = "rdb" => overlap' /\ rdb_overlap'
      BY <1>0, <1>1, <2>1, <2>2, <2>3, <2>4 DEF Meeting
  <2>8. savers'["server"].step # "idle" => overlap'
      BY <2>1, <2>3, <2>4
  <2>9. Meeting'
      BY <2>7, <2>8 DEF Meeting
  <2> QED
      BY <2>6, <2>9
<1>5. CASE StartBgsave
  <2>1. /\ savers["server"].step = "idle" /\ bgsave.phase = "none" /\ up
        /\ UNCHANGED <<up, db, rdb_file, tmp_file, savers, rdb_overlap>>
        /\ (bgsave' = bgsave /\ overlap' = overlap) \/ overlap' = FALSE
      BY <1>5 DEF StartBgsave, Running, BgsaveInProgress
  <2>2. \A w \in Saver : savers[w].step = "idle" /\ savers[w].fd = "none"
      BY <1>0, <1>1, <2>1 DEF Working
  <2> QED
      BY <1>0, <2>1, <2>2 DEF Meeting, Working
<1>6. CASE BgsaveDies
  <2>1. /\ savers' = [savers EXCEPT !["child"] = Idle] /\ bgsave'.phase = "failed"
        /\ UNCHANGED <<up, db, tmp_file, overlap, rdb_overlap>>
      BY <1>0, <1>6 DEF BgsaveDies, ChildType
  <2>2. /\ savers'["child"].step = "idle" /\ savers'["child"].fd = "none"
        /\ savers'["server"] = savers["server"]
      BY <1>0, <2>1, SaverTypes
  <2>3. up /\ up' /\ ~BgsaveAlive'
      BY <1>1, <1>6, <2>1 DEF BgsaveDies, BgsaveAlive, Working
  <2>4. Working'
      BY <1>0, <1>1, <2>2, <2>3 DEF Working
  <2>5. Snapshot("server")' = Snapshot("server")
      BY <2>1 DEF Snapshot
  <2> QED
      BY <1>0, <1>1, <2>1, <2>2, <2>3, <2>4, <2>5 DEF Meeting
<1>7. CASE Crash \/ Shutdown
  <2>1. savers' = [w \in Saver |-> Idle]
      BY <1>7 DEF Crash, Shutdown, ProcessGone
  <2>2. bgsave' = NoChild
      BY <1>7 DEF Crash, Shutdown, ProcessGone
  <2> QED
      BY <1>0, <2>1, <2>2, SaverTypes DEF Meeting, Working, NoChild
<1>8. ASSUME NEW w \in Saver, SaverStep(w) PROVE Working' /\ Meeting'
  <2>1. /\ UNCHANGED <<up, db, overlap>> /\ savers[w].step \in {"unlinked", "writing", "failed"}
        /\ \/ bgsave' = bgsave
           \/ w = "child" /\ \E p \in {"ok", "failed"} : bgsave' = [bgsave EXCEPT !.phase = p]
      BY <1>8, SaverFrame
  <2>2. PICK v \in Saver : v # w /\ \A u \in Saver : u = w \/ u = v
      BY <1>0 DEF Saver
  <2>3. /\ savers'[v].step = savers[v].step
        /\ savers'[v].fd = savers[v].fd \/ savers'[v].fd \in {"rdb", "gone"}
      BY <1>0, <1>8, <2>2, OtherSavers
  <2>4. ~overlap => savers[v].step = "idle" /\ savers[v].fd = "none"
      BY <1>0, <1>1, <2>1, <2>2 DEF Working, Meeting, BgsaveAlive
  <2>5. BgsaveAlive' => BgsaveAlive
      BY <1>0, <2>1 DEF BgsaveAlive, ChildType
  <2>6. up
      BY <1>1, <2>1 DEF Working
  <2>7. Snapshot(w)' = Snapshot(w) /\ Snapshot(w) \in DB
      BY <1>0, <2>1, ChildTypes DEF Snapshot, ChildType
  <2>8. bgsave' = bgsave \/ (w = "child" /\ savers'[w].step = "idle")
      BY <1>0, <1>8, <2>1, SaverTypes
         DEF SaverStep, SaverOpens, SaverWrites, SaverRenames, Rename, SaverCannotOpen, SaverErrs,
             SaverCleansUp, Unlink, Exit, children
  <2>9. savers[v].step # "writing" => savers'[v].fd = "none"
      BY <1>0, <1>1, <1>8, <2>2
         DEF Working, SaverStep, SaverOpens, SaverWrites, SaverRenames, Rename, SaverCannotOpen,
             SaverErrs, SaverCleansUp, Unlink
  <2>10. savers'[v].fd = "rdb" => overlap /\ rdb_overlap'
      <3>1. CASE SaverRenames(w)
          BY <2>1, <2>3, <2>4, <2>9, <3>1 DEF SaverRenames, Rename
      <3>2. CASE ~SaverRenames(w)
        <4>1. savers[v] \in SaverType
            BY <1>0
        <4>2. CASE SaverCleansUp(w)
          <5>1. Unlink(w, Idle) /\ rdb_overlap' = rdb_overlap
              BY <4>2 DEF SaverCleansUp
          <5>2. savers'[v] = savers[v] \/ savers'[v] = [savers[v] EXCEPT !.fd = "gone"]
              BY <2>2, <5>1 DEF Unlink
          <5>3. savers'[v].fd = savers[v].fd \/ savers'[v].fd = "gone"
              BY ZenonT(60), <4>1, <5>2, SaverTypes
          <5> QED
              BY <1>1, <5>1, <5>3 DEF Meeting
        <4>3. CASE SaverOpens(w) \/ SaverWrites(w) \/ SaverCannotOpen(w) \/ SaverErrs(w)
          <5>1. rdb_overlap' = rdb_overlap /\ savers'[v] = savers[v]
              BY <1>0, <2>2, <4>3 DEF SaverOpens, SaverWrites, SaverCannotOpen, SaverErrs
          <5> QED
              BY <1>1, <5>1 DEF Meeting
        <4> QED
            BY <1>8, <3>2, <4>2, <4>3 DEF SaverStep
      <3> QED
          BY <3>1, <3>2
  <2>11. /\ savers'[w].step # "writing" => savers'[w].fd = "none"
         /\ savers'[w].fd = "rdb" => savers[w].fd = "rdb" /\ rdb_overlap' = rdb_overlap
         /\ savers'[w].step = "writing" /\ ~overlap =>
                savers'[w].fd = "tmp" /\ tmp_file' = Partial(Snapshot(w), savers'[w].done)
    <3>1. CASE SaverOpens(w)
        BY <1>0, <2>7, <3>1, PartialDump DEF SaverOpens
    <3>2. CASE SaverWrites(w)
      <4>1. PICK n \in 0..Blocks : n = savers[w].done
          BY <1>0 DEF SaverType
      <4>2. /\ n + 1 <= Blocks /\ savers[w].step = "writing" /\ rdb_overlap' = rdb_overlap
            /\ savers' = [savers EXCEPT ![w] = [savers[w] EXCEPT !.done = n + 1]]
            /\ tmp_file' = IF savers[w].fd = "tmp" THEN [tmp_file EXCEPT ![n + 1] = {Snapshot(w)}]
                           ELSE tmp_file
          BY <3>2, <4>1 DEF SaverWrites
      <4>3. n + 1 \in 0..Blocks /\ savers[w] \in SaverType
          BY <1>0, <4>1, <4>2, PersistenceAssumption
      <4>4. /\ savers'[w].step = "writing" /\ savers'[w].fd = savers[w].fd
            /\ savers'[w].done = n + 1
          BY <1>0, <4>2, <4>3, SaverTypes
      <4>5. ~overlap => savers[w].fd = "tmp" /\ tmp_file = Partial(Snapshot(w), n)
          BY <1>1, <4>1, <4>2 DEF Meeting
      <4> QED
          BY <2>7, <4>2, <4>4, <4>5, PartialDump
    <3>3. CASE SaverRenames(w) \/ SaverCannotOpen(w) \/ SaverErrs(w) \/ SaverCleansUp(w)
        BY ZenonT(60), <1>0, <3>3, SaverTypes
           DEF SaverRenames, Rename, SaverCannotOpen, SaverErrs, SaverCleansUp, Unlink
    <3> QED
        BY <1>8, <3>1, <3>2, <3>3 DEF SaverStep
  <2>12. Working'
      BY <1>0, <1>1, <2>1, <2>2, <2>3, <2>6, <2>8, <2>9, <2>11 DEF Working
  <2>13. savers'["server"].step # "idle" /\ BgsaveAlive' => overlap'
      BY <1>0, <1>1, <2>1, <2>2, <2>3, <2>5 DEF Meeting
  <2>14. \A u \in Saver : savers'[u].fd = "rdb" => overlap' /\ rdb_overlap'
      BY <1>1, <2>1, <2>2, <2>10, <2>11 DEF Meeting
  <2>15. \A u \in Saver : savers'[u].step = "writing" /\ ~overlap' =>
            savers'[u].fd = "tmp" /\ tmp_file' = Partial(Snapshot(u)', savers'[u].done)
      BY <2>1, <2>2, <2>3, <2>4, <2>7, <2>11
  <2> QED
      BY <2>12, <2>13, <2>14, <2>15 DEF Meeting
<1> QED
    BY <1>2, <1>3, <1>4, <1>5, <1>6, <1>7, <1>8, RdbSteps

LEMMA SaversWork == Spec => []WritingInv
<1>1. WritingInv /\ [Next]_vars => WritingInv'
    BY WritingStep
<1> QED
    BY <1>1, WritingInit, PTL DEF Spec

-----------------------------------------------------------------------------
(* A child is a record with a phase, so that changing the phase changes it. *)
IsChild(c) == DOMAIN c = {"phase", "snap", "buf"}

(* Inductive: no step starts a child while the other one is there. *)
ChildInv ==
    /\ IsChild(bgsave)
    /\ IsChild(rewrite)
    /\ OneChildAtATime

LEMMA NoChildShape == IsChild(NoChild) /\ NoChild.phase = "none"
BY DEF IsChild, NoChild

LEMMA ForkedShape ==
    \A snap, buf : IsChild(Forked(snap, buf)) /\ Forked(snap, buf).phase = "forked"
BY DEF IsChild, Forked

(* A child that gets on, or dies, keeps its shape and does not vanish. *)
LEMMA PhaseStep ==
    ASSUME NEW c, NEW d, NEW p, IsChild(c),
           d = [c EXCEPT !.phase = p, !.buf = <<>>] \/ d = [c EXCEPT !.phase = p]
    PROVE  IsChild(d)
BY DEF IsChild

LEMMA ChildInit == Init => ChildInv
BY NoChildShape DEF Init, ChildInv, OneChildAtATime

(* Of the steps only two start a child, each under the other's absence; a  *)
(* step of a child needs that child to exist, which excludes the other.    *)
LEMMA ChildStep ==
    ASSUME ChildInv, WritingInv, [Next]_vars
    PROVE  ChildInv'
<1> USE DEF ChildInv, OneChildAtATime
<1>1. CASE UNCHANGED vars
    BY <1>1 DEF vars, children, IsChild
<1>2. ASSUME NEW c \in Write, Execute(c)
      PROVE  ChildInv'
    BY <1>2 DEF Execute, IsChild
<1>3. CASE Flush
    BY <1>3 DEF Flush, children, IsChild
<1>4. CASE WaitAof
    BY <1>4 DEF WaitAof, children, IsChild
<1>5. CASE Save \/ BgsaveSaves
    BY <1>5 DEF Save, BgsaveSaves, children, IsChild
<1>17. ASSUME NEW w \in Saver, SaverStep(w)
       PROVE  ChildInv'
  <2>1. rewrite' = rewrite
      BY <1>17, SaverFrame
  <2>2. CASE bgsave' = bgsave
      BY <2>1, <2>2 DEF IsChild
  <2>3. CASE w = "child" /\ \E p : bgsave' = [bgsave EXCEPT !.phase = p]
    <3>1. bgsave.phase = "saving"
        BY <1>17, <2>3, SaverFrame DEF WritingInv, Working
    <3>2. IsChild(bgsave')
        BY <2>3, PhaseStep
    <3> QED
        BY <2>1, <3>1, <3>2 DEF IsChild
  <2> QED
      BY <1>17, <2>2, <2>3, SaverFrame
<1>6. ASSUME NEW S \in Batch, Request(S)
      PROVE  ChildInv'
    BY <1>6 DEF Request, IsChild
<1>7. CASE ClientStalls \/ ClientReads
    BY <1>7 DEF ClientStalls, ClientReads, children, IsChild
<1>8. CASE ReapBgsave
    BY <1>8, NoChildShape DEF ReapBgsave, IsChild
<1>9. CASE StartBgsave
  <2>1. rewrite.phase = "none" /\ rewrite' = rewrite
      BY <1>9 DEF StartBgsave, RewriteInProgress
  <2>2. IsChild(bgsave')
      BY <1>9, ForkedShape DEF StartBgsave
  <2> QED BY <2>1, <2>2 DEF IsChild
<1>10. CASE StartRewrite
  <2>1. bgsave.phase = "none" /\ bgsave' = bgsave
      BY <1>10 DEF StartRewrite, BgsaveInProgress
  <2>2. IsChild(rewrite')
      BY <1>10, ForkedShape DEF StartRewrite
  <2> QED BY <2>1, <2>2 DEF IsChild
<1>11. CASE ReapRewrite
    BY <1>11, NoChildShape DEF ReapRewrite, IsChild
<1>12. CASE ReapFailedRewrite
    BY <1>12, NoChildShape DEF ReapFailedRewrite, IsChild
<1>13. CASE BgsaveClosesFds \/ BgsaveDies
  <2>1. bgsave.phase # "none" /\ rewrite' = rewrite
      BY <1>13 DEF BgsaveClosesFds, BgsaveDies, BgsaveAlive
  <2>2. \E p : bgsave' = [bgsave EXCEPT !.phase = p, !.buf = <<>>]
      BY <1>13 DEF BgsaveClosesFds, BgsaveDies
  <2>3. IsChild(bgsave')
      BY <2>2, PhaseStep
  <2> QED BY <2>1, <2>3 DEF IsChild
<1>14. CASE RewriteClosesFds \/ RewriteSaves \/ RewriteDies
  <2>1. rewrite.phase # "none" /\ bgsave' = bgsave
      BY <1>14 DEF RewriteClosesFds, RewriteSaves, RewriteDies
  <2>2. \E p : \/ rewrite' = [rewrite EXCEPT !.phase = p, !.buf = <<>>]
               \/ rewrite' = [rewrite EXCEPT !.phase = p]
      BY <1>14 DEF RewriteClosesFds, RewriteSaves, RewriteDies
  <2>3. IsChild(rewrite')
      BY <2>2, PhaseStep
  <2> QED BY <2>1, <2>3 DEF IsChild
<1>15. CASE Crash \/ Shutdown
    BY <1>15, NoChildShape DEF Crash, Shutdown, ProcessGone, IsChild
<1>16. CASE Restart
    BY <1>16 DEF Restart, children, IsChild
<1> QED
    BY <1>1, <1>2, <1>3, <1>4, <1>5, <1>6, <1>7, <1>8, <1>9, <1>10, <1>11, <1>12, <1>13,
       <1>14, <1>15, <1>16, <1>17 DEF Next

(* A BGSAVE child and a rewrite child never exist together, whatever the   *)
(* clients ask for in one batch and however the children end: the file a   *)
(* BGSAVE child writes its inherited buffer to is still the AOF.           *)
THEOREM OneChild == Spec => []OneChildAtATime
<1>1. ChildInv => OneChildAtATime
    BY DEF ChildInv
<1>2. ChildInv /\ WritingInv /\ [Next]_vars => ChildInv'
    BY ChildStep
<1> QED
    BY <1>1, <1>2, ChildInit, SaversWork, PTL DEF Spec

-----------------------------------------------------------------------------
(* The history.  What one more command makes of it.                        *)
LEMMA StateAfterAll ==
    ASSUME TypeOK
    PROVE  StateAfter(Len(ops)) = Replay(Empty, ops)
<1>1. ops \in Seq(Write)
    BY TypesSplit DEF LogTypes
<1> QED
    BY <1>1, SubSeqFull DEF StateAfter

LEMMA HistoryExtends ==
    ASSUME TypeOK, NEW c \in Write, ops' = Append(ops, c)
    PROVE  /\ Len(ops') = Len(ops) + 1 /\ Len(ops) \in Nat
           /\ Replay(Empty, SubSeq(ops', 1, Len(ops'))) = Apply(StateAfter(Len(ops)), c)
           /\ \A n \in 0..Len(ops) : Replay(Empty, SubSeq(ops', 1, n)) = StateAfter(n)
<1>1. ops \in Seq(Write) /\ Len(ops) \in Nat /\ ops' \in Seq(Write) /\ Len(ops') = Len(ops) + 1
    BY TypesSplit, HistoryTypes DEF LogTypes
<1>2. SubSeq(ops', 1, Len(ops')) = ops'
    BY <1>1, SubSeqFull
<1>3. Replay(Empty, ops') = Apply(Replay(Empty, ops), c)
    BY <1>1, ReplayAppend
<1>4. StateAfter(Len(ops)) = Replay(Empty, ops)
    BY StateAfterAll
<1>5. ASSUME NEW n \in 0..Len(ops)
      PROVE  SubSeq(ops', 1, n) = SubSeq(ops, 1, n)
  <2>1. \A i \in 1..n : i \in 1..Len(ops) /\ ops'[i] = ops[i]
      BY <1>1, AppendProperties
  <2>2. /\ SubSeq(ops, 1, n) = [i \in 1..n |-> ops[i]]
        /\ SubSeq(ops', 1, n) = [i \in 1..n |-> ops'[i]]
      BY <1>1
  <2> QED
      BY <2>1, <2>2
<1> QED
    BY <1>1, <1>2, <1>3, <1>4, <1>5 DEF StateAfter

(* What a replay of an AOF makes of one more command, and of a rewrite's   *)
(* commands.                                                               *)
LEMMA CommandsReplay ==
    \A d : \A s \in Seq(Cmd), c \in Cmd : Replay(d, Append(s, c)) = Apply(Replay(d, s), c)
BY ReplayAppend

LEMMA LogExtends ==
    ASSUME NEW s \in Seq(Cmd), NEW t \in Seq(Cmd), NEW c \in Cmd
    PROVE  Replay(Empty, s \o Append(t, c)) = Apply(Replay(Empty, s \o t), c)
<1>1. s \o t \in Seq(Cmd) /\ <<c>> \in Seq(Cmd)
    BY CommandsTypes
<1>2. Append(t, c) = t \o <<c>> /\ Append(s \o t, c) = (s \o t) \o <<c>>
    BY <1>1, AppendIsConcat
<1>3. (s \o t) \o <<c>> = s \o (t \o <<c>>)
    BY <1>1, ConcatAssociative
<1>4. Replay(Empty, Append(s \o t, c)) = Apply(Replay(Empty, s \o t), c)
    BY <1>1, CommandsReplay
<1> QED
    BY <1>2, <1>3, <1>4

LEMMA LogBegins ==
    \A s \in Seq(Cmd), c \in Cmd : Replay(Empty, s \o <<c>>) = Apply(Replay(Empty, s), c)
<1>1. \A s \in Seq(Cmd), c \in Cmd : Append(s, c) = s \o <<c>>
    BY AppendIsConcat
<1> QED
    BY <1>1, CommandsReplay

LEMMA RebuildRestores ==
    ASSUME NEW snap \in DB
    PROVE  Replay(Empty, <<Rebuild(snap)>> \o <<>>) = snap
<1>1. Rebuild(snap) \in Cmd /\ <<Rebuild(snap)>> \in Seq(Cmd) /\ <<>> \in Seq(Cmd)
    BY CommandTypes, CommandsTypes
<1>2. <<Rebuild(snap)>> \o <<>> = <<Rebuild(snap)>> /\ <<>> \o <<Rebuild(snap)>> = <<Rebuild(snap)>>
    BY <1>1, ConcatEmptySeq
<1>3. Append(<<>>, Rebuild(snap)) = <<>> \o <<Rebuild(snap)>>
    BY <1>1, AppendIsConcat
<1>4. Replay(Empty, Append(<<>>, Rebuild(snap))) = Apply(Empty, Rebuild(snap))
  <2>1. Replay(Empty, Append(<<>>, Rebuild(snap))) = Apply(Replay(Empty, <<>>), Rebuild(snap))
      BY <1>1, CommandsReplay
  <2> QED
      BY <2>1, ReplayEmpty
<1>5. Apply(Empty, Rebuild(snap)) = [k \in Key |-> 0 + snap[k]]
    BY DEF Apply, Rebuild, Empty
<1>6. [k \in Key |-> 0 + snap[k]] = snap
    BY DEF DB
<1> QED
    BY <1>2, <1>3, <1>4, <1>5, <1>6

-----------------------------------------------------------------------------
(* The log and the memory, when nobody asks for an RDB file.               *)
NobodySaves == Requests \subseteq {"bgrewriteaof"} /\ SaveAllowed = FALSE

(* No RDB file and no BGSAVE child; a rewrite child inherits nothing.      *)
LogOnly ==
    /\ rdb_file = Dump(Empty) /\ savers = [w \in Saver |-> Idle]
    /\ ~bgsave_requested /\ bgsave = NoChild
    /\ rewrite.buf = <<>>

(* The memory is what the AOF and its buffer replay to, and what the       *)
(* rewritten AOF and the rewrite buffer will replay to.                    *)
LogsAreMemory ==
    up => /\ db = Replay(Empty, aof_file \o aof_buf)
          /\ RewriteInProgress =>
                db = Replay(Empty, <<Rebuild(rewrite.snap)>> \o rewrite_buf)

(* The memory is what the history leads to, and the AOF what it led to     *)
(* when the log was last written out.                                      *)
HistoryIsKept ==
    /\ up => db = StateAfter(Len(ops))
    /\ Replay(Empty, aof_file) = StateAfter(flushed)
    /\ ~up => flushed = Len(ops) /\ aof_buf = <<>> /\ rewrite = NoChild

StoreInv == TypeOK /\ LogOnly /\ LogsAreMemory /\ HistoryIsKept

LEMMA StoreInit == Init => StoreInv
<1> SUFFICES ASSUME Init PROVE StoreInv
    OBVIOUS
<1>1. <<>> \o <<>> = <<>> /\ SubSeq(ops, 1, 0) = <<>>
    BY CommandsTypes, ConcatEmptySeq DEF Init
<1>2. Len(ops) = 0 /\ StateAfter(0) = Empty
    BY <1>1, CommandsTypes, ReplayEmpty DEF Init, StateAfter
<1> QED
    BY <1>1, <1>2, InitTypes, ReplayEmpty
       DEF Init, StoreInv, LogOnly, LogsAreMemory, HistoryIsKept, NoChild, RewriteInProgress

(* Steps that leave log, memory and history alone.                         *)
LEMMA StoreKept ==
    ASSUME StoreInv, TypeOK',
           UNCHANGED <<up, db, aof_buf, aof_file, rdb_file, savers, ops, flushed>>,
           ~bgsave_requested', bgsave' = NoChild, rewrite'.buf = <<>>,
           RewriteInProgress' => /\ RewriteInProgress
                                 /\ rewrite'.snap = rewrite.snap /\ rewrite_buf' = rewrite_buf,
           ~up => rewrite' = NoChild
    PROVE  StoreInv'
BY DEF StoreInv, LogOnly, LogsAreMemory, HistoryIsKept, StateAfter

(* The log is written out.                                                 *)
LEMMA StoreFlushed ==
    ASSUME StoreInv, TypeOK', FlushAof, up, UNCHANGED <<up, db, rdb_file, savers, ops>>,
           ~bgsave_requested', bgsave' = NoChild, rewrite'.buf = <<>>,
           RewriteInProgress' =>
              db = Replay(Empty, <<Rebuild(rewrite'.snap)>> \o rewrite_buf')
    PROVE  StoreInv'
<1>1. /\ aof_file' \in Seq(Cmd) /\ aof_file' = aof_file \o aof_buf /\ aof_buf' = <<>>
      /\ flushed' = Len(ops)
    BY TypesSplit DEF FlushAof, LogTypes
<1>2. aof_file' \o aof_buf' = aof_file'
    BY <1>1, ConcatEmptySeq
<1>3. Replay(Empty, aof_file') = db /\ db = StateAfter(Len(ops))
    BY <1>1 DEF StoreInv, LogsAreMemory, HistoryIsKept
<1>4. LogsAreMemory'
    BY <1>2, <1>3 DEF LogsAreMemory
<1>5. HistoryIsKept'
    BY <1>1, <1>3 DEF HistoryIsKept, StateAfter
<1> QED
    BY <1>4, <1>5 DEF StoreInv, LogOnly

LEMMA ChildSteps ==
    \A c \in ChildType : \A p, d :
        /\ c.buf = <<>>
        /\ d = [c EXCEPT !.phase = p, !.buf = <<>>] \/ d = [c EXCEPT !.phase = p]
        => d.phase = p /\ d.snap = c.snap /\ d.buf = <<>>
BY DEF ChildType

LEMMA StoreStep ==
    ASSUME StoreInv, [Next]_vars, NobodySaves
    PROVE  StoreInv'
<1>0. TypeOK' /\ TypeOK /\ LogOnly
    BY TypesStep DEF StoreInv
<1>a. /\ aof_file \in Seq(Cmd) /\ aof_buf \in Seq(Cmd) /\ rewrite_buf \in Seq(Cmd)
      /\ rewrite.snap \in DB /\ db \in DB /\ IsChild(rewrite)
    BY <1>0, TypesSplit, ChildTypes DEF LogTypes, ProcessTypes, ChildType, IsChild
<1>c. rewrite \in ChildType /\ rewrite.buf = <<>>
    BY <1>0 DEF TypeOK, LogOnly
<1>b. NoChild.buf = <<>> /\ NoChild.phase = "none"
    BY DEF NoChild
<1>1. ASSUME NEW c \in Write, Execute(c) PROVE StoreInv'
  <2>1. /\ up /\ up' = up /\ db' = Apply(db, c) /\ ops' = Append(ops, c) /\ c \in Cmd
        /\ UNCHANGED <<rdb_file, savers, bgsave_requested, bgsave, rewrite>>
        /\ rewrite_buf' = IF RewriteInProgress THEN Append(rewrite_buf, c) ELSE rewrite_buf
      BY <1>1, CommandTypes DEF Running, rdb, Execute
  <2>2. LogOnly'
      BY <1>0, <2>1 DEF LogOnly
  <2>3. db' = Replay(Empty, aof_file' \o aof_buf') /\ Replay(Empty, aof_file') = StateAfter(flushed)'
    <3>1. db = Replay(Empty, aof_file \o aof_buf) /\ Replay(Empty, aof_file) = StateAfter(flushed)
          /\ db = StateAfter(Len(ops))
        BY <2>1 DEF StoreInv, LogsAreMemory, HistoryIsKept
    <3>2. \A n \in 0..Len(ops) : Replay(Empty, SubSeq(ops', 1, n)) = StateAfter(n)
        BY <1>0, <2>1, HistoryExtends
    <3>3. flushed \in 0..Len(ops) /\ Len(ops) \in 0..Len(ops)
        BY <1>0, TypesSplit, HistoryTypes DEF LogTypes
    <3>4. CASE Len(aof_buf) = BufCap
      <4>1. aof_file' = aof_file \o aof_buf /\ aof_buf' = <<c>> /\ flushed' = Len(ops)
          BY <1>1, <3>4 DEF Execute, AppendAof
      <4>2. aof_file' \in Seq(Cmd)
          BY <1>a, <4>1, CommandsTypes
      <4>3. Replay(Empty, aof_file' \o <<c>>) = Apply(Replay(Empty, aof_file'), c)
          BY <2>1, <4>2, LogBegins
      <4> QED
          BY <2>1, <3>1, <3>2, <3>3, <4>1, <4>3 DEF StateAfter
    <3>5. CASE Len(aof_buf) # BufCap
      <4>1. aof_file' = aof_file /\ aof_buf' = Append(aof_buf, c) /\ flushed' = flushed
          BY <1>1, <3>5 DEF Execute, AppendAof
      <4>2. Replay(Empty, aof_file \o Append(aof_buf, c)) = Apply(Replay(Empty, aof_file \o aof_buf), c)
          BY <1>a, <2>1, LogExtends
      <4> QED
          BY <2>1, <3>1, <3>2, <3>3, <4>1, <4>2 DEF StateAfter
    <3> QED
        BY <3>4, <3>5
  <2>4. RewriteInProgress' => db' = Replay(Empty, <<Rebuild(rewrite'.snap)>> \o rewrite_buf')
    <3> SUFFICES ASSUME RewriteInProgress PROVE db' = Replay(Empty, <<Rebuild(rewrite.snap)>> \o rewrite_buf')
        BY <2>1 DEF RewriteInProgress
    <3>1. db = Replay(Empty, <<Rebuild(rewrite.snap)>> \o rewrite_buf)
        BY <2>1 DEF StoreInv, LogsAreMemory
    <3>2. <<Rebuild(rewrite.snap)>> \in Seq(Cmd)
        BY <1>a, CommandTypes, CommandsTypes
    <3>3. Replay(Empty, <<Rebuild(rewrite.snap)>> \o Append(rewrite_buf, c)) = Apply(db, c)
        BY <1>a, <2>1, <3>1, <3>2, LogExtends
    <3> QED
        BY <2>1, <3>3
  <2>5. db' = StateAfter(Len(ops))'
    <3>1. db = StateAfter(Len(ops))
        BY <2>1 DEF StoreInv, HistoryIsKept
    <3> QED
        BY <1>0, <2>1, <3>1, HistoryExtends DEF StateAfter
  <2> QED
      BY <1>0, <2>1, <2>2, <2>3, <2>4, <2>5 DEF StoreInv, LogsAreMemory, HistoryIsKept
<1>2. CASE Flush \/ WaitAof
  <2>1. up /\ FlushAof /\ UNCHANGED <<up, db, rdb_file, savers, ops, children>>
      BY <1>2 DEF Running, rdb, Flush, WaitAof
  <2> QED
      BY <1>0, <2>1, StoreFlushed DEF StoreInv, LogOnly, LogsAreMemory, children, RewriteInProgress
<1>3. CASE Save
    BY <1>3 DEF Save, NobodySaves
<1>4. ASSUME NEW S \in Batch, Request(S) PROVE StoreInv'
  <2>1. "bgsave" \notin S
      BY DEF Batch, NobodySaves
  <2> QED
      BY <1>0, <1>4, <2>1, StoreKept
         DEF Request, Running, LogOnly, RewriteInProgress, disk, rdb, history
<1>5. CASE ClientStalls \/ ClientReads
    BY <1>0, <1>5, StoreKept
       DEF ClientStalls, ClientReads, StoreInv, LogOnly, HistoryIsKept, RewriteInProgress,
           disk, rdb, children, history
<1>6. CASE \/ ReapBgsave \/ StartBgsave \/ BgsaveClosesFds \/ BgsaveSaves \/ BgsaveDies
           \/ \E w \in Saver : SaverStep(w)
  <2>1. \A w \in Saver : savers[w].step = "idle"
      BY <1>0, SaverTypes DEF LogOnly
  <2>2. ~\E w \in Saver : SaverStep(w)
      BY <2>1, SaverFrame
  <2> QED
      BY <1>0, <1>b, <1>6, <2>2
         DEF ReapBgsave, StartBgsave, BgsaveClosesFds, BgsaveSaves, BgsaveDies, BgsaveAlive, LogOnly
<1>7. CASE StartRewrite
  <2>1. /\ up /\ FlushAof /\ aof_buf' = <<>> /\ rewrite' = Forked(db, <<>>) /\ rewrite_buf' = <<>>
        /\ UNCHANGED <<up, db, rdb_file, savers, ops, bgsave_requested, bgsave>>
      BY <1>7 DEF Running, rdb, StartRewrite, FlushAof
  <2>2. rewrite'.buf = <<>> /\ rewrite'.snap = db
      BY <2>1 DEF Forked
  <2>3. db = Replay(Empty, <<Rebuild(rewrite'.snap)>> \o rewrite_buf')
      BY <1>a, <2>1, <2>2, RebuildRestores
  <2> QED
      BY <1>0, <2>1, <2>2, <2>3, StoreFlushed DEF LogOnly
<1>8. CASE ReapRewrite
  <2>1. /\ up /\ RewriteInProgress /\ aof_file' = <<Rebuild(rewrite.snap)>> \o rewrite_buf
        /\ aof_buf' = <<>> /\ flushed' = Len(ops) /\ rewrite' = NoChild /\ rewrite_buf' = <<>>
        /\ UNCHANGED <<up, db, rdb_file, savers, ops, bgsave_requested, bgsave>>
      BY <1>8 DEF Running, rdb, ReapRewrite, Rebuild, RewriteInProgress
  <2>2. Replay(Empty, aof_file') = db /\ db = StateAfter(Len(ops))
      BY <2>1 DEF StoreInv, LogsAreMemory, HistoryIsKept
  <2>3. aof_file' \in Seq(Cmd)
      BY <1>0, TypesSplit DEF LogTypes
  <2>4. aof_file' \o aof_buf' = aof_file'
      BY <2>1, <2>3, ConcatEmptySeq
  <2>5. LogOnly' /\ LogsAreMemory'
      BY <1>0, <1>b, <2>1, <2>2, <2>4 DEF LogOnly, LogsAreMemory, RewriteInProgress
  <2>6. HistoryIsKept'
      BY <2>1, <2>2 DEF HistoryIsKept, StateAfter
  <2> QED
      BY <1>0, <2>5, <2>6 DEF StoreInv
<1>9. CASE ReapFailedRewrite
    BY <1>0, <1>b, <1>9, StoreKept
       DEF ReapFailedRewrite, LogOnly, RewriteInProgress, disk, rdb, history
<1>10. CASE RewriteClosesFds
  <2>1. /\ aof_file' = aof_file \o <<>> /\ rewrite' = [rewrite EXCEPT !.phase = "saving", !.buf = <<>>]
        /\ RewriteInProgress
        /\ UNCHANGED <<up, db, aof_buf, rdb_file, savers, bgsave_requested, bgsave, rewrite_buf, history>>
      BY <1>0, <1>10 DEF Running, rdb, RewriteClosesFds, LogOnly, RewriteInProgress
  <2>2. aof_file' = aof_file
      BY <1>a, <2>1, ConcatEmptySeq
  <2>3. rewrite'.phase = "saving" /\ rewrite'.snap = rewrite.snap /\ rewrite'.buf = <<>>
      BY ZenonT(60), <1>c, <2>1, ChildSteps
  <2>4. up
      BY <1>b, <2>1 DEF StoreInv, HistoryIsKept, RewriteInProgress
  <2> QED
      BY <1>0, <2>1, <2>2, <2>3, <2>4, StoreKept DEF LogOnly, history
<1>11. CASE RewriteSaves \/ RewriteDies
  <2>1. PICK p \in {"ok", "failed"} :
          \/ rewrite' = [rewrite EXCEPT !.phase = p, !.buf = <<>>]
          \/ rewrite' = [rewrite EXCEPT !.phase = p]
      BY <1>11 DEF RewriteSaves, RewriteDies
  <2>2. rewrite'.snap = rewrite.snap /\ rewrite'.buf = <<>>
    <3>1. CASE rewrite' = [rewrite EXCEPT !.phase = p, !.buf = <<>>]
        BY ZenonT(60), <1>c, <3>1, ChildSteps
    <3>2. CASE rewrite' = [rewrite EXCEPT !.phase = p]
        BY <1>c, <3>2, ChildSteps
    <3> QED
        BY <2>1, <3>1, <3>2
  <2>3. RewriteInProgress
      BY <1>11 DEF RewriteSaves, RewriteDies, RewriteInProgress
  <2>4. up
      BY <1>b, <2>3 DEF StoreInv, HistoryIsKept, RewriteInProgress
  <2>5. /\ UNCHANGED <<up, db, aof_buf, aof_file, rdb_file, savers, ops, flushed>>
        /\ UNCHANGED <<bgsave_requested, bgsave, rewrite_buf>>
      BY <1>11 DEF RewriteSaves, RewriteDies, disk, rdb, history
  <2> QED
      BY <1>0, <2>2, <2>3, <2>4, <2>5, StoreKept DEF LogOnly
<1>12. CASE Crash
  <2>1. /\ ops' = SubSeq(ops, 1, flushed) /\ flushed' = flushed /\ aof_file' = aof_file
        /\ ~up' /\ aof_buf' = <<>> /\ rewrite' = NoChild /\ bgsave' = NoChild /\ ~bgsave_requested'
        /\ rdb_file' = rdb_file /\ savers' = [w \in Saver |-> Idle]
      BY <1>12 DEF Crash, ProcessGone, disk, rdb
  <2>2. ops \in Seq(Write) /\ flushed \in 0..Len(ops)
      BY <1>0, TypesSplit DEF LogTypes
  <2>3. ops' \in Seq(Write) /\ Len(ops') = flushed
      BY <2>1, <2>2, HistoryTypes
  <2>4. SubSeq(ops', 1, flushed) = ops'
      BY <2>3, SubSeqFull
  <2>5. StateAfter(flushed)' = StateAfter(flushed)
      BY <2>1, <2>4 DEF StateAfter
  <2> QED
      BY <1>0, <1>b, <2>1, <2>3, <2>5 DEF StoreInv, LogOnly, LogsAreMemory, HistoryIsKept
<1>13. CASE Shutdown
  <2>1. /\ ops' = ops /\ flushed' = Len(ops) /\ aof_file' = aof_file \o aof_buf /\ up
        /\ ~up' /\ aof_buf' = <<>> /\ rewrite' = NoChild /\ bgsave' = NoChild /\ ~bgsave_requested'
        /\ rdb_file' = rdb_file /\ savers' = [w \in Saver |-> Idle]
      BY <1>13 DEF Running, rdb, Shutdown, ProcessGone
  <2>2. Replay(Empty, aof_file') = StateAfter(flushed)'
      BY <2>1 DEF StoreInv, LogsAreMemory, HistoryIsKept, StateAfter
  <2> QED
      BY <1>0, <1>b, <2>1, <2>2 DEF StoreInv, LogOnly, LogsAreMemory, HistoryIsKept
<1>14. CASE Restart
  <2>1. /\ ~up /\ db' = Replay(Empty, aof_file) /\ rewrite = NoChild /\ aof_buf = <<>>
        /\ flushed = Len(ops)
        /\ UNCHANGED <<aof_buf, disk, children, history>>
      BY <1>0, <1>14, LoadsDump, CommandTypes DEF Restart, StoreInv, LogOnly, HistoryIsKept
  <2>2. aof_file' \o aof_buf' = aof_file
      BY <1>a, <2>1, ConcatEmptySeq DEF disk, rdb
  <2>3. LogsAreMemory'
      BY <1>b, <2>1, <2>2 DEF LogsAreMemory, RewriteInProgress, children
  <2>4. HistoryIsKept'
      BY <1>14, <2>1 DEF Restart, StoreInv, HistoryIsKept, StateAfter, disk, rdb, children, history
  <2> QED
      BY <1>0, <2>1, <2>3, <2>4 DEF StoreInv, LogOnly, disk, rdb, children
<1>15. CASE UNCHANGED vars
    BY <1>0, <1>15, StoreKept
       DEF vars, StoreInv, LogOnly, HistoryIsKept, RewriteInProgress, disk, rdb, children, history
<1> QED
    BY <1>1, <1>2, <1>3, <1>4, <1>5, <1>6, <1>7, <1>8, <1>9, <1>10, <1>11, <1>12, <1>13,
       <1>14, <1>15 DEF Next

LEMMA StoreInvariant == ASSUME NobodySaves PROVE Spec => []StoreInv
<1>1. StoreInv /\ [Next]_vars => StoreInv'
    BY StoreStep
<1> QED
    BY <1>1, StoreInit, PTL DEF Spec

(* What a restart would load is the state the history had led to when the  *)
(* log was last written out.                                               *)
LEMMA RestoredState ==
    ASSUME StoreInv
    PROVE  /\ Recovered = Replay(Empty, aof_file)
           /\ Recovered = StateAfter(flushed)
           /\ flushed \in flushed..Len(ops)
<1>1. flushed \in 0..Len(ops) /\ Len(ops) \in Nat
    BY TypesSplit, HistoryTypes DEF StoreInv, LogTypes
<1>2. Loads(rdb_file) = {Empty}
    BY LoadsDump, CommandTypes DEF StoreInv, LogOnly
<1>3. Recovered = Replay(Empty, aof_file)
    BY <1>2 DEF Recovered
<1> QED
    BY <1>1, <1>3 DEF StoreInv, HistoryIsKept

(* While nobody asks for SAVE or BGSAVE, a restart gives back a state the  *)
(* server was in, no older than the last time the log was written out:     *)
(* through flushes, rewrites that succeed, fail or are cut short, crashes  *)
(* and restarts, for every set of keys, buffer and history.                *)
THEOREM RestartsRestore ==
    ASSUME NobodySaves
    PROVE  Spec => []RestartRestores
<1>1. StoreInv => RestartRestores
    BY RestoredState DEF RestartRestores
<1> QED
    BY <1>1, StoreInvariant, PTL

(* And the AOF alone does so: it holds no write twice.  The run            *)
(* bgsave_duplicates shows that one BGSAVE is enough to break it.          *)
THEOREM LogHoldsHistory ==
    ASSUME NobodySaves
    PROVE  Spec => []AofHoldsHistory
<1>1. StoreInv => AofHoldsHistory
    BY RestoredState DEF AofHoldsHistory
<1> QED
    BY <1>1, StoreInvariant, PTL

-----------------------------------------------------------------------------
(* The refinement, step by step.                                           *)

(* The log is written out, and the memory is what it replays to.           *)
LEMMA WritesOut ==
    ASSUME StoreInv, StoreInv', up, UNCHANGED <<up, db>>,
           Replay(Empty, aof_file') = db
    PROVE  Store!Next
<1>1. Recovered' = db
    BY RestoredState, LoadsDump, CommandTypes DEF StoreInv, LogOnly, Recovered
<1> QED
    BY <1>1 DEF Store!Next, Store!WriteOut

LEMMA Stutters ==
    ASSUME UNCHANGED <<up, db, rdb_file, aof_file>>
    PROVE  UNCHANGED Store!dvars
BY DEF Store!dvars, Recovered

LEMMA RefinesStep ==
    ASSUME StoreInv, StoreInv', Next, NobodySaves
    PROVE  [Store!Next]_(Store!dvars)
<1>0. /\ LogOnly /\ LogsAreMemory /\ LogOnly'
      /\ aof_file \in Seq(Cmd) /\ aof_buf \in Seq(Cmd) /\ up \in BOOLEAN
      /\ rewrite.buf = <<>>
    BY TypesSplit DEF StoreInv, LogOnly, LogTypes, ProcessTypes
<1>a. Recovered = Replay(Empty, aof_file) /\ Recovered' = Replay(Empty, aof_file')
    BY <1>0, LoadsDump, CommandTypes DEF LogOnly, Recovered
<1>1. ASSUME NEW c \in Write, Execute(c) PROVE Store!Next
  <2>1. up /\ up' = up /\ db' = Apply(db, c)
      BY <1>1 DEF Running, rdb, Execute
  <2>2. Replay(Empty, aof_file \o aof_buf) = db
      BY <1>0, <2>1 DEF LogsAreMemory
  <2>3. Recovered' \in {Recovered, db}
      BY <1>1, <1>a, <2>2 DEF Execute, AppendAof
  <2>4. Store!Execute(c)
      BY <1>0, <2>1, <2>3 DEF Store!Execute
  <2> QED
      BY <2>4 DEF Store!Next
<1>2. CASE Flush \/ WaitAof \/ StartRewrite
  <2>1. up /\ UNCHANGED <<up, db>> /\ aof_file' = aof_file \o aof_buf
      BY <1>2 DEF Running, rdb, Flush, WaitAof, StartRewrite, FlushAof
  <2>2. Replay(Empty, aof_file') = db
      BY <1>0, <2>1 DEF LogsAreMemory
  <2> QED
      BY <2>1, <2>2, WritesOut
<1>3. CASE ReapRewrite
  <2>1. /\ up /\ UNCHANGED <<up, db>> /\ RewriteInProgress
        /\ aof_file' = <<Rebuild(rewrite.snap)>> \o rewrite_buf
      BY <1>3 DEF Running, rdb, ReapRewrite, Rebuild, RewriteInProgress
  <2>2. Replay(Empty, aof_file') = db
      BY <1>0, <2>1 DEF LogsAreMemory
  <2> QED
      BY <2>1, <2>2, WritesOut
<1>4. CASE RewriteClosesFds
  <2>1. aof_file' = aof_file \o <<>> /\ UNCHANGED <<up, db, rdb_file>>
      BY <1>0, <1>4 DEF Running, rdb, RewriteClosesFds
  <2>2. aof_file' = aof_file
      BY <1>0, <2>1, ConcatEmptySeq
  <2> QED
      BY <2>1, <2>2, Stutters
<1>5. CASE Crash
  <2>1. up /\ up' = FALSE /\ aof_file' = aof_file
      BY <1>5 DEF Crash, ProcessGone, disk, rdb
  <2>2. Store!Kill
      BY <1>0, <1>a, <2>1 DEF Store!Kill
  <2> QED
      BY <2>2 DEF Store!Next
<1>6. CASE Shutdown
  <2>1. up /\ up' = FALSE /\ aof_file' = aof_file \o aof_buf
      BY <1>6 DEF Running, rdb, Shutdown, ProcessGone
  <2>2. Recovered' = db
      BY <1>0, <1>a, <2>1 DEF LogsAreMemory
  <2>3. Store!Stop
      BY <1>0, <2>1, <2>2 DEF Store!Stop
  <2> QED
      BY <2>3 DEF Store!Next
<1>7. CASE Restart
  <2>1. ~up /\ up' = TRUE /\ db' = Recovered /\ aof_file' = aof_file
      BY <1>0, <1>a, <1>7, LoadsDump, CommandTypes DEF Restart, LogOnly, disk
  <2>2. Store!Restart
      BY <1>0, <1>a, <2>1 DEF Store!Restart
  <2> QED
      BY <2>2 DEF Store!Next
<1>8. CASE Save \/ (\E S \in Batch : Request(S)) \/ ClientStalls \/ ClientReads
  <2>1. UNCHANGED <<up, db, rdb_file, aof_file>>
      BY <1>8 DEF Save, Request, ClientStalls, ClientReads, NobodySaves, disk, rdb
  <2> QED
      BY <2>1, Stutters
<1>11. CASE \E w \in Saver : SaverStep(w)
  <2>1. \A w \in Saver : savers[w].step = "idle"
      BY <1>0, SaverTypes DEF LogOnly
  <2> QED
      BY <1>11, <2>1, SaverFrame
<1>9. CASE ReapBgsave \/ StartBgsave \/ BgsaveDies \/ ReapFailedRewrite \/ RewriteSaves \/ RewriteDies
  <2>1. UNCHANGED <<up, db, rdb_file, aof_file>>
      BY <1>9 DEF ReapBgsave, StartBgsave, BgsaveDies, ReapFailedRewrite, RewriteSaves,
                  RewriteDies, disk, rdb
  <2> QED
      BY <2>1, Stutters
<1>10. CASE BgsaveClosesFds \/ BgsaveSaves
    BY <1>0, <1>10 DEF BgsaveClosesFds, BgsaveSaves, LogOnly, NoChild
<1> QED
    BY <1>1, <1>2, <1>3, <1>4, <1>5, <1>6, <1>7, <1>8, <1>9, <1>10, <1>11 DEF Next

(* Buffers, files, rewrite children, crashes and restarts implement the    *)
(* durable store: every step is one of its steps or none.                  *)
THEOREM PersistenceImplementsStore ==
    ASSUME NobodySaves
    PROVE  Spec => ImplementsDurableStore
<1>1. Init => Store!Init
    BY ReplayEmpty, LoadsDump, CommandTypes DEF Init, Store!Init, Recovered
<1>2. StoreInv /\ StoreInv' /\ [Next]_vars => [Store!Next]_(Store!dvars)
  <2>1. CASE Next
      BY <2>1, RefinesStep
  <2>2. CASE UNCHANGED vars
      BY <2>2, Stutters DEF vars, disk, rdb
  <2> QED
      BY <2>1, <2>2
<1> QED
    BY <1>1, <1>2, StoreInvariant, PTL DEF Spec, ImplementsDurableStore, Store!Spec

-----------------------------------------------------------------------------
(* The RDB file.  BGSAVE and SAVE are allowed here.                        *)
WasState(d) == \E n \in 0..Len(ops) : d = StateAfter(n)

(* Until the process ends: what a saver writes is a state the server was   *)
(* in, whatever it executes meanwhile.                                     *)
Moments ==
    /\ up
    /\ db = StateAfter(Len(ops))
    /\ BgsaveInProgress => WasState(bgsave.snap)

SnapshotInv ==
    /\ WritingInv
    /\ RdbIsSnapshot
    /\ crashes = 0 => Moments

LEMMA SnapshotInit == Init => SnapshotInv
<1> SUFFICES ASSUME Init PROVE SnapshotInv
    OBVIOUS
<1>1. TypeOK /\ ops = <<>> /\ Len(ops) = 0
    BY InitTypes, CommandsTypes DEF Init
<1>2. StateAfter(0) = Empty
    BY <1>1, StateAfterAll, ReplayEmpty DEF Init
<1>3. RdbIsSnapshot
  <2>1. Dump(Empty)[1] = {Empty}
      BY FileTypes, CommandTypes
  <2> QED
      BY <1>1, <1>2, <2>1 DEF Init, RdbIsSnapshot
<1> QED
    BY <1>1, <1>2, <1>3, WritingInit DEF Init, SnapshotInv, Moments, BgsaveInProgress, NoChild

(* The states the server was in stay states it was in.                     *)
LEMMA MomentsStay ==
    ASSUME TypeOK, db = StateAfter(Len(ops)), NEW c \in Write, ops' = Append(ops, c)
    PROVE  /\ StateAfter(Len(ops))' = Apply(db, c)
           /\ \A d : WasState(d) => \E n \in 0..Len(ops') : d = Replay(Empty, SubSeq(ops', 1, n))
<1>2. /\ Len(ops') = Len(ops) + 1 /\ Len(ops) \in Nat
      /\ Replay(Empty, SubSeq(ops', 1, Len(ops'))) = Apply(StateAfter(Len(ops)), c)
      /\ \A n \in 0..Len(ops) : Replay(Empty, SubSeq(ops', 1, n)) = StateAfter(n)
    BY HistoryExtends
<1>3. \A n \in 0..Len(ops) : n \in 0..Len(ops')
    BY <1>2
<1> QED
    BY <1>2, <1>3 DEF WasState, StateAfter

LEMMA CrashesCount ==
    ASSUME TypeOK, [Next]_vars, crashes' = 0
    PROVE  crashes = 0
<1>1. CASE Crash \/ Shutdown
    BY <1>1 DEF Crash, Shutdown, ProcessGone, TypeOK
<1>2. CASE crashes' = crashes
    BY <1>2
<1>3. Crash \/ Shutdown \/ crashes' = crashes
    BY SaverFrame DEF Running, rdb, Next, vars, history, Execute, Flush, WaitAof, Save, Request, ClientStalls, ClientReads,
       ReapBgsave, StartBgsave, StartRewrite, ReapRewrite, ReapFailedRewrite, BgsaveClosesFds,
       BgsaveSaves, BgsaveDies, RewriteClosesFds, RewriteSaves, RewriteDies, Restart
<1> QED
    BY <1>1, <1>2, <1>3

(* Until the first crash every step leaves the keyspace the last moment of *)
(* the history, and no moment is lost.                                     *)
LEMMA MomentsStep ==
    ASSUME WritingInv, Moments, [Next]_vars, crashes = 0, crashes' = 0
    PROVE  Moments' /\ \A d : WasState(d) => WasState(d)'
<1>0. /\ Len(ops) \in 0..Len(ops) /\ bgsave \in ChildType /\ up /\ TypeOK
      /\ savers["child"].step # "idle" => bgsave.phase = "saving"
    BY TypesSplit, HistoryTypes DEF LogTypes, ProcessTypes, Moments, WritingInv, Working
<1>1. ASSUME NEW c \in Write, Execute(c) PROVE Moments' /\ \A d : WasState(d) => WasState(d)'
  <2>1. up' = up /\ db' = Apply(db, c) /\ ops' = Append(ops, c) /\ bgsave' = bgsave
      BY <1>1 DEF Execute
  <2>2. db' = StateAfter(Len(ops))' /\ \A d : WasState(d) => WasState(d)'
      BY <1>0, <2>1, MomentsStay DEF Moments, WasState, StateAfter
  <2> QED
      BY <2>1, <2>2 DEF Moments, BgsaveInProgress
<1>2. ASSUME UNCHANGED <<up, db, ops>>,
             BgsaveInProgress' =>
                bgsave'.snap = db \/ (BgsaveInProgress /\ bgsave'.snap = bgsave.snap)
      PROVE  Moments' /\ \A d : WasState(d) => WasState(d)'
  <2>1. \A d : WasState(d) => WasState(d)'
      BY <1>2 DEF WasState, StateAfter
  <2>2. WasState(db)
      BY <1>0 DEF Moments, WasState
  <2> QED
      BY <1>2, <2>1, <2>2 DEF Moments, StateAfter
<1>3. CASE ReapBgsave \/ StartBgsave
    BY <1>2, <1>3 DEF ReapBgsave, StartBgsave, Forked, NoChild, BgsaveInProgress, disk, history
<1>4. CASE BgsaveClosesFds \/ BgsaveDies \/ (\E w \in Saver : SaverStep(w))
  <2>1. UNCHANGED <<up, db, ops>> /\ bgsave'.snap = bgsave.snap
      BY <1>0, <1>4, SaverFrame DEF BgsaveClosesFds, BgsaveDies, ChildType, history
  <2>2. BgsaveInProgress' => BgsaveInProgress
    <3>1. CASE BgsaveClosesFds \/ BgsaveDies
        BY <3>1 DEF BgsaveClosesFds, BgsaveDies, BgsaveAlive, BgsaveInProgress
    <3>2. ASSUME NEW w \in Saver, SaverStep(w) PROVE BgsaveInProgress' => BgsaveInProgress
        BY <1>0, <3>2, SaverFrame DEF BgsaveInProgress
    <3> QED
        BY <1>4, <3>1, <3>2
  <2> QED
      BY <1>2, <2>1, <2>2
<1>5. CASE Crash \/ Shutdown \/ Restart
    BY <1>0, <1>5 DEF Crash, Shutdown, ProcessGone, Restart
<1>6. CASE \/ UNCHANGED vars \/ Flush \/ WaitAof \/ (\E S \in Batch : Request(S)) \/ ClientStalls
           \/ ClientReads \/ Save \/ BgsaveSaves \/ StartRewrite \/ ReapRewrite
           \/ ReapFailedRewrite \/ RewriteClosesFds \/ RewriteSaves \/ RewriteDies
  <2>1. UNCHANGED <<up, db, ops, bgsave>>
      BY <1>6 DEF vars, Flush, WaitAof, Request, ClientStalls, ClientReads, Save, BgsaveSaves,
         StartRewrite, ReapRewrite, ReapFailedRewrite, RewriteClosesFds, RewriteSaves, RewriteDies,
         children, history
  <2> QED
      BY <1>2, <2>1 DEF BgsaveInProgress
<1> QED
    BY <1>1, <1>3, <1>4, <1>5, <1>6 DEF Next

(* The RDB file changes under an alone saver only by a rename of what that *)
(* saver has written.                                                      *)
LEMMA RdbChanges ==
    ASSUME WritingInv, [Next]_vars, ~rdb_overlap'
    PROVE  \/ UNCHANGED <<rdb_file, rdb_overlap>>
           \/ \E w \in Saver : /\ rdb_file' = Dump(Snapshot(w)) /\ Snapshot(w) \in DB
                               /\ w = "child" => BgsaveInProgress
<1>0. RdbTypes /\ Working /\ Meeting /\ db \in DB /\ bgsave.snap \in DB
    BY TypesSplit, ChildTypes DEF WritingInv, ProcessTypes
<1>1. ASSUME NEW w \in Saver, SaverRenames(w)
      PROVE  /\ rdb_file' = Dump(Snapshot(w)) /\ Snapshot(w) \in DB
             /\ w = "child" => BgsaveInProgress
  <2>1. /\ savers[w].step = "writing" /\ savers[w].done = Blocks /\ rdb_file' = tmp_file
        /\ rdb_overlap' = overlap
      BY <1>1 DEF SaverRenames, Rename
  <2>2. tmp_file = Partial(Snapshot(w), Blocks) /\ Snapshot(w) \in DB
      BY <1>0, <2>1 DEF Meeting, Snapshot
  <2>3. w = "child" => BgsaveInProgress
      BY <1>0, <2>1 DEF Working, BgsaveInProgress
  <2> QED
      BY <2>1, <2>2, <2>3, PartialDump
<1>2. ASSUME NEW w \in Saver, SaverWrites(w) PROVE UNCHANGED <<rdb_file, rdb_overlap>>
  <2>1. rdb_overlap' = rdb_overlap /\ (savers[w].fd # "rdb" => rdb_file' = rdb_file)
      BY <1>2 DEF SaverWrites
  <2> QED
      BY <1>0, <2>1 DEF Meeting
<1>3. ASSUME NEW w \in Saver, SaverStep(w), ~SaverRenames(w), ~SaverWrites(w)
      PROVE  UNCHANGED <<rdb_file, rdb_overlap>>
    BY <1>3 DEF SaverStep, SaverOpens, SaverCannotOpen, SaverErrs, SaverCleansUp
<1>4. CASE UNCHANGED rdb \/ Save \/ BgsaveSaves \/ StartBgsave \/ BgsaveDies \/ Crash \/ Shutdown
    BY <1>4 DEF rdb, Save, BgsaveSaves, StartBgsave, BgsaveDies, Crash, Shutdown, ProcessGone
<1> QED
    BY <1>1, <1>2, <1>3, <1>4, RdbSteps

LEMMA SnapshotStep ==
    ASSUME SnapshotInv, [Next]_vars
    PROVE  SnapshotInv'
<1>0. WritingInv /\ WritingInv' /\ TypeOK /\ Len(ops) \in 0..Len(ops) /\ crashes \in Nat
    BY WritingStep, TypesSplit, HistoryTypes
       DEF SnapshotInv, WritingInv, LogTypes, ProcessTypes
<1>1. crashes' = 0 =>
         crashes = 0 /\ Moments /\ Moments' /\ \A d : WasState(d) => WasState(d)'
    BY <1>0, CrashesCount, MomentsStep DEF SnapshotInv
<1>2. RdbIsSnapshot'
  <2> SUFFICES ASSUME ~rdb_overlap'
               PROVE  \E d \in rdb_file'[1] : rdb_file' = Dump(d) /\ (crashes' = 0 => WasState(d)')
      BY DEF RdbIsSnapshot, WasState, Dump
  <2>1. CASE UNCHANGED <<rdb_file, rdb_overlap>>
    <3>1. PICK d \in rdb_file[1] : rdb_file = Dump(d) /\ (crashes = 0 => WasState(d))
        BY <2>1 DEF SnapshotInv, RdbIsSnapshot, WasState
    <3>2. crashes' = 0 => WasState(d)'
        BY <1>1, <3>1
    <3> QED
        BY <2>1, <3>1, <3>2
  <2>2. ASSUME NEW w \in Saver, rdb_file' = Dump(Snapshot(w)), Snapshot(w) \in DB,
               w = "child" => BgsaveInProgress
        PROVE  \E d \in rdb_file'[1] : rdb_file' = Dump(d) /\ (crashes' = 0 => WasState(d)')
    <3>1. PICK d \in DB : d = Snapshot(w)
        BY <2>2
    <3>2. rdb_file' = Dump(d) /\ d \in rdb_file'[1]
        BY <2>2, <3>1, FileTypes
    <3>3. crashes' = 0 => WasState(d)
        BY <1>0, <1>1, <2>2, <3>1 DEF Moments, WasState, Snapshot, Saver
    <3>4. crashes' = 0 => WasState(d)'
        BY <1>1, <3>3
    <3> QED
        BY <3>2, <3>4
  <2> QED
      BY <1>0, <2>1, <2>2, RdbChanges
<1> QED
    BY <1>0, <1>1, <1>2 DEF SnapshotInv

(* The RDB file is one whole dump at every moment, of the keyspace as it   *)
(* was at one moment, whatever saves fail or are killed, wherever the      *)
(* process ends and whatever it executes meanwhile, if the save that put   *)
(* it in place did not meet another one.  (After a crash it may hold       *)
(* commands that the AOF lost.)                                            *)
THEOREM RdbIsOneMoment == Spec => []RdbIsSnapshot
<1>1. SnapshotInv /\ [Next]_vars => SnapshotInv'
    BY SnapshotStep
<1>2. SnapshotInv => RdbIsSnapshot
    BY DEF SnapshotInv
<1> QED
    BY <1>1, <1>2, SnapshotInit, PTL DEF Spec

-----------------------------------------------------------------------------
(* Power failures.  The medium then holds some prefix of the AOF.  What is *)
(* said of prefixes is about sequences: h is a history, s commands, f how  *)
(* many of the history are in a file.                                      *)

(* The commands of s are those of the history from position k + 1 on.      *)
Follows(s, h, k) ==
    /\ k \in 0..Len(h)
    /\ Len(s) = Len(h) - k
    /\ \A i \in 1..Len(s) : s[i] = h[k + i]

Moment(h, m) == Replay(Empty, SubSeq(h, 1, m))

(* Every prefix of the file of c commands at least replays to the keyspace *)
(* of a moment between a and f.                                            *)
PrefixesRestore(file, h, f, a, c) ==
    \A n \in c..Len(file) : \E m \in a..f : Replay(Empty, SubSeq(file, 1, n)) = Moment(h, m)

LEMMA PrefixAppend ==
    ASSUME NEW S, NEW s \in Seq(S), NEW n \in Nat, n < Len(s)
    PROVE  /\ SubSeq(s, 1, n) \in Seq(S) /\ s[n + 1] \in S
           /\ SubSeq(s, 1, n + 1) = Append(SubSeq(s, 1, n), s[n + 1])
<1>1. Len(s) \in Nat /\ n \in 0..Len(s) /\ n + 1 \in 1..Len(s) /\ \A i \in 1..Len(s) : s[i] \in S
    BY LenProperties, ElementOfSeq
<1>2. \A i \in 1..n : i \in 1..Len(s) /\ s[i] \in S
    BY <1>1
<1>3. SubSeq(s, 1, n) \in Seq(S) /\ Len(SubSeq(s, 1, n)) = n
    BY <1>1, <1>2, SubSeqProperties
<1>4. /\ SubSeq(s, 1, n) = [i \in 1..n |-> s[i]]
      /\ SubSeq(s, 1, n + 1) = [i \in 1..(n + 1) |-> s[i]]
    BY <1>1
<1>5. Append(SubSeq(s, 1, n), s[n + 1]) = [i \in 1..(n + 1) |-> IF i = n + 1 THEN s[n + 1] ELSE s[i]]
    BY <1>1, <1>3, <1>4
<1> QED
    BY <1>1, <1>3, <1>4, <1>5

LEMMA ReplayOneMore ==
    ASSUME NEW S, NEW s \in Seq(S), NEW n \in Nat, n < Len(s)
    PROVE  Replay(Empty, SubSeq(s, 1, n + 1)) = Apply(Replay(Empty, SubSeq(s, 1, n)), s[n + 1])
<1> DEFINE p == SubSeq(s, 1, n)
           c == s[n + 1]
<1>1. p \in Seq(S) /\ c \in S /\ SubSeq(s, 1, n + 1) = Append(p, c)
    BY PrefixAppend
<1> HIDE DEF p, c
<1>2. Replay(Empty, Append(p, c)) = Apply(Replay(Empty, p), c)
    BY <1>1, ReplayAppend
<1> QED
    BY <1>1, <1>2 DEF p, c

LEMMA SamePrefix ==
    ASSUME NEW s, NEW t, NEW n \in Nat, \A i \in 1..n : s[i] = t[i]
    PROVE  SubSeq(s, 1, n) = SubSeq(t, 1, n)
<1>1. SubSeq(s, 1, n) = [i \in 1..n |-> s[i]] /\ SubSeq(t, 1, n) = [i \in 1..n |-> t[i]]
    OBVIOUS
<1> QED
    BY <1>1

LEMMA PrefixOfConcat ==
    ASSUME NEW s \in Seq(Cmd), NEW t \in Seq(Cmd), NEW n \in 0..Len(s)
    PROVE  SubSeq(s \o t, 1, n) = SubSeq(s, 1, n)
<1>1. \A i \in 1..n : (s \o t)[i] = s[i]
    BY ConcatProperties, LenProperties
<1> QED
    BY <1>1, LenProperties, SamePrefix

(* Written out, commands that follow the history take it on.               *)
LEMMA FollowersReplay ==
    ASSUME NEW file \in Seq(Cmd), NEW s \in Seq(Cmd), NEW h \in Seq(Write), NEW k,
           Follows(s, h, k), Replay(Empty, file) = Moment(h, k)
    PROVE  \A i \in 0..Len(s) :
              Replay(Empty, SubSeq(file \o s, 1, Len(file) + i)) = Moment(h, k + i)
<1> DEFINE t == file \o s
           N == Len(s)
           G == {i \in Nat : Replay(Empty, SubSeq(t, 1, Len(file) + i)) = Moment(h, k + i)}
<1>1. /\ N \in Nat /\ Len(file) \in Nat /\ Len(h) \in Nat /\ k \in 0..Len(h) /\ N = Len(h) - k
      /\ t \in Seq(Cmd) /\ Len(t) = Len(file) + N
    BY LenProperties, ConcatProperties DEF Follows
<1>2. \A i \in 1..N : t[Len(file) + i] = s[i] /\ s[i] = h[k + i]
    BY <1>1, ConcatProperties DEF Follows
<1>3. SubSeq(t, 1, Len(file)) = file
    BY <1>1, PrefixOfConcat, SubSeqFull
<1> HIDE DEF t, N
<1>4. 0 \in G
  <2>1. Len(file) + 0 = Len(file) /\ k + 0 = k
      BY <1>1
  <2> QED
      BY <1>3, <2>1
<1>5. ASSUME NEW i \in Nat, i \in G, i < N PROVE i + 1 \in G
  <2>1. /\ Len(file) + i \in Nat /\ Len(file) + i < Len(t) /\ k + i \in Nat /\ k + i < Len(h)
        /\ i + 1 \in 1..N
      BY <1>1, <1>5
  <2>2. Replay(Empty, SubSeq(t, 1, (Len(file) + i) + 1))
           = Apply(Replay(Empty, SubSeq(t, 1, Len(file) + i)), t[(Len(file) + i) + 1])
      BY <1>1, <2>1, ReplayOneMore
  <2>3. Moment(h, (k + i) + 1) = Apply(Moment(h, k + i), h[(k + i) + 1])
      BY <2>1, ReplayOneMore DEF Moment
  <2>4. t[Len(file) + (i + 1)] = h[k + (i + 1)]
      BY <1>2, <2>1
  <2>5. (Len(file) + i) + 1 = Len(file) + (i + 1) /\ (k + i) + 1 = k + (i + 1) /\ i + 1 \in Nat
      BY <1>1, <2>1
  <2> QED
      BY <1>5, <2>2, <2>3, <2>4, <2>5
<1> HIDE DEF G
<1>6. \A i \in 0..N : i \in G
    BY <1>1, <1>4, <1>5, NumbersUpTo
<1> QED
    BY <1>6 DEF G, t, N

(* The buffer is written out: the prefixes reach the end of the history.   *)
LEMMA PrefixesGrow ==
    ASSUME NEW file \in Seq(Cmd), NEW s \in Seq(Cmd), NEW h \in Seq(Write), NEW f, NEW a \in 0..f,
           NEW c \in 0..Len(file), Follows(s, h, f), Replay(Empty, file) = Moment(h, f),
           PrefixesRestore(file, h, f, a, c)
    PROVE  PrefixesRestore(file \o s, h, Len(h), a, c)
<1>1. /\ Len(s) \in Nat /\ Len(file) \in Nat /\ Len(h) \in Nat /\ f \in 0..Len(h) /\ Len(s) = Len(h) - f
      /\ Len(file \o s) = Len(file) + Len(s)
    BY LenProperties, ConcatProperties DEF Follows
<1> SUFFICES ASSUME NEW n \in c..Len(file \o s)
             PROVE  \E m \in a..Len(h) : Replay(Empty, SubSeq(file \o s, 1, n)) = Moment(h, m)
    BY DEF PrefixesRestore
<1>2. CASE n <= Len(file)
  <2>1. n \in c..Len(file) /\ n \in 0..Len(file)
      BY <1>1, <1>2
  <2>2. PICK m \in a..f : Replay(Empty, SubSeq(file, 1, n)) = Moment(h, m)
      BY <2>1 DEF PrefixesRestore
  <2>3. m \in a..Len(h)
      BY <1>1
  <2> QED
      BY <2>1, <2>2, <2>3, PrefixOfConcat
<1>3. CASE n > Len(file)
  <2> DEFINE i == n - Len(file)
  <2>1. i \in 0..Len(s) /\ n = Len(file) + i /\ f + i \in a..Len(h)
      BY <1>1, <1>3
  <2> HIDE DEF i
  <2>2. Replay(Empty, SubSeq(file \o s, 1, n)) = Moment(h, f + i)
      BY <2>1, FollowersReplay
  <2> QED
      BY <2>1, <2>2
<1> QED
    BY <1>1, <1>2, <1>3

(* What a file restores does not depend on what comes later.               *)
LEMMA PrefixesStay ==
    ASSUME NEW file, NEW h, NEW g, NEW f \in Nat, NEW a \in Nat, NEW c,
           \A i \in 1..f : g[i] = h[i], PrefixesRestore(file, h, f, a, c)
    PROVE  PrefixesRestore(file, g, f, a, c)
<1> SUFFICES ASSUME NEW n \in c..Len(file)
             PROVE  \E m \in a..f : Replay(Empty, SubSeq(file, 1, n)) = Moment(g, m)
    BY DEF PrefixesRestore
<1>1. PICK m \in a..f : Replay(Empty, SubSeq(file, 1, n)) = Moment(h, m)
    BY DEF PrefixesRestore
<1>2. m \in Nat /\ \A i \in 1..m : g[i] = h[i]
    OBVIOUS
<1>3. Moment(g, m) = Moment(h, m)
    BY <1>2, SamePrefix DEF Moment
<1> QED
    BY <1>1, <1>3

LEMMA FollowsOneMore ==
    ASSUME NEW s \in Seq(Cmd), NEW h \in Seq(Write), NEW k, Follows(s, h, k), NEW c \in Write
    PROVE  Follows(Append(s, c), Append(h, c), k)
<1>1. /\ c \in Cmd /\ Len(s) \in Nat /\ Len(h) \in Nat /\ k \in 0..Len(h) /\ Len(s) = Len(h) - k
      /\ Len(Append(s, c)) = Len(s) + 1 /\ Len(Append(h, c)) = Len(h) + 1
    BY ZenonT(60), CommandTypes, LenProperties, AppendProperties DEF Follows
<1>2. ASSUME NEW i \in 1..(Len(s) + 1) PROVE Append(s, c)[i] = Append(h, c)[k + i]
  <2>1. CASE i = Len(s) + 1
    <3>1. k + i = Len(h) + 1
        BY <1>1, <2>1
    <3> QED
        BY <1>1, <2>1, <3>1, AppendProperties
  <2>2. CASE i \in 1..Len(s)
    <3>1. k + i \in 1..Len(h) /\ s[i] = h[k + i]
        BY <1>1, <2>2 DEF Follows
    <3> QED
        BY <1>1, <2>2, <3>1, AppendProperties
  <2> QED
      BY <1>1, <2>1, <2>2
<1>3. k \in 0..Len(Append(h, c)) /\ Len(Append(s, c)) = Len(Append(h, c)) - k
    BY <1>1
<1> HIDE DEF Follows
<1>4. \A i \in 1..Len(Append(s, c)) : Append(s, c)[i] = Append(h, c)[k + i]
    BY <1>1, <1>2
<1> QED
    BY <1>3, <1>4 DEF Follows

LEMMA FollowsLast ==
    ASSUME NEW h \in Seq(Write), NEW c \in Write
    PROVE  Follows(<<>>, h, Len(h)) /\ Follows(<<c>>, Append(h, c), Len(h))
<1>1. /\ Len(h) \in Nat /\ Len(Append(h, c)) = Len(h) + 1 /\ Append(h, c)[Len(h) + 1] = c
      /\ Len(<<>>) = 0 /\ Len(<<c>>) = 1 /\ <<c>>[1] = c
    BY LenProperties, AppendProperties, EmptySeq
<1> QED
    BY <1>1 DEF Follows

-----------------------------------------------------------------------------
(* What a file and its buffer say of the history; the rewritten file, too. *)
BufferFollows == up => Follows(aof_buf, ops, flushed)
RewriteFollows(a) ==
    RewriteInProgress =>
        \E k \in a..Len(ops) : rewrite.snap = StateAfter(k) /\ Follows(rewrite_buf, ops, k)
Restorable(a, c) == PrefixesRestore(aof_file, ops, flushed, a, c)

LogFollows(a, c) ==
    /\ a \in 0..flushed /\ c \in 0..Len(aof_file)
    /\ BufferFollows /\ RewriteFollows(a) /\ Restorable(a, c)

(* The buffer goes to the file.                                            *)
LEMMA WrittenOut ==
    ASSUME StoreInv, up, NEW a, NEW c, LogFollows(a, c)
    PROVE  PrefixesRestore(aof_file \o aof_buf, ops, Len(ops), a, c)
<1>1. aof_file \in Seq(Cmd) /\ aof_buf \in Seq(Cmd) /\ ops \in Seq(Write)
    BY TypesSplit DEF StoreInv, LogTypes
<1>2. Replay(Empty, aof_file) = Moment(ops, flushed)
    BY DEF StoreInv, HistoryIsKept, StateAfter, Moment
<1>3. /\ a \in 0..flushed /\ c \in 0..Len(aof_file) /\ Follows(aof_buf, ops, flushed)
      /\ PrefixesRestore(aof_file, ops, flushed, a, c)
    BY DEF LogFollows, BufferFollows, Restorable
<1> QED
    BY <1>1, <1>2, <1>3, PrefixesGrow

LEMMA FollowsExecute ==
    ASSUME StoreInv, NEW a, NEW c, LogFollows(a, c), NEW w \in Write, Execute(w)
    PROVE  BufferFollows' /\ RewriteFollows(a)' /\ Restorable(a, c)'
<1>1. /\ ops \in Seq(Write) /\ aof_buf \in Seq(Cmd) /\ rewrite_buf \in Seq(Cmd)
      /\ Len(ops) \in Nat /\ flushed \in 0..Len(ops) /\ a \in 0..flushed
    BY TypesSplit, LenProperties DEF StoreInv, LogTypes, LogFollows
<1>2. /\ up /\ up' = up /\ ops' = Append(ops, w) /\ rewrite' = rewrite
      /\ rewrite_buf' = IF RewriteInProgress THEN Append(rewrite_buf, w) ELSE rewrite_buf
    BY DEF Running, rdb, Execute
<1>3. /\ Follows(aof_buf, ops, flushed) /\ RewriteFollows(a)
      /\ PrefixesRestore(aof_file, ops, flushed, a, c)
    BY <1>2 DEF LogFollows, BufferFollows, Restorable
<1>4. Len(ops') = Len(ops) + 1 /\ \A i \in 1..Len(ops) : ops'[i] = ops[i]
    BY <1>1, <1>2, AppendProperties
<1>5. RewriteFollows(a)'
  <2> SUFFICES ASSUME RewriteInProgress
               PROVE  \E k \in a..Len(ops') : rewrite.snap = Moment(ops', k)
                                              /\ Follows(rewrite_buf', ops', k)
      BY <1>2 DEF RewriteFollows, RewriteInProgress, StateAfter, Moment
  <2>1. PICK k \in a..Len(ops) : rewrite.snap = StateAfter(k) /\ Follows(rewrite_buf, ops, k)
      BY <1>3 DEF RewriteFollows
  <2>2. k \in Nat /\ k \in a..Len(ops') /\ \A i \in 1..k : ops'[i] = ops[i]
      BY <1>1, <1>4
  <2>3. Moment(ops', k) = StateAfter(k)
      BY <2>2, SamePrefix DEF Moment, StateAfter
  <2>4. Follows(rewrite_buf', ops', k)
      BY <1>1, <1>2, <2>1, FollowsOneMore
  <2> QED
      BY <2>1, <2>2, <2>3, <2>4
<1>6. CASE Len(aof_buf) = BufCap
  <2>1. aof_file' = aof_file \o aof_buf /\ aof_buf' = <<w>> /\ flushed' = Len(ops)
      BY <1>6 DEF Execute, AppendAof
  <2>2. PrefixesRestore(aof_file', ops, Len(ops), a, c)
      BY <1>2, <2>1, WrittenOut
  <2>3. PrefixesRestore(aof_file', ops', Len(ops), a, c)
      BY SMTT(30), <1>1, <1>4, <2>2, PrefixesStay
  <2>4. Follows(<<w>>, ops', Len(ops))
      BY <1>1, <1>2, FollowsLast
  <2> QED
      BY <1>5, <2>1, <2>3, <2>4 DEF BufferFollows, Restorable
<1>7. CASE Len(aof_buf) # BufCap
  <2>1. aof_file' = aof_file /\ aof_buf' = Append(aof_buf, w) /\ flushed' = flushed
      BY <1>7 DEF Execute, AppendAof
  <2>2. flushed \in Nat /\ a \in Nat /\ \A i \in 1..flushed : ops'[i] = ops[i]
      BY <1>1, <1>4
  <2>3. PrefixesRestore(aof_file, ops', flushed, a, c)
      BY <1>3, <2>2, PrefixesStay
  <2>4. Follows(aof_buf', ops', flushed)
      BY <1>1, <1>2, <1>3, <2>1, FollowsOneMore
  <2> QED
      BY <1>5, <2>1, <2>3, <2>4 DEF BufferFollows, Restorable
<1> QED
    BY <1>6, <1>7

(* The rewritten file: its first command restores the snapshot, the others *)
(* follow it.                                                              *)
LEMMA FollowsSwap ==
    ASSUME StoreInv, NEW a, NEW c, LogFollows(a, c), ReapRewrite
    PROVE  PrefixesRestore(aof_file', ops', flushed', a, 1)
<1>1. /\ ops \in Seq(Write) /\ rewrite_buf \in Seq(Cmd) /\ rewrite.snap \in DB
      /\ Len(ops) \in Nat /\ flushed \in 0..Len(ops) /\ a \in 0..flushed
    BY TypesSplit, LenProperties, ChildTypes DEF StoreInv, LogTypes, ProcessTypes, LogFollows
<1>2. /\ aof_file' = <<Rebuild(rewrite.snap)>> \o rewrite_buf /\ flushed' = Len(ops) /\ ops' = ops
      /\ RewriteInProgress
    BY DEF ReapRewrite, Rebuild, RewriteInProgress
<1>3. PICK k \in a..Len(ops) : rewrite.snap = StateAfter(k) /\ Follows(rewrite_buf, ops, k)
    BY <1>2 DEF LogFollows, RewriteFollows
<1> DEFINE file == <<Rebuild(rewrite.snap)>>
<1>4. file \in Seq(Cmd) /\ Len(file) = 1
    BY <1>1, CommandTypes, CommandsTypes
<1>5. Replay(Empty, file) = Moment(ops, k)
    BY <1>1, <1>3, <1>4, RebuildRestores, ConcatEmptySeq DEF Moment, StateAfter
<1> HIDE DEF file
<1>6. \A i \in 0..Len(rewrite_buf) :
         Replay(Empty, SubSeq(file \o rewrite_buf, 1, 1 + i)) = Moment(ops, k + i)
  <2>1. \A i \in 0..Len(rewrite_buf) :
           Replay(Empty, SubSeq(file \o rewrite_buf, 1, Len(file) + i)) = Moment(ops, k + i)
      BY ZenonT(60), <1>1, <1>3, <1>4, <1>5, FollowersReplay
  <2> QED
      BY <1>4, <2>1
<1>7. Len(rewrite_buf) = Len(ops) - k /\ Len(file \o rewrite_buf) = 1 + Len(rewrite_buf)
    BY ZenonT(60), <1>1, <1>3, <1>4, CommandsTypes DEF Follows
<1>8. ASSUME NEW n \in 1..Len(file \o rewrite_buf)
      PROVE  \E m \in a..Len(ops) : Replay(Empty, SubSeq(file \o rewrite_buf, 1, n)) = Moment(ops, m)
  <2>1. n - 1 \in 0..Len(rewrite_buf) /\ 1 + (n - 1) = n /\ k + (n - 1) \in a..Len(ops)
      BY <1>1, <1>3, <1>7
  <2> QED
      BY <1>6, <2>1
<1> QED
    BY <1>2, <1>8 DEF PrefixesRestore, file

LEMMA FollowsStep ==
    ASSUME StoreInv, StoreInv', [Next]_vars, NobodySaves, NEW a, NEW c, LogFollows(a, c)
    PROVE  /\ BufferFollows' /\ RewriteFollows(a)' /\ a \in 0..flushed'
           /\ ReapRewrite \/ PrefixesRestore(aof_file', ops', flushed', a, c)
<1> DEFINE Goal == /\ BufferFollows' /\ RewriteFollows(a)' /\ a \in 0..flushed'
                   /\ ReapRewrite \/ PrefixesRestore(aof_file', ops', flushed', a, c)
<1>1. /\ aof_file \in Seq(Cmd) /\ aof_buf \in Seq(Cmd) /\ ops \in Seq(Write) /\ Len(ops) \in Nat
      /\ flushed \in 0..Len(ops) /\ rewrite \in ChildType /\ rewrite.buf = <<>> /\ bgsave = NoChild
    BY TypesSplit, LenProperties DEF StoreInv, LogTypes, ProcessTypes, LogOnly
<1>2. /\ a \in 0..flushed /\ BufferFollows /\ RewriteFollows(a)
      /\ PrefixesRestore(aof_file, ops, flushed, a, c)
    BY DEF LogFollows, Restorable
<1>3. NoChild.phase = "none"
    BY NoChildShape
<1>4. Follows(<<>>, ops, Len(ops))
    BY <1>1 DEF Follows
<1>5. ASSUME UNCHANGED <<aof_file, ops, flushed>>, up' => up /\ aof_buf' = aof_buf,
             RewriteInProgress' =>
                RewriteInProgress /\ rewrite'.snap = rewrite.snap /\ rewrite_buf' = rewrite_buf
      PROVE  Goal
  <2>1. BufferFollows'
      BY <1>2, <1>5 DEF BufferFollows
  <2>2. RewriteFollows(a)'
      BY <1>2, <1>5 DEF RewriteFollows, StateAfter
  <2> QED
      BY <1>2, <1>5, <2>1, <2>2
<1>6. ASSUME up, aof_file' = aof_file \o aof_buf, aof_buf' = <<>>, flushed' = Len(ops), ops' = ops
      PROVE  /\ BufferFollows' /\ a \in 0..flushed'
             /\ PrefixesRestore(aof_file', ops', flushed', a, c)
  <2>1. PrefixesRestore(aof_file', ops', flushed', a, c)
      BY <1>6, WrittenOut
  <2>2. a \in 0..flushed'
      BY <1>1, <1>2, <1>6
  <2> QED
      BY <1>4, <1>6, <2>1, <2>2 DEF BufferFollows
<1>7. ASSUME NEW w \in Write, Execute(w) PROVE Goal
  <2>1. flushed' \in {flushed, Len(ops)}
      BY <1>7 DEF Execute, AppendAof
  <2>2. a \in 0..flushed'
      BY <1>1, <1>2, <2>1
  <2> QED
      BY <1>7, <2>2, FollowsExecute DEF Restorable
<1>8. CASE Flush \/ WaitAof
  <2>1. /\ up /\ aof_file' = aof_file \o aof_buf /\ aof_buf' = <<>> /\ flushed' = Len(ops)
        /\ UNCHANGED <<ops, rewrite, rewrite_buf>>
      BY <1>8 DEF Running, rdb, Flush, WaitAof, FlushAof, children
  <2>2. RewriteFollows(a)'
      BY <1>2, <2>1 DEF RewriteFollows, RewriteInProgress, StateAfter
  <2> QED
      BY <1>6, <2>1, <2>2
<1>9. CASE StartRewrite
  <2>1. /\ up /\ aof_file' = aof_file \o aof_buf /\ aof_buf' = <<>> /\ flushed' = Len(ops)
        /\ ops' = ops /\ rewrite' = Forked(db, <<>>) /\ rewrite_buf' = <<>>
      BY <1>9 DEF Running, rdb, StartRewrite, FlushAof
  <2>2. rewrite'.snap = db /\ db = StateAfter(Len(ops))
      BY <2>1 DEF Forked, StoreInv, HistoryIsKept
  <2>3. Len(ops) \in a..Len(ops)
      BY <1>1, <1>2
  <2>4. RewriteFollows(a)'
      BY <1>4, <2>1, <2>2, <2>3 DEF RewriteFollows, StateAfter
  <2> QED
      BY <1>6, <2>1, <2>4
<1>10. CASE ReapRewrite
  <2>1. /\ aof_buf' = <<>> /\ flushed' = Len(ops) /\ rewrite' = NoChild /\ ops' = ops
      BY <1>10 DEF ReapRewrite
  <2>2. BufferFollows' /\ RewriteFollows(a)' /\ a \in 0..flushed'
      BY <1>1, <1>2, <1>3, <1>4, <2>1 DEF BufferFollows, RewriteFollows, RewriteInProgress
  <2> QED
      BY <1>10, <2>2
<1>11. CASE ReapFailedRewrite
    BY <1>3, <1>5, <1>11 DEF ReapFailedRewrite, RewriteInProgress, disk, rdb, history
<1>12. CASE RewriteClosesFds \/ RewriteSaves \/ RewriteDies
  <2>1. /\ RewriteInProgress /\ UNCHANGED <<up, aof_buf, rewrite_buf, history>>
        /\ aof_file' \in {aof_file, aof_file \o <<>>}
      BY <1>1, <1>12 DEF RewriteClosesFds, RewriteSaves, RewriteDies, RewriteInProgress, disk, rdb
  <2>2. aof_file' = aof_file
      BY <1>1, <2>1, ConcatEmptySeq
  <2>3. rewrite'.snap = rewrite.snap
      BY <1>1, <1>12 DEF RewriteClosesFds, RewriteSaves, RewriteDies, ChildType
  <2> QED
      BY <1>5, <2>1, <2>2, <2>3 DEF history
<1>13. CASE Crash
  <2>1. /\ ops' = SubSeq(ops, 1, flushed) /\ flushed' = flushed /\ aof_file' = aof_file
        /\ ~up' /\ rewrite' = NoChild
      BY <1>13 DEF Crash, ProcessGone, disk, rdb
  <2>2. flushed \in Nat /\ a \in Nat /\ \A i \in 1..flushed : ops'[i] = ops[i]
    <3>1. ops' = [i \in 1..flushed |-> ops[i]]
        BY <1>1, <2>1
    <3> QED
        BY <1>1, <1>2, <3>1
  <2>3. PrefixesRestore(aof_file, ops', flushed, a, c)
      BY <1>2, <2>2, PrefixesStay
  <2> QED
      BY <1>2, <1>3, <2>1, <2>3 DEF BufferFollows, RewriteFollows, RewriteInProgress
<1>14. CASE Shutdown
  <2>1. /\ up /\ aof_file' = aof_file \o aof_buf /\ flushed' = Len(ops) /\ ops' = ops
        /\ aof_buf' = <<>> /\ rewrite' = NoChild
      BY <1>14 DEF Running, rdb, Shutdown, ProcessGone
  <2> QED
      BY <1>3, <1>6, <2>1 DEF RewriteFollows, RewriteInProgress
<1>15. CASE Restart
  <2>1. /\ aof_buf = <<>> /\ flushed = Len(ops) /\ rewrite = NoChild
        /\ UNCHANGED <<aof_buf, disk, children, history>>
      BY <1>15 DEF Running, rdb, Restart, StoreInv, HistoryIsKept
  <2> QED
      BY <1>2, <1>3, <1>4, <2>1
         DEF BufferFollows, RewriteFollows, RewriteInProgress, disk, rdb, children, history
<1>16. CASE Save \/ (\E S \in Batch : Request(S)) \/ ClientStalls \/ ClientReads \/ UNCHANGED vars
  <2>1. /\ UNCHANGED <<up, aof_buf, aof_file, rewrite, rewrite_buf, history>>
      BY <1>16 DEF Save, Request, ClientStalls, ClientReads, vars, disk, rdb, children, history
  <2> QED
      BY <1>5, <2>1 DEF RewriteInProgress, history
<1>17. CASE ReapBgsave \/ StartBgsave \/ BgsaveDies \/ (\E w \in Saver : SaverStep(w))
  <2>1. /\ UNCHANGED <<up, aof_buf, aof_file, rewrite, rewrite_buf, history>>
      BY <1>17, SaverFrame DEF ReapBgsave, StartBgsave, BgsaveDies, disk, rdb
  <2> QED
      BY <1>5, <2>1 DEF RewriteInProgress, history
<1>18. CASE BgsaveClosesFds \/ BgsaveSaves
    BY <1>1, <1>3, <1>18 DEF BgsaveClosesFds, BgsaveSaves
<1> QED
    BY <1>7, <1>8, <1>9, <1>10, <1>11, <1>12, <1>13, <1>14, <1>15, <1>16, <1>17, <1>18 DEF Next

(* Whatever prefix of the AOF the medium holds after a power failure, it   *)
(* is a keyspace the server once had: rewritten files and appended ones,   *)
(* between restarts and after them, hold no write twice and miss none in   *)
(* the middle.                                                             *)
EveryPrefixIsAMoment ==
    \A n \in 0..Len(aof_file) : \E m \in 0..Len(ops) :
        Replay(Empty, SubSeq(aof_file, 1, n)) = StateAfter(m)

PrefixInv == LogFollows(0, 0)

(* The empty file is the first moment.                                     *)
LEMMA EmptyPrefix ==
    ASSUME NEW file \in Seq(Cmd), NEW h \in Seq(Write), NEW f \in Nat,
           PrefixesRestore(file, h, f, 0, 1)
    PROVE  PrefixesRestore(file, h, f, 0, 0)
<1> DEFINE p == SubSeq(file, 1, 0)
           q == SubSeq(h, 1, 0)
<1>1. p = q /\ Len(file) \in Nat
    BY LenProperties
<1> HIDE DEF p, q
<1>2. Replay(Empty, p) = Replay(Empty, q) /\ 0 \in 0..f
    BY <1>1
<1>3. Replay(Empty, SubSeq(file, 1, 0)) = Moment(h, 0) /\ 0 \in 0..f
    BY <1>2 DEF Moment, p, q
<1>4. \A n \in 0..Len(file) : n = 0 \/ n \in 1..Len(file)
    BY <1>1
<1> QED
    BY <1>3, <1>4 DEF PrefixesRestore

LEMMA FollowsInit == Init => LogFollows(0, 0)
<1> SUFFICES ASSUME Init PROVE LogFollows(0, 0)
    OBVIOUS
<1>1. /\ <<>> \in Seq(Cmd) /\ <<>> \in Seq(Write) /\ Len(<<>>) = 0
    BY EmptySeq
<1>2. Follows(<<>>, <<>>, 0)
    BY <1>1 DEF Follows
<1>3. PrefixesRestore(<<>>, <<>>, 0, 0, 1)
    BY <1>1 DEF PrefixesRestore
<1>4. PrefixesRestore(<<>>, <<>>, 0, 0, 0)
    BY <1>1, <1>3, EmptyPrefix
<1> QED
    BY <1>1, <1>2, <1>4, NoChildShape
       DEF Init, LogFollows, BufferFollows, RewriteFollows, RewriteInProgress, Restorable

LEMMA PrefixStep ==
    ASSUME StoreInv, StoreInv', [Next]_vars, NobodySaves, PrefixInv
    PROVE  PrefixInv'
<1>1. LogFollows(0, 0)
    BY DEF PrefixInv
<1>2. /\ BufferFollows' /\ RewriteFollows(0)' /\ 0 \in 0..flushed'
      /\ ReapRewrite \/ PrefixesRestore(aof_file', ops', flushed', 0, 0)
    BY <1>1, FollowsStep
<1>3. aof_file' \in Seq(Cmd) /\ ops' \in Seq(Write) /\ flushed' \in Nat /\ Len(aof_file') \in Nat
  <2>1. LogTypes'
      BY TypesSplit DEF StoreInv
  <2> QED
      BY <2>1, LenProperties DEF LogTypes
<1>4. CASE ReapRewrite
  <2>1. PrefixesRestore(aof_file', ops', flushed', 0, 1)
      BY <1>1, <1>4, FollowsSwap
  <2>2. PrefixesRestore(aof_file', ops', flushed', 0, 0)
      BY <1>3, <2>1, EmptyPrefix
  <2> QED
      BY <1>2, <1>3, <2>2 DEF PrefixInv, LogFollows, Restorable
<1>5. CASE ~ReapRewrite
    BY <1>2, <1>3, <1>5 DEF PrefixInv, LogFollows, Restorable
<1> QED
    BY <1>4, <1>5

THEOREM PowerFailureRestoresAMoment ==
    ASSUME NobodySaves
    PROVE  Spec => []EveryPrefixIsAMoment
<1>1. StoreInv /\ StoreInv' /\ PrefixInv /\ [Next]_vars => PrefixInv'
    BY PrefixStep
<1>2. StoreInv /\ PrefixInv => EveryPrefixIsAMoment
  <2> SUFFICES ASSUME StoreInv, PrefixInv, NEW n \in 0..Len(aof_file)
               PROVE  \E m \in 0..Len(ops) : Replay(Empty, SubSeq(aof_file, 1, n)) = StateAfter(m)
      BY DEF EveryPrefixIsAMoment
  <2>1. PICK m \in 0..flushed : Replay(Empty, SubSeq(aof_file, 1, n)) = Moment(ops, m)
      BY DEF PrefixInv, LogFollows, Restorable, PrefixesRestore
  <2>2. flushed \in 0..Len(ops) /\ Len(ops) \in Nat
      BY TypesSplit, LenProperties DEF StoreInv, LogTypes
  <2> QED
      BY <2>1, <2>2 DEF Moment, StateAfter
<1>3. Init => PrefixInv
    BY FollowsInit DEF PrefixInv
<1> QED
    BY <1>1, <1>2, <1>3, StoreInvariant, PTL DEF Spec

(* What was confirmed is behind every prefix that holds what was synced;   *)
(* a running rewrite was forked after the last confirmation.               *)
ConfirmedInv == LogFollows(synced_ops, aof_synced)

LEMMA ConfirmedStep ==
    ASSUME StoreInv, StoreInv', [Next]_vars, NobodySaves, ConfirmedInv,
           [WaitAof => ~RewriteInProgress]_vars
    PROVE  ConfirmedInv'
<1>1. PICK a, c : a = synced_ops /\ c = aof_synced /\ LogFollows(a, c)
    BY DEF ConfirmedInv
<1>2. /\ BufferFollows' /\ RewriteFollows(a)' /\ a \in 0..flushed'
      /\ ReapRewrite \/ PrefixesRestore(aof_file', ops', flushed', a, c)
    BY <1>1, FollowsStep
<1>3. /\ aof_file' \in Seq(Cmd) /\ Len(aof_file') \in Nat /\ aof_synced' \in 0..Len(aof_file')
      /\ flushed' \in Nat /\ flushed \in Nat /\ synced_ops \in 0..flushed
  <2>1. LogTypes' /\ LogTypes
      BY TypesSplit DEF StoreInv
  <2> QED
      BY <1>1, <2>1, LenProperties DEF LogTypes, LogFollows
<1>4. ASSUME synced_ops' = a, PrefixesRestore(aof_file', ops', flushed', a, aof_synced')
      PROVE  ConfirmedInv'
    BY <1>2, <1>3, <1>4 DEF ConfirmedInv, LogFollows, RewriteFollows, Restorable
<1>5. CASE ReapRewrite
  <2>1. aof_synced' = 1 /\ synced_ops' = a
      BY <1>1, <1>5 DEF ReapRewrite
  <2>2. PrefixesRestore(aof_file', ops', flushed', a, 1)
      BY <1>1, <1>5, FollowsSwap
  <2> QED
      BY <1>4, <2>1, <2>2
<1>6. CASE WaitAof
  <2>1. /\ aof_synced' = Len(aof_file') /\ synced_ops' = Len(ops) /\ flushed' = Len(ops)
        /\ rewrite' = rewrite
      BY <1>6 DEF WaitAof, FlushAof, children
  <2>2. ~RewriteInProgress
    <3>1. CASE WaitAof => ~RewriteInProgress
        BY <1>6, <3>1
    <3>2. CASE UNCHANGED vars
        BY <1>1, <1>3, <1>6, <3>2 DEF WaitAof, vars, history
    <3> QED
        BY <3>1, <3>2
  <2>3. RewriteFollows(synced_ops)'
      BY <2>1, <2>2 DEF RewriteFollows, RewriteInProgress
  <2> DEFINE whole == SubSeq(aof_file', 1, Len(aof_file'))
  <2>4. whole = aof_file'
      BY <1>3, SubSeqFull
  <2> HIDE DEF whole
  <2>5. Replay(Empty, whole) = Moment(ops', flushed')
      BY <2>4 DEF StoreInv, HistoryIsKept, StateAfter, Moment
  <2>6. flushed' \in flushed'..flushed' /\ \A n \in Len(aof_file')..Len(aof_file') : n = Len(aof_file')
      BY <1>3
  <2>7. PrefixesRestore(aof_file', ops', flushed', flushed', Len(aof_file'))
      BY <2>5, <2>6 DEF PrefixesRestore, whole
  <2> QED
      BY <1>2, <1>3, <2>1, <2>3, <2>7 DEF ConfirmedInv, LogFollows, Restorable
<1>7. CASE ~ReapRewrite /\ ~WaitAof
  <2>1. aof_synced' = aof_synced
      BY <1>7, SaverFrame DEF Running, Next, vars, disk, rdb, Execute, Flush, Save, Request, ClientStalls, ClientReads,
         ReapBgsave, StartBgsave, StartRewrite, ReapFailedRewrite, BgsaveClosesFds, BgsaveSaves,
         BgsaveDies, RewriteClosesFds, RewriteSaves, RewriteDies, Crash, Shutdown, Restart
  <2>2. synced_ops' = synced_ops
    <3>1. CASE Crash
        BY <1>3, <3>1 DEF Crash
    <3>2. CASE ~Crash
        BY <1>7, <3>2, SaverFrame DEF Running, rdb, Next, vars, history, Execute, Flush, Save, Request, ClientStalls,
           ClientReads, ReapBgsave, StartBgsave, StartRewrite, ReapFailedRewrite, BgsaveClosesFds,
           BgsaveSaves, BgsaveDies, RewriteClosesFds, RewriteSaves, RewriteDies, Shutdown, Restart
    <3> QED
        BY <3>1, <3>2
  <2> QED
      BY <1>1, <1>2, <1>4, <1>7, <2>1, <2>2
<1> QED
    BY <1>5, <1>6, <1>7

(* What a WAITAOF confirmed survives a power failure at any later moment,  *)
(* through flushes, rewrites, crashes and restarts, if no WAITAOF is       *)
(* answered while a rewrite child runs.  The configuration                 *)
(* MCPowerFailure.cfg shows that the hypothesis is needed: the new file is *)
(* fsynced before the rewrite buffer is appended, and not again.           *)
NoneConfirmedDuringRewrite == [][WaitAof => ~RewriteInProgress]_vars

THEOREM ConfirmationsHold ==
    ASSUME NobodySaves
    PROVE  Spec /\ NoneConfirmedDuringRewrite => []ConfirmedWritesSurvive
<1>1. StoreInv /\ StoreInv' /\ ConfirmedInv /\ [Next]_vars /\ [WaitAof => ~RewriteInProgress]_vars
         => ConfirmedInv'
    BY ConfirmedStep
<1>2. StoreInv /\ ConfirmedInv => ConfirmedWritesSurvive
  <2> SUFFICES ASSUME StoreInv, ConfirmedInv, NEW n \in aof_synced..Len(aof_file)
               PROVE  \E m \in synced_ops..Len(ops) :
                         Replay(Empty, SubSeq(aof_file, 1, n)) = StateAfter(m)
      BY DEF ConfirmedWritesSurvive
  <2>1. PICK m \in synced_ops..flushed : Replay(Empty, SubSeq(aof_file, 1, n)) = Moment(ops, m)
      BY DEF ConfirmedInv, LogFollows, Restorable, PrefixesRestore
  <2>2. flushed \in 0..Len(ops) /\ Len(ops) \in Nat /\ synced_ops \in Nat
      BY TypesSplit, LenProperties DEF StoreInv, LogTypes
  <2> QED
      BY <2>1, <2>2 DEF Moment, StateAfter
<1>3. Init => ConfirmedInv
    BY FollowsInit DEF ConfirmedInv, Init
<1> QED
    BY <1>1, <1>2, <1>3, StoreInvariant, PTL DEF Spec, NoneConfirmedDuringRewrite
=============================================================================
