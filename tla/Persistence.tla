---------------------------- MODULE Persistence ----------------------------
(***************************************************************************)
(* How redis-uya keeps the keyspace on disk: the append-only file and its  *)
(* write buffer (persistence/aof.uya), BGREWRITEAOF and BGSAVE, which fork *)
(* (server.uya), SAVE (command/executor.uya), crashes, and the restart     *)
(* that loads the RDB file and replays the AOF over it.                    *)
(*                                                                         *)
(* A value is the length of a list of like items: "push" is then the       *)
(* simplest command that is not idempotent and does not commute with       *)
(* "del".  A key of length 0 is absent, an absent RDB file is the empty    *)
(* keyspace.  The AOF holds commands, not bytes, and is never torn inside  *)
(* one.  An RDB file is Blocks pieces, each written by one write() and     *)
(* known by the keyspace it is a piece of.                                 *)
(*                                                                         *)
(* `ops', `flushed' and `synced_ops' are history variables: the commands   *)
(* executed (less those a crash lost), how many of them had left the       *)
(* process when the AOF was last written or replaced, and how many a       *)
(* WAITAOF reported as fsynced.  `overlap' says whether a SAVE was begun   *)
(* while the BGSAVE child last started was running (and whether the SAVE   *)
(* last begun was such a one), `rdb_overlap' what it said when the RDB     *)
(* file was last renamed into place.                                       *)
(***************************************************************************)
EXTENDS Integers, Sequences, FiniteSets, SequencesExt

CONSTANTS
    Key,
    BufCap,       \* commands that fit AOF_WRITE_BUFFER_BYTES
    Requests,     \* background requests clients send: {"bgsave", "bgrewriteaof"}
    SaveAllowed,  \* TRUE if clients send SAVE
    Blocks,       \* writes that an RDB file takes
    MaxBatch,     \* requests one EXEC or pipelined batch may hold
    MaxOps,       \* bound: write commands of a behaviour
    MaxFile,      \* bound: commands in the AOF when a request is taken
    MaxCrashes    \* bound: crashes and shutdowns of a behaviour

ASSUME PersistenceAssumption ==
    /\ BufCap \in Nat \ {0}
    /\ Requests \subseteq {"bgsave", "bgrewriteaof"}
    /\ SaveAllowed \in BOOLEAN
    /\ Blocks \in Nat \ {0}
    /\ MaxBatch \in Nat
    /\ MaxOps \in Nat
    /\ MaxFile \in Nat
    /\ MaxCrashes \in Nat

VARIABLES
    up,                 \* the server process runs
    db,                 \* the keyspace in memory
    aof_buf,            \* AofWriter.buffer
    aof_file,           \* what the kernel holds of the AOF
    aof_synced,         \* commands of aof_file that are on the medium
    rdb_file,           \* what the RDB file holds
    tmp_file,           \* what <RDB path>.tmp holds, if it exists
    savers,             \* SAVE and the BGSAVE child inside rdb_save_file_at
    overlap, rdb_overlap,
    bgsave_requested,
    bgsave,             \* the BGSAVE child
    rewrite_requested,
    rewrite,            \* the BGREWRITEAOF child
    rewrite_buf,        \* commands executed since the rewrite forked
    pending_output,     \* some client does not read its reply
    ops, flushed, synced_ops, crashes

rdb == <<rdb_file, tmp_file, savers, overlap, rdb_overlap>>
disk == <<aof_file, aof_synced, rdb>>
children == <<bgsave_requested, bgsave, rewrite_requested, rewrite, rewrite_buf>>
history == <<ops, flushed, synced_ops, crashes>>
vars == <<up, db, aof_buf, disk, children, pending_output, history>>

-----------------------------------------------------------------------------
DB == [Key -> Nat]
Empty == [k \in Key |-> 0]

(* What clients send, and what a rewrite emits: for each key of the        *)
(* snapshot the commands that add its items to whatever the key holds      *)
(* (there is no DEL before them).                                          *)
Write == [op : {"push", "del"}, key : Key]
Cmd == Write \cup [op : {"rebuild"}, snap : DB]

Apply(d, c) ==
    CASE c.op = "push"    -> [d EXCEPT ![c.key] = @ + 1]
      [] c.op = "del"     -> [d EXCEPT ![c.key] = 0]
      [] c.op = "rebuild" -> [k \in Key |-> d[k] + c.snap[k]]

Replay(d, cmds) == FoldLeft(Apply, d, cmds)

(* An RDB file: for each block the keyspace it was written from, or {} if  *)
(* nothing was written there.                                              *)
File == [1..Blocks -> SUBSET DB]
NoFile == <<>>
NewFile == [b \in 1..Blocks |-> {}]
Dump(d) == [b \in 1..Blocks |-> {d}]

(* What rdb_load_file_at may make of a file: a whole dump gives its        *)
(* keyspace; a file with a part missing is refused, and the server starts  *)
(* without it; one put together of several dumps is refused or gives a     *)
(* mixture of them.                                                        *)
Mixtures(S) == {[k \in Key |-> c[k][k]] : c \in [Key -> S]}
Loads(f) ==
    IF \E d \in f[1] : f = Dump(d) THEN f[1]
    ELSE IF \E b \in 1..Blocks : f[b] = {} THEN {Empty}
    ELSE {Empty} \cup Mixtures(UNION {f[b] : b \in 1..Blocks})

(* What a restart would load now. *)
Recovered == Replay(CHOOSE d \in Loads(rdb_file) : TRUE, aof_file)

(* A child: what it was forked with and how far it got. *)
Phase == {"none", "forked", "saving", "ok", "failed"}
NoChild == [phase |-> "none", snap |-> Empty, buf |-> <<>>]
Forked(snap, buf) == [phase |-> "forked", snap |-> snap, buf |-> buf]

(* Those who may be writing an RDB file: SAVE in the event loop, which     *)
(* does nothing else meanwhile, and the BGSAVE child.  fd is the file a    *)
(* saver has open, by the name that file has now ("gone": none), done the  *)
(* blocks it has written.                                                  *)
Saver == {"server", "child"}
Idle == [step |-> "idle", fd |-> "none", done |-> 0]
Unlinked == [Idle EXCEPT !.step = "unlinked"]

(* The event loop is at work, not inside a SAVE. *)
Running == up /\ savers["server"].step = "idle"

(* The BGSAVE child has not exited. *)
BgsaveAlive == bgsave.phase \in {"forked", "saving"}

BgsaveInProgress == bgsave.phase # "none"
RewriteInProgress == rewrite.phase # "none"

Init ==
    /\ up = TRUE
    /\ db = Empty
    /\ aof_buf = <<>>
    /\ aof_file = <<>>
    /\ aof_synced = 0
    /\ rdb_file = Dump(Empty)
    /\ tmp_file = NoFile
    /\ savers = [w \in Saver |-> Idle]
    /\ overlap = FALSE
    /\ rdb_overlap = FALSE
    /\ bgsave_requested = FALSE
    /\ bgsave = NoChild
    /\ rewrite_requested = FALSE
    /\ rewrite = NoChild
    /\ rewrite_buf = <<>>
    /\ pending_output = FALSE
    /\ ops = <<>>
    /\ flushed = 0
    /\ synced_ops = 0
    /\ crashes = 0

-----------------------------------------------------------------------------
(* aof_append_raw: a full buffer is flushed before the command is copied. *)
AppendAof(c) ==
    IF Len(aof_buf) = BufCap
    THEN /\ aof_file' = aof_file \o aof_buf
         /\ aof_buf' = <<c>>
         /\ flushed' = Len(ops)
    ELSE /\ aof_buf' = Append(aof_buf, c)
         /\ UNCHANGED <<aof_file, flushed>>

(* aof_flush *)
FlushAof ==
    /\ aof_file' = aof_file \o aof_buf
    /\ aof_buf' = <<>>
    /\ flushed' = Len(ops)

(* Mutation: the rewrite buffer is not told of the command. *)
ExecuteForgetsRewrite(c) ==
    /\ Running
    /\ Len(ops) < MaxOps
    /\ c.op = "del" => db[c.key] > 0
    /\ db' = Apply(db, c)
    /\ AppendAof(c)
    /\ ops' = Append(ops, c)
    /\ UNCHANGED <<up, aof_synced, rdb, children, pending_output, synced_ops, crashes>>

(* One write command: execute, append to the AOF, and to the rewrite       *)
(* buffer while a rewrite child runs.  A DEL of an absent key is left out: *)
(* it changes nothing wherever it is replayed.                             *)
Execute(c) ==
    /\ Running
    /\ Len(ops) < MaxOps
    /\ c.op = "del" => db[c.key] > 0
    /\ db' = Apply(db, c)
    /\ AppendAof(c)
    /\ rewrite_buf' = IF RewriteInProgress THEN Append(rewrite_buf, c) ELSE rewrite_buf
    /\ ops' = Append(ops, c)
    /\ UNCHANGED <<up, aof_synced, rdb, bgsave_requested, bgsave, rewrite_requested,
                   rewrite, pending_output, synced_ops, crashes>>

(* server_cron_at and server_close_client_slot flush. *)
Flush ==
    /\ Running
    /\ aof_buf # <<>>
    /\ FlushAof
    /\ UNCHANGED <<up, db, aof_synced, rdb, children, pending_output,
                   ops, synced_ops, crashes>>

(* WAITAOF 1 ...: flush and fsync, then answer that every write so far is  *)
(* durable.                                                                *)
WaitAof ==
    /\ Running
    /\ synced_ops < Len(ops)
    /\ FlushAof
    /\ aof_synced' = Len(aof_file')
    /\ synced_ops' = Len(ops)
    /\ UNCHANGED <<up, db, rdb, children, pending_output, ops, crashes>>

(* rdb_save_file_at, step by step.  All its callers of one server use the  *)
(* same temporary file: SAVE does not ask whether a BGSAVE child runs.     *)
(* Unlink: the file loses its name, those who have it open keep it.        *)
Unlink(w, next) ==
    /\ tmp_file' = NoFile
    /\ savers' = [v \in Saver |->
                     IF v = w THEN next
                     ELSE IF savers[v].fd = "tmp" THEN [savers[v] EXCEPT !.fd = "gone"]
                     ELSE savers[v]]

(* SAVE begins, in the event loop: the old temporary file is unlinked. *)
Save ==
    /\ Running
    /\ SaveAllowed
    /\ Unlink("server", Unlinked)
    /\ overlap' = BgsaveAlive
    /\ UNCHANGED <<up, db, aof_buf, aof_file, aof_synced, rdb_file, rdb_overlap, children,
                   pending_output, history>>

(* O_CREAT | O_TRUNC: a new file, unless the other one has made it since.  *)
SaverOpens(w) ==
    /\ savers[w].step = "unlinked"
    /\ tmp_file' = NewFile
    /\ savers' = [savers EXCEPT ![w] = [step |-> "writing", fd |-> "tmp", done |-> 0]]
    /\ UNCHANGED <<up, db, aof_buf, aof_file, aof_synced, rdb_file, overlap, rdb_overlap,
                   children, pending_output, history>>

(* The next block of the keyspace, as this process sees it, goes to the    *)
(* file it has open.                                                       *)
Snapshot(w) == IF w = "server" THEN db ELSE bgsave.snap

SaverWrites(w) ==
    LET b == savers[w].done + 1
        Written(f) == [f EXCEPT ![b] = {Snapshot(w)}]
    IN  /\ savers[w].step = "writing"
        /\ b <= Blocks
        /\ tmp_file' = IF savers[w].fd = "tmp" THEN Written(tmp_file) ELSE tmp_file
        /\ rdb_file' = IF savers[w].fd = "rdb" THEN Written(rdb_file) ELSE rdb_file
        /\ savers' = [savers EXCEPT ![w].done = b]
        /\ UNCHANGED <<up, db, aof_buf, aof_file, aof_synced, overlap, rdb_overlap, children,
                       pending_output, history>>

(* SAVE answers, or the child exits. *)
Exit(w, phase) ==
    bgsave' = IF w = "child" THEN [bgsave EXCEPT !.phase = phase] ELSE bgsave

(* Whatever has the temporary name becomes the RDB file. *)
Rename(w) ==
    /\ tmp_file # NoFile
    /\ rdb_file' = tmp_file
    /\ tmp_file' = NoFile
    /\ savers' = [v \in Saver |->
                     IF v = w THEN Idle
                     ELSE CASE savers[v].fd = "tmp" -> [savers[v] EXCEPT !.fd = "rdb"]
                            [] savers[v].fd = "rdb" -> [savers[v] EXCEPT !.fd = "gone"]
                            [] OTHER -> savers[v]]
    /\ rdb_overlap' = overlap
    /\ Exit(w, "ok")
    /\ UNCHANGED <<up, db, aof_buf, aof_file, aof_synced, overlap, bgsave_requested,
                   rewrite_requested, rewrite, rewrite_buf, pending_output, history>>

(* Mutation: a short write goes unnoticed. *)
SaverRenamesShort(w) == savers[w].step = "writing" /\ Rename(w)

SaverRenames(w) ==
    /\ savers[w].step = "writing"
    /\ savers[w].done = Blocks
    /\ Rename(w)

(* The open fails; or a write or the rename does (it must, if another has  *)
(* taken the temporary file), and then the temporary file is unlinked.     *)
SaverCannotOpen(w) ==
    /\ savers[w].step = "unlinked"
    /\ savers' = [savers EXCEPT ![w] = Idle]
    /\ Exit(w, "failed")
    /\ UNCHANGED <<up, db, aof_buf, aof_file, aof_synced, rdb_file, tmp_file, overlap,
                   rdb_overlap, bgsave_requested, rewrite_requested, rewrite, rewrite_buf,
                   pending_output, history>>

SaverErrs(w) ==
    /\ savers[w].step = "writing"
    /\ savers' = [savers EXCEPT ![w] = [Idle EXCEPT !.step = "failed"]]
    /\ UNCHANGED <<up, db, aof_buf, aof_file, aof_synced, rdb_file, tmp_file, overlap,
                   rdb_overlap, children, pending_output, history>>

SaverCleansUp(w) ==
    /\ savers[w].step = "failed"
    /\ Unlink(w, Idle)
    /\ Exit(w, "failed")
    /\ UNCHANGED <<up, db, aof_buf, aof_file, aof_synced, rdb_file, overlap, rdb_overlap,
                   bgsave_requested, rewrite_requested, rewrite, rewrite_buf, pending_output,
                   history>>

SaverStep(w) ==
    \/ SaverOpens(w)
    \/ SaverWrites(w)
    \/ SaverRenames(w)
    \/ SaverCannotOpen(w)
    \/ SaverErrs(w)
    \/ SaverCleansUp(w)

(* BGSAVE and BGREWRITEAOF only raise flags.  Both test the four flags of  *)
(* the runtime info, which is taken once for a whole batch.                *)
Request(S) ==
    /\ Running
    /\ ~bgsave_requested /\ ~BgsaveInProgress
    /\ ~rewrite_requested /\ ~RewriteInProgress
    /\ Len(aof_file) <= MaxFile
    /\ bgsave_requested' = ("bgsave" \in S)
    /\ rewrite_requested' = ("bgrewriteaof" \in S)
    /\ UNCHANGED <<up, db, aof_buf, disk, bgsave, rewrite, rewrite_buf, pending_output, history>>

(* A client stops reading its reply, and reads it. *)
ClientStalls ==
    /\ Running
    /\ ~pending_output
    /\ pending_output' = TRUE
    /\ UNCHANGED <<up, db, aof_buf, disk, children, history>>

ClientReads ==
    /\ Running
    /\ pending_output
    /\ pending_output' = FALSE
    /\ UNCHANGED <<up, db, aof_buf, disk, children, history>>

-----------------------------------------------------------------------------
(* Mutations: a BGSAVE that waits, as a rewrite does, until every client    *)
(* has read its reply; a rewrite that forks without flushing; a swap that  *)
(* keeps the old file's synced length; a failed child that is never        *)
(* forgotten.                                                              *)
StartBgsaveWaitsForOutput ==
    /\ Running
    /\ bgsave_requested
    /\ ~BgsaveInProgress
    /\ ~rewrite_requested /\ ~RewriteInProgress
    /\ ~pending_output
    /\ bgsave_requested' = FALSE
    /\ bgsave' = Forked(db, aof_buf)
    /\ overlap' = FALSE
    /\ UNCHANGED <<up, db, aof_buf, aof_file, aof_synced, rdb_file, tmp_file, savers,
                   rdb_overlap, rewrite_requested, rewrite, rewrite_buf, pending_output,
                   history>>

StartRewriteUnflushed ==
    /\ Running
    /\ ~bgsave_requested /\ ~BgsaveInProgress
    /\ rewrite_requested
    /\ ~RewriteInProgress
    /\ ~pending_output
    /\ rewrite' = Forked(db, aof_buf)
    /\ rewrite_buf' = <<>>
    /\ rewrite_requested' = FALSE
    /\ UNCHANGED <<up, db, aof_buf, disk, bgsave_requested, bgsave, pending_output, history>>

ReapRewriteKeepsSynced ==
    /\ Running
    /\ ~bgsave_requested /\ ~BgsaveInProgress
    /\ rewrite.phase = "ok"
    /\ aof_file' = <<[op |-> "rebuild", snap |-> rewrite.snap]>> \o rewrite_buf
    /\ aof_buf' = <<>>
    /\ flushed' = Len(ops)
    /\ rewrite' = NoChild
    /\ rewrite_buf' = <<>>
    /\ rewrite_requested' = FALSE
    /\ UNCHANGED <<up, db, aof_synced, rdb, bgsave_requested, bgsave, pending_output,
                   ops, synced_ops, crashes>>

ReapFailedRewriteForgetsReset ==
    /\ Running
    /\ ~bgsave_requested /\ ~BgsaveInProgress
    /\ rewrite.phase = "failed"
    /\ rewrite_requested' = FALSE
    /\ rewrite_buf' = <<>>
    /\ UNCHANGED <<up, db, aof_buf, disk, bgsave_requested, bgsave, rewrite, pending_output,
                   history>>

(* server_run_pending_bgsave_at: reap the child, then fork a requested one.*)
(* The AOF buffer is not flushed first: the child inherits what is in it.  *)
ReapBgsave ==
    /\ Running
    /\ bgsave.phase \in {"ok", "failed"}
    /\ bgsave' = NoChild
    /\ bgsave_requested' = FALSE
    /\ UNCHANGED <<up, db, aof_buf, disk, rewrite_requested, rewrite, rewrite_buf,
                   pending_output, history>>

StartBgsave ==
    /\ Running
    /\ bgsave_requested
    /\ ~BgsaveInProgress
    /\ ~rewrite_requested /\ ~RewriteInProgress
    /\ bgsave_requested' = FALSE
    /\ \/ bgsave' = Forked(db, aof_buf) /\ overlap' = FALSE
       \/ UNCHANGED <<bgsave, overlap>>       \* fork failed: the request is dropped
    /\ UNCHANGED <<up, db, aof_buf, aof_file, aof_synced, rdb_file, tmp_file, savers,
                   rdb_overlap, rewrite_requested, rewrite, rewrite_buf, pending_output,
                   history>>

(* server_run_pending_aof_rewrite_at.  With the rewrite waiting, a BGSAVE  *)
(* must be neither requested nor running.  fork may fail: the request      *)
(* stays.                                                                  *)
StartRewrite ==
    /\ Running
    /\ ~bgsave_requested /\ ~BgsaveInProgress
    /\ rewrite_requested
    /\ ~RewriteInProgress
    /\ ~pending_output
    /\ FlushAof
    /\ rewrite' = Forked(db, aof_buf')
    /\ rewrite_buf' = <<>>
    /\ rewrite_requested' = FALSE
    /\ UNCHANGED <<up, db, aof_synced, rdb, bgsave_requested, bgsave, pending_output,
                   ops, synced_ops, crashes>>

(* The rewrite child is done: its file, which it fsynced, and then the     *)
(* rewrite buffer replace the AOF; the old buffer goes to the old file.    *)
ReapRewrite ==
    /\ Running
    /\ ~bgsave_requested /\ ~BgsaveInProgress
    /\ rewrite.phase = "ok"
    /\ aof_file' = <<[op |-> "rebuild", snap |-> rewrite.snap]>> \o rewrite_buf
    /\ aof_synced' = 1
    /\ aof_buf' = <<>>
    /\ flushed' = Len(ops)
    /\ rewrite' = NoChild
    /\ rewrite_buf' = <<>>
    /\ rewrite_requested' = FALSE
    /\ UNCHANGED <<up, db, rdb, bgsave_requested, bgsave, pending_output,
                   ops, synced_ops, crashes>>

(* A failed rewrite is forgotten: the old AOF has everything. *)
ReapFailedRewrite ==
    /\ Running
    /\ ~bgsave_requested /\ ~BgsaveInProgress
    /\ rewrite.phase = "failed"
    /\ rewrite' = NoChild
    /\ rewrite_buf' = <<>>
    /\ rewrite_requested' = FALSE
    /\ UNCHANGED <<up, db, aof_buf, disk, bgsave_requested, bgsave, pending_output, history>>

(* The children.  Each first closes what it inherited, and closing the AOF *)
(* writer flushes the copy of the buffer it was forked with; the file is   *)
(* open with O_APPEND.                                                     *)
BgsaveClosesFds ==
    /\ bgsave.phase = "forked"
    /\ aof_file' = aof_file \o bgsave.buf
    /\ bgsave' = [bgsave EXCEPT !.phase = "saving", !.buf = <<>>]
    /\ UNCHANGED <<up, db, aof_buf, aof_synced, rdb, bgsave_requested,
                   rewrite_requested, rewrite, rewrite_buf, pending_output, history>>

(* The child calls rdb_save_file_at and exits with what it returns. *)
BgsaveSaves ==
    /\ bgsave.phase = "saving"
    /\ savers["child"].step = "idle"
    /\ Unlink("child", Unlinked)
    /\ UNCHANGED <<up, db, aof_buf, aof_file, aof_synced, rdb_file, overlap, rdb_overlap,
                   children, pending_output, history>>

RewriteClosesFds ==
    /\ rewrite.phase = "forked"
    /\ aof_file' = aof_file \o rewrite.buf
    /\ rewrite' = [rewrite EXCEPT !.phase = "saving", !.buf = <<>>]
    /\ UNCHANGED <<up, db, aof_buf, aof_synced, rdb, bgsave_requested, bgsave,
                   rewrite_requested, rewrite_buf, pending_output, history>>

RewriteSaves ==
    /\ rewrite.phase = "saving"
    /\ rewrite' = [rewrite EXCEPT !.phase = "ok"]
    /\ UNCHANGED <<up, db, aof_buf, disk, bgsave_requested, bgsave,
                   rewrite_requested, rewrite_buf, pending_output, history>>

(* A signal ends the BGSAVE child, which leaves its temporary file behind; *)
(* a signal or a write error ends the rewrite child.                       *)
BgsaveDies ==
    /\ BgsaveAlive
    /\ bgsave' = [bgsave EXCEPT !.phase = "failed", !.buf = <<>>]
    /\ savers' = [savers EXCEPT !["child"] = Idle]
    /\ UNCHANGED <<up, db, aof_buf, aof_file, aof_synced, rdb_file, tmp_file, overlap,
                   rdb_overlap, bgsave_requested, rewrite_requested, rewrite, rewrite_buf,
                   pending_output, history>>

RewriteDies ==
    /\ rewrite.phase \in {"forked", "saving"}
    /\ rewrite' = [rewrite EXCEPT !.phase = "failed", !.buf = <<>>]
    /\ UNCHANGED <<up, db, aof_buf, disk, bgsave_requested, bgsave, rewrite_requested,
                   rewrite_buf, pending_output, history>>

-----------------------------------------------------------------------------
(* The process is gone, and its children with it. *)
ProcessGone ==
    /\ crashes < MaxCrashes
    /\ crashes' = crashes + 1
    /\ up' = FALSE
    /\ db' = Empty
    /\ aof_buf' = <<>>
    /\ bgsave_requested' = FALSE
    /\ bgsave' = NoChild
    /\ rewrite_requested' = FALSE
    /\ rewrite' = NoChild
    /\ rewrite_buf' = <<>>
    /\ pending_output' = FALSE
    /\ savers' = [w \in Saver |-> Idle]
    /\ UNCHANGED <<rdb_file, tmp_file, overlap, rdb_overlap>>

(* Killed: the AOF buffer is lost, what the kernel has stays. *)
Crash ==
    /\ up
    /\ ProcessGone
    /\ ops' = SubSeq(ops, 1, flushed)
    /\ synced_ops' = IF synced_ops > flushed THEN flushed ELSE synced_ops
    /\ UNCHANGED <<aof_file, aof_synced, flushed>>

(* server_close: closing the clients flushes, a running BGSAVE is waited   *)
(* for, the result of a running rewrite is dropped.                        *)
Shutdown ==
    /\ Running
    /\ bgsave.phase \in {"none", "ok", "failed"}
    /\ rewrite.phase \in {"none", "ok", "failed"}
    /\ aof_file' = aof_file \o aof_buf
    /\ flushed' = Len(ops)
    /\ ProcessGone
    /\ UNCHANGED <<aof_synced, ops, synced_ops>>

(* server_load_persistence_at *)
Restart ==
    /\ ~up
    /\ up' = TRUE
    /\ \E d \in Loads(rdb_file) : db' = Replay(d, aof_file)
    /\ UNCHANGED <<aof_buf, disk, children, pending_output, history>>

Batch == {S \in SUBSET Requests : S # {} /\ Cardinality(S) <= MaxBatch}

Next ==
    \/ \E c \in Write : Execute(c)
    \/ Flush
    \/ WaitAof
    \/ Save
    \/ \E w \in Saver : SaverStep(w)
    \/ \E S \in Batch : Request(S)
    \/ ClientStalls
    \/ ClientReads
    \/ ReapBgsave
    \/ StartBgsave
    \/ StartRewrite
    \/ ReapRewrite
    \/ ReapFailedRewrite
    \/ BgsaveClosesFds
    \/ BgsaveSaves
    \/ RewriteClosesFds
    \/ RewriteSaves
    \/ BgsaveDies
    \/ RewriteDies
    \/ Crash
    \/ Shutdown
    \/ Restart

Spec == Init /\ [][Next]_vars

(* The event loop runs the background tasks in every iteration, between    *)
(* the commands: one that can run again and again between SAVEs is run     *)
(* (strong fairness).  A child that runs ends, and so does a SAVE.  No     *)
(* fairness is assumed of clients, except that RewriteCompletes looks only *)
(* at behaviours where they read their replies.                            *)
BgsaveChildEnds == BgsaveClosesFds \/ BgsaveSaves \/ SaverStep("child") \/ BgsaveDies
RewriteChildEnds == RewriteClosesFds \/ RewriteSaves \/ RewriteDies

FairSpec ==
    /\ Spec
    /\ SF_vars(ReapBgsave)
    /\ SF_vars(StartBgsave)
    /\ SF_vars(StartRewrite)
    /\ SF_vars(ReapRewrite)
    /\ SF_vars(ReapFailedRewrite)
    /\ WF_vars(SaverStep("server"))
    /\ WF_vars(BgsaveChildEnds)
    /\ WF_vars(RewriteChildEnds)

-----------------------------------------------------------------------------
(* The types of the server's persistence fields and of the files; no more  *)
(* is counted as synced, or as written out, than there is.                 *)
SaverType == [step : {"idle", "unlinked", "writing", "failed"},
              fd : {"none", "tmp", "rdb", "gone"}, done : 0..Blocks]
ChildType == [phase : Phase, snap : DB, buf : Seq(Cmd)]
TypeOK ==
    /\ up \in BOOLEAN
    /\ db \in DB
    /\ aof_buf \in Seq(Cmd)
    /\ aof_file \in Seq(Cmd)
    /\ aof_synced \in 0..Len(aof_file)
    /\ rdb_file \in File
    /\ tmp_file \in File \cup {NoFile}
    /\ savers \in [Saver -> SaverType]
    /\ \A w \in Saver : savers[w].fd = "tmp" => tmp_file # NoFile
    /\ overlap \in BOOLEAN
    /\ rdb_overlap \in BOOLEAN
    /\ bgsave_requested \in BOOLEAN
    /\ bgsave \in ChildType
    /\ rewrite_requested \in BOOLEAN
    /\ rewrite \in ChildType
    /\ rewrite_buf \in Seq(Cmd)
    /\ pending_output \in BOOLEAN
    /\ ops \in Seq(Write)
    /\ flushed \in 0..Len(ops)
    /\ synced_ops \in 0..Len(ops)
    /\ crashes \in Nat

(* What the keyspace is after the first n commands of the history. *)
StateAfter(n) == Replay(Empty, SubSeq(ops, 1, n))

(* The AOF replayed from nothing gives a state the server was in, no older *)
(* than the last time the log was written out: through flushes, rewrites   *)
(* that succeed, fail or are cut short, crashes and restarts, it holds no  *)
(* write twice and misses none in the middle.                              *)
AofHoldsHistory ==
    \E n \in flushed..Len(ops) : Replay(Empty, aof_file) = StateAfter(n)

(* The same of what a restart really does, which is to load the RDB file   *)
(* and replay the AOF over it.                                             *)
RestartRestores == \E n \in flushed..Len(ops) : Recovered = StateAfter(n)

(* Buffers, files, children and restarts together implement the durable    *)
(* store: every command, flush, rewrite, crash and restart is one step of  *)
(* it or none, with the state a restart would load as the durable state.   *)
Store == INSTANCE DurableStore WITH
             Fresh <- Empty,
             mem <- IF up THEN db ELSE Recovered,
             durable <- Recovered,
             live <- up
ImplementsDurableStore == Store!Spec

(* The RDB file is one whole dump at every moment, through saves that fail *)
(* or are killed on the way, crashes and the temporary files they leave,   *)
(* and it is the keyspace as it was at one moment (which after a crash may *)
(* be one that the log has lost).  This is so of every file put in place   *)
(* by a SAVE that met no BGSAVE child, or by a child that met no SAVE;     *)
(* where they met it is not: see RdbIsWhole.                               *)
RdbIsSnapshot ==
    rdb_overlap \/ \E d \in rdb_file[1] :
                      /\ rdb_file = Dump(d)
                      /\ crashes = 0 => \E n \in 0..Len(ops) : d = StateAfter(n)

(* The RDB file is one whole dump, whoever writes it.  The code does not   *)
(* have this property.                                                     *)
RdbIsWhole == \E d \in rdb_file[1] : rdb_file = Dump(d)

(* One child at a time: while a BGSAVE child runs or waits to be reaped    *)
(* there is no rewrite child, so that the AOF a BGSAVE child inherited is  *)
(* still the AOF when it closes it.                                        *)
OneChildAtATime == bgsave.phase = "none" \/ rewrite.phase = "none"

(* After a power failure the AOF is any prefix that holds what was synced. *)
(* Every write a WAITAOF reported as durable is in all of them.            *)
ConfirmedWritesSurvive ==
    \A n \in aof_synced..Len(aof_file) :
        \E m \in synced_ops..Len(ops) :
            Replay(Empty, SubSeq(aof_file, 1, n)) = StateAfter(m)

(* A BGSAVE that was answered "scheduled" runs and ends. *)
BgsaveCompletes == bgsave_requested ~> ~(bgsave_requested \/ BgsaveInProgress)

(* So does a BGREWRITEAOF, unless clients keep the server from sending.    *)
RewriteCompletes ==
    <>[]~pending_output =>
        (rewrite_requested ~> ~(rewrite_requested \/ RewriteInProgress))
=============================================================================
