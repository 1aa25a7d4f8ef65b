------------------------------ MODULE Backlog ------------------------------
(***************************************************************************)
(* The master's replication backlog (src/replication/backlog.uya): an SDS  *)
(* buffer `history' whose first `history_start' bytes are already          *)
(* forgotten, and the offset `master_offset' of its last byte.  Trimming   *)
(* only advances history_start; the dead prefix is moved out of the buffer *)
(* when it reaches a threshold.  The offset of the first byte still held   *)
(* is never stored: it is computed from the three, which is what makes the *)
(* order of the updates matter.                                            *)
(*                                                                         *)
(* `stream' is a history variable: the bytes appended since the backlog    *)
(* was last opened.  No action reads it to decide what to do.              *)
(***************************************************************************)
EXTENDS Integers, Sequences

CONSTANTS
    Byte,         \* values of a byte
    Replid,       \* replication ids
    OpenId,       \* id built at start-up from now_ms + port
    ResetId,      \* id built by a reset from start_ms + port
    SizeLimit,    \* SERVER_REPL_BACKLOG_BYTES
    CompactMin,   \* REPLICATION_BACKLOG_COMPACT_MIN_BYTES
    MaxChunk,     \* bound: bytes one command propagates
    MaxOffset     \* bound: bytes appended to one stream

ASSUME BacklogAssumption ==
    /\ OpenId \in Replid
    /\ ResetId \in Replid
    /\ SizeLimit \in Nat \ {0}
    /\ CompactMin \in Nat
    /\ MaxChunk \in Nat
    /\ MaxOffset \in Nat

VARIABLES
    history,        \* the buffer, dead prefix included
    history_start,  \* bytes of the dead prefix
    master_offset,  \* offset of the end of the buffer
    replid,         \* id of the stream
    active,         \* FALSE on a replica
    stream          \* history variable

vars == <<history, history_start, master_offset, replid, active, stream>>

(* What one command may append: nothing (a GETEX that changes no TTL), or  *)
(* the bytes of its normalised form.                                       *)
Chunk == UNION {[1..n -> Byte] : n \in 0..MaxChunk}

LogicalLen ==
    IF history_start >= Len(history) THEN 0 ELSE Len(history) - history_start

FirstOffset == IF active THEN master_offset - LogicalLen ELSE 0

CanContinue(id, offset) ==
    /\ active
    /\ id = replid
    /\ FirstOffset <= offset
    /\ offset <= master_offset

(* Mutation: the dead prefix is not skipped. *)
SliceFromPhysical(offset) ==
    IF active /\ FirstOffset <= offset /\ offset <= master_offset
    THEN SubSeq(history, (offset - FirstOffset) + 1, Len(history))
    ELSE <<>>

(* The bytes sent to a replica at `offset'; empty outside the window. *)
SliceFrom(offset) ==
    IF active /\ FirstOffset <= offset /\ offset <= master_offset
    THEN SubSeq(history, history_start + (offset - FirstOffset) + 1, Len(history))
    ELSE <<>>

CompactThreshold == IF SizeLimit < CompactMin THEN CompactMin ELSE SizeLimit

(* Mutations: no early return while the window fits; a buffer that is never*)
(* compacted; one trimmed by compaction alone.                             *)
TrimmedEagerly(h, s) ==
    IF Len(h) - SizeLimit < CompactThreshold
    THEN [buf |-> h, start |-> Len(h) - SizeLimit]
    ELSE [buf |-> SubSeq(h, Len(h) - SizeLimit + 1, Len(h)), start |-> 0]

TrimmedNeverCompacts(h, s) ==
    IF Len(h) - s <= SizeLimit
    THEN [buf |-> h, start |-> s]
    ELSE [buf |-> h, start |-> Len(h) - SizeLimit]

TrimmedForgetsStart(h, s) ==
    IF Len(h) - s <= SizeLimit
    THEN [buf |-> h, start |-> s]
    ELSE IF Len(h) - SizeLimit < CompactThreshold
         THEN [buf |-> h, start |-> Len(h) - SizeLimit]
         ELSE [buf |-> SubSeq(h, Len(h) - SizeLimit + 1, Len(h)),
               start |-> Len(h) - SizeLimit]

(* Trim h, whose first s bytes are dead, to the size limit: the new buffer *)
(* and its new dead prefix.                                                *)
Trimmed(h, s) ==
    IF Len(h) - s <= SizeLimit
    THEN [buf |-> h, start |-> s]
    ELSE IF Len(h) - SizeLimit < CompactThreshold
         THEN [buf |-> h, start |-> Len(h) - SizeLimit]
         ELSE [buf |-> SubSeq(h, Len(h) - SizeLimit + 1, Len(h)), start |-> 0]

Init ==
    /\ history = <<>>
    /\ history_start = 0
    /\ master_offset = 0
    /\ replid = OpenId
    /\ active = TRUE
    /\ stream = <<>>

(* One propagated command.  On a replica the call returns at once and the  *)
(* step is a stutter, so it is not listed.                                 *)
AppendCommand(chunk) ==
    /\ active
    /\ Len(stream) + Len(chunk) <= MaxOffset
    /\ LET t == Trimmed(history \o chunk, history_start)
       IN /\ history' = t.buf
          /\ history_start' = t.start
    /\ master_offset' = master_offset + Len(chunk)
    /\ stream' = stream \o chunk
    /\ UNCHANGED <<replid, active>>

(* REPLICAOF NO ONE: free, then open again with the seed start_ms + port.  *)
Reset ==
    /\ history' = <<>>
    /\ history_start' = 0
    /\ master_offset' = 0
    /\ replid' = ResetId
    /\ active' = TRUE
    /\ stream' = <<>>

(* REPLICAOF host port: the backlog is freed; can_continue is false from   *)
(* here on whatever the id, which is kept in the model.                    *)
Disable ==
    /\ history' = <<>>
    /\ history_start' = 0
    /\ master_offset' = 0
    /\ active' = FALSE
    /\ stream' = <<>>
    /\ UNCHANGED replid

Next ==
    \/ \E chunk \in Chunk : AppendCommand(chunk)
    \/ Reset
    \/ Disable

Spec == Init /\ [][Next]_vars

-----------------------------------------------------------------------------
(* The types of the fields of ReplicationBacklog and of the history variable. *)
TypeOK ==
    /\ history \in Seq(Byte)
    /\ history_start \in Nat
    /\ master_offset \in Nat
    /\ replid \in Replid
    /\ active \in BOOLEAN
    /\ stream \in Seq(Byte)

(* Whatever was trimmed or compacted, a replica that PSYNC lets continue   *)
(* from an offset is sent exactly the bytes of the stream after it: none   *)
(* missing, none twice, none from elsewhere (replication_backlog_slice_from*)
(* under the test of replication_backlog_can_continue).                    *)
SliceIsRestOfStream ==
    \A id \in Replid, o \in 0..master_offset :
        CanContinue(id, o) => SliceFrom(o) = SubSeq(stream, o + 1, Len(stream))

(* The window never exceeds the size limit, and the buffer is bounded      *)
(* although compaction is lazy: dead prefix and window together stay below *)
(* the limit and the threshold, 16384 + 65536 bytes in the program         *)
(* (replication_backlog_trim).                                             *)
MemoryBounded ==
    /\ LogicalLen <= SizeLimit
    /\ Len(history) < SizeLimit + CompactThreshold

(* The lazily trimmed buffer implements the unbounded stream with a window *)
(* of exactly the last SizeLimit bytes: every operation of the backlog is  *)
(* one operation of the stream, and the lowest offset served moves only as *)
(* far as the limit requires.                                              *)
Stream == INSTANCE CommandStream WITH low <- FirstOffset, live <- active
ImplementsStream == Stream!Spec
=============================================================================
