--------------------------- MODULE CommandStream ---------------------------
(***************************************************************************)
(* What the replication backlog promises to its readers, with no buffer in *)
(* sight.  A master owns one stream of propagated bytes, named by a        *)
(* replication id; a reader that has consumed the first `o' bytes of that  *)
(* stream may be sent the rest of it as long as `o' is not below `low'.    *)
(* The stream is kept whole here: forgetting is only the advance of `low'. *)
(* Module Backlog implements this with a bounded SDS buffer.               *)
(***************************************************************************)
EXTENDS Integers, Sequences

CONSTANTS
    Replid,       \* replication ids
    SizeLimit,    \* most recent bytes a reader may still ask for
    Chunk         \* byte strings one propagated command may append

VARIABLES
    stream,       \* every byte appended since the stream was opened
    low,          \* lowest offset still served
    replid,       \* id of the stream
    live          \* TRUE while the server is a master with a backlog

svars == <<stream, low, replid, live>>

(* The bytes a reader positioned at offset o is sent. *)
Rest(o) == SubSeq(stream, o + 1, Len(stream))

Larger(a, b) == IF a >= b THEN a ELSE b

Init ==
    /\ stream = <<>>
    /\ low = 0
    /\ replid \in Replid
    /\ live = TRUE

Propagate(chunk) ==
    /\ live = TRUE
    /\ stream' = stream \o chunk
    /\ low' = Larger(low, Len(stream') - SizeLimit)
    /\ UNCHANGED <<replid, live>>

(* A new stream: nothing of the old one can be asked for any more. *)
Open(id) ==
    /\ stream' = <<>>
    /\ low' = 0
    /\ replid' = id
    /\ live' = TRUE

Close ==
    /\ stream' = <<>>
    /\ low' = 0
    /\ live' = FALSE
    /\ UNCHANGED replid

Next ==
    \/ \E chunk \in Chunk : Propagate(chunk)
    \/ \E id \in Replid : Open(id)
    \/ Close

Spec == Init /\ [][Next]_svars
=============================================================================
