--------------------------- MODULE Backlog_proofs ---------------------------
(***************************************************************************)
(* The theorems about module Backlog, for every size limit, compaction     *)
(* threshold and alphabet.  The invariant relates the live part of the     *)
(* buffer to the end of the stream byte by byte; SliceIsRestOfStream alone *)
(* is not inductive, because it says nothing of a buffer whose window is   *)
(* empty or whose dead prefix is longer than the buffer.                   *)
(***************************************************************************)
EXTENDS Backlog, SequenceTheorems, TLAPS

(* The live part of the buffer is the end of the stream, which is as long  *)
(* as master_offset says, and both parts of the buffer are bounded.        *)
IInv ==
    /\ TypeOK
    /\ Len(stream) = master_offset
    /\ history_start <= Len(history)
    /\ history_start < CompactThreshold
    /\ Len(history) - history_start <= SizeLimit
    /\ Len(history) - history_start <= master_offset
    /\ \A i \in 1..(Len(history) - history_start) :
           history[history_start + i]
             = stream[master_offset - (Len(history) - history_start) + i]

-----------------------------------------------------------------------------
(* What one command appends is a sequence of bytes. *)
LEMMA ChunkIsSeq == \A chunk \in Chunk : chunk \in Seq(Byte)
  BY DEF Chunk

(* The constants' arithmetic. *)
LEMMA ConstantsType ==
    /\ SizeLimit \in Nat /\ SizeLimit > 0
    /\ CompactThreshold \in Nat /\ CompactThreshold >= SizeLimit
  BY BacklogAssumption DEF CompactThreshold

(* Trimming keeps the last SizeLimit live bytes, or all of them, drops no  *)
(* byte it has room for, and leaves a dead prefix below the threshold.     *)
LEMMA TrimmedKeepsTail ==
    ASSUME NEW h \in Seq(Byte), NEW s \in Nat, s <= Len(h), s < CompactThreshold
    PROVE  LET t == Trimmed(h, s)
               kept == Len(t.buf) - t.start
           IN /\ t.buf \in Seq(Byte)
              /\ t.start \in Nat
              /\ t.start <= Len(t.buf)
              /\ t.start < CompactThreshold
              /\ kept = IF Len(h) - s <= SizeLimit THEN Len(h) - s ELSE SizeLimit
              /\ \A i \in 1..kept : t.buf[t.start + i] = h[Len(h) - kept + i]
<1>1. CASE Len(h) - s <= SizeLimit
  BY <1>1, ConstantsType DEF Trimmed
<1>2. CASE Len(h) - s > SizeLimit /\ Len(h) - SizeLimit < CompactThreshold
  BY <1>2, ConstantsType DEF Trimmed
<1>3. CASE Len(h) - s > SizeLimit /\ ~(Len(h) - SizeLimit < CompactThreshold)
  <2> DEFINE tail == SubSeq(h, Len(h) - SizeLimit + 1, Len(h))
  <2>1. Trimmed(h, s) = [buf |-> tail, start |-> 0]
    BY <1>3, ConstantsType DEF Trimmed
  <2>2. /\ tail \in Seq(Byte)
        /\ Len(tail) = SizeLimit
        /\ \A i \in 1..SizeLimit : tail[i] = h[Len(h) - SizeLimit + i]
    BY <1>3, ConstantsType
  <2> HIDE DEF tail
  <2>3. Trimmed(h, s).buf = tail /\ Trimmed(h, s).start = 0
    BY <2>1
  <2> QED
    BY <1>3, <2>2, <2>3, ConstantsType
<1> QED
  BY <1>1, <1>2, <1>3, ConstantsType

(* Two suffixes of the same length with the same bytes are equal. *)
LEMMA SuffixesEqual ==
    ASSUME NEW a \in Seq(Byte), NEW b \in Seq(Byte),
           NEW m \in Nat \ {0}, NEW n \in Nat \ {0},
           Len(a) - m = Len(b) - n, m <= Len(a) + 1,
           \A i \in 1..(Len(b) - n + 1) : a[m - 1 + i] = b[n - 1 + i]
    PROVE  SubSeq(a, m, Len(a)) = SubSeq(b, n, Len(b))
<1> DEFINE x == SubSeq(a, m, Len(a))
           y == SubSeq(b, n, Len(b))
<1>1. /\ x \in Seq(Byte) /\ Len(x) = Len(b) - n + 1
      /\ \A i \in 1..Len(x) : x[i] = a[m - 1 + i]
  OBVIOUS
<1>2. /\ y \in Seq(Byte) /\ Len(y) = Len(b) - n + 1
      /\ \A i \in 1..Len(y) : y[i] = b[n - 1 + i]
  OBVIOUS
<1>3. \A i \in 1..Len(x) : x[i] = y[i]
  BY <1>1, <1>2
<1> HIDE DEF x, y
<1>4. x = y
  BY <1>1, <1>2, <1>3, SeqEqual
<1> QED
  BY <1>4 DEF x, y

(* The number of live bytes, as logical_len computes it. *)
LEMMA LogicalLenIs ==
    IInv => LogicalLen = Len(history) - history_start
  BY DEF IInv, TypeOK, LogicalLen

(* A fresh backlog, at start-up or after a reset. *)
LEMMA InitIInv == Init => IInv
  BY BacklogAssumption, ConstantsType DEF Init, IInv, TypeOK

(* Appending a command and trimming keeps the buffer the stream's end. *)
LEMMA AppendIInv ==
    ASSUME IInv, NEW chunk \in Chunk, AppendCommand(chunk)
    PROVE  IInv'
<1> DEFINE h == history \o chunk
           t == Trimmed(h, history_start)
           kept == Len(t.buf) - t.start
<1>1. /\ chunk \in Seq(Byte) /\ history \in Seq(Byte) /\ stream \in Seq(Byte)
      /\ history_start \in Nat /\ master_offset \in Nat
  BY ChunkIsSeq DEF IInv, TypeOK
<1>2. /\ h \in Seq(Byte)
      /\ Len(h) = Len(history) + Len(chunk)
      /\ \A i \in 1..Len(h) : h[i] = IF i <= Len(history) THEN history[i]
                                       ELSE chunk[i - Len(history)]
  BY <1>1
<1>3. /\ stream' = stream \o chunk
      /\ stream' \in Seq(Byte)
      /\ Len(stream') = master_offset + Len(chunk)
      /\ \A i \in 1..Len(stream') :
             stream'[i] = IF i <= master_offset THEN stream[i]
                          ELSE chunk[i - master_offset]
  BY <1>1 DEF IInv, AppendCommand
<1>4. /\ history' = t.buf /\ history_start' = t.start
      /\ master_offset' = master_offset + Len(chunk)
      /\ replid' = replid /\ active' = active
  BY DEF AppendCommand
<1>5. history_start <= Len(h) /\ history_start < CompactThreshold
  BY <1>1, <1>2 DEF IInv
<1>6. /\ t.buf \in Seq(Byte)
      /\ t.start \in Nat
      /\ t.start <= Len(t.buf)
      /\ t.start < CompactThreshold
      /\ kept = IF Len(h) - history_start <= SizeLimit
                THEN Len(h) - history_start ELSE SizeLimit
      /\ \A i \in 1..kept : t.buf[t.start + i] = h[Len(h) - kept + i]
  BY <1>1, <1>2, <1>5, TrimmedKeepsTail
(* The live bytes of the untrimmed buffer already are the stream's end. *)
<1>7. \A j \in (history_start + 1)..Len(h) :
         h[j] = stream'[Len(stream') - Len(h) + j]
  <2> SUFFICES ASSUME NEW j \in (history_start + 1)..Len(h)
               PROVE  h[j] = stream'[Len(stream') - Len(h) + j]
    OBVIOUS
  <2>1. CASE j <= Len(history)
    <3>1. j - history_start \in 1..(Len(history) - history_start)
      BY <1>1, <2>1
    <3>2. history[history_start + (j - history_start)]
            = stream[master_offset - (Len(history) - history_start)
                                   + (j - history_start)]
      BY <3>1 DEF IInv
    <3>4. /\ history_start + (j - history_start) = j
          /\ master_offset - (Len(history) - history_start) + (j - history_start)
               = Len(stream') - Len(h) + j
      BY <1>1, <1>2, <1>3
    <3>3. Len(history) - history_start <= master_offset
      BY DEF IInv
    <3> QED
      BY <1>1, <1>2, <1>3, <2>1, <3>2, <3>3, <3>4
  <2>2. CASE j > Len(history)
    BY <1>1, <1>2, <1>3, <2>2
  <2> QED
    BY <1>1, <1>2, <2>1, <2>2
<1>8. kept \in Nat /\ kept <= SizeLimit /\ kept <= Len(h) - history_start
  BY <1>1, <1>2, <1>5, <1>6, ConstantsType
<1>9. kept <= master_offset'
  BY <1>1, <1>2, <1>4, <1>8 DEF IInv
<1>10. \A i \in 1..kept : t.buf[t.start + i] = stream'[master_offset' - kept + i]
  <2> SUFFICES ASSUME NEW i \in 1..kept
               PROVE  t.buf[t.start + i] = stream'[master_offset' - kept + i]
    OBVIOUS
  <2>1. Len(h) - kept + i \in (history_start + 1)..Len(h)
    BY <1>1, <1>2, <1>8
  <2>2. Len(stream') - Len(h) + (Len(h) - kept + i) = master_offset' - kept + i
    BY SMTT(30), <1>1, <1>2, <1>3, <1>4, <1>8
  <2> HIDE DEF t, h, kept
  <2> QED
    BY <1>6, <1>7, <2>1, <2>2
<1>11. TypeOK'
  BY <1>1, <1>3, <1>4, <1>6 DEF IInv, TypeOK
<1> HIDE DEF t, h
<1> QED
  BY <1>1, <1>3, <1>4, <1>6, <1>8, <1>9, <1>10, <1>11 DEF IInv, CompactThreshold

(* Every step keeps the invariant. *)
LEMMA NextIInv == IInv /\ [Next]_vars => IInv'
<1> SUFFICES ASSUME IInv, [Next]_vars PROVE IInv'
  OBVIOUS
<1>1. ASSUME NEW chunk \in Chunk, AppendCommand(chunk) PROVE IInv'
  BY <1>1, AppendIInv
<1>2. CASE Reset
  BY <1>2, BacklogAssumption, ConstantsType DEF Reset, IInv, TypeOK, CompactThreshold
<1>3. CASE Disable
  <2>1. active' \in BOOLEAN
    BY <1>3 DEF Disable
  <2>2. replid' \in Replid /\ history' \in Seq(Byte) /\ stream' \in Seq(Byte)
        /\ history_start' \in Nat /\ master_offset' \in Nat
    <3>1. history' = <<>> /\ stream' = <<>> /\ history_start' = 0
          /\ master_offset' = 0 /\ replid' = replid
      BY <1>3 DEF Disable
    <3> QED
      BY <3>1 DEF IInv, TypeOK
  <2>3. TypeOK'
    BY <2>1, <2>2 DEF TypeOK
  <2> QED
    BY <1>3, <2>3, ConstantsType DEF Disable, IInv, CompactThreshold
<1>4. CASE UNCHANGED vars
  BY <1>4 DEF vars, IInv, TypeOK, CompactThreshold
<1> QED
  BY <1>1, <1>2, <1>3, <1>4 DEF Next

-----------------------------------------------------------------------------
(* The invariant holds of every behaviour of the backlog. *)
THEOREM Invariance == Spec => []IInv
  BY InitIInv, NextIInv, PTL DEF Spec

(* The fields of the backlog keep their types. *)
THEOREM TypeCorrect == Spec => []TypeOK
<1>1. IInv => TypeOK
  BY DEF IInv
<1> QED
  BY <1>1, Invariance, PTL

(* After every operation the buffer, dead prefix included, is shorter than *)
(* the size limit and the compaction threshold together, whatever they are.*)
THEOREM MemoryIsBounded == Spec => []MemoryBounded
<1>1. IInv => MemoryBounded
  <2>1. IInv => Len(history) \in Nat /\ history_start \in Nat
    BY DEF IInv, TypeOK
  <2>2. SizeLimit \in Nat /\ CompactThreshold \in Nat
    BY BacklogAssumption DEF CompactThreshold
  <2> QED
    BY <2>1, <2>2, LogicalLenIs DEF IInv, MemoryBounded
<1> QED
  BY <1>1, Invariance, PTL

(* A replica allowed to continue is sent exactly the bytes it has not seen. *)
THEOREM SliceIsCorrect == Spec => []SliceIsRestOfStream
<1>1. IInv => SliceIsRestOfStream
  <2> SUFFICES ASSUME IInv, NEW id \in Replid, NEW o \in 0..master_offset,
                      CanContinue(id, o)
               PROVE  SliceFrom(o) = SubSeq(stream, o + 1, Len(stream))
    BY DEF SliceIsRestOfStream
  <2> DEFINE held == Len(history) - history_start
             from == history_start + (o - FirstOffset) + 1
  <2>1. /\ history \in Seq(Byte) /\ stream \in Seq(Byte)
        /\ history_start \in Nat /\ master_offset \in Nat
        /\ held \in Nat /\ held <= master_offset /\ Len(stream) = master_offset
    BY DEF IInv, TypeOK
  <2>2. FirstOffset = master_offset - held /\ FirstOffset <= o
    BY LogicalLenIs DEF CanContinue, FirstOffset
  <2>3. from \in Nat /\ from >= history_start + 1
        /\ Len(history) - from = Len(stream) - (o + 1)
    BY <2>1, <2>2
  <2>4. SliceFrom(o) = SubSeq(history, from, Len(history))
    BY DEF SliceFrom, CanContinue
  <2>5. \A i \in 1..(Len(stream) - o) : history[from - 1 + i] = stream[o + i]
    <3> SUFFICES ASSUME NEW i \in 1..(Len(stream) - o)
                 PROVE  history[from - 1 + i] = stream[o + i]
      OBVIOUS
    <3> DEFINE k == (o - FirstOffset) + i
    <3>1. k \in 1..held
      BY <2>1, <2>2
    <3>2. history[history_start + k] = stream[master_offset - held + k]
      BY <3>1 DEF IInv
    <3>3. history_start + k = from - 1 + i /\ master_offset - held + k = o + i
      BY <2>1, <2>2
    <3> QED
      BY <3>2, <3>3
  <2>6. SubSeq(history, from, Len(history)) = SubSeq(stream, o + 1, Len(stream))
    <3>1. from \in Nat \ {0} /\ o + 1 \in Nat \ {0} /\ from <= Len(history) + 1
      BY <2>1, <2>2, <2>3
    <3>2. \A i \in 1..(Len(stream) - (o + 1) + 1) :
              history[from - 1 + i] = stream[(o + 1) - 1 + i]
      BY SMTT(30), <2>1, <2>5
    <3> HIDE DEF from
    <3> QED
      BY <2>1, <2>3, <3>1, <3>2, SuffixesEqual
  <2> QED
    BY <2>4, <2>6
<1> QED
  BY <1>1, Invariance, PTL

-----------------------------------------------------------------------------
(* How the lowest offset served moves when a command is appended: it stays *)
(* or goes to the offset SizeLimit below the new end.                      *)
LEMMA AppendMovesFirstOffset ==
    ASSUME IInv, NEW chunk \in Chunk, AppendCommand(chunk)
    PROVE  FirstOffset' = Stream!Larger(FirstOffset, Len(stream') - SizeLimit)
<1>1. IInv'
  BY AppendIInv
<1>2. /\ chunk \in Seq(Byte) /\ history \in Seq(Byte) /\ stream \in Seq(Byte)
      /\ history_start \in Nat /\ master_offset \in Nat
      /\ history_start < CompactThreshold /\ history_start <= Len(history)
      /\ Len(history) - history_start <= master_offset
      /\ Len(stream) = master_offset
      /\ Len(history) - history_start <= SizeLimit
  BY ChunkIsSeq DEF IInv, TypeOK
<1>3. active = TRUE /\ active' = TRUE
  BY DEF AppendCommand, IInv, TypeOK
<1>4. /\ FirstOffset = master_offset - (Len(history) - history_start)
      /\ FirstOffset' = master_offset' - (Len(history') - history_start')
  <2>1. /\ FirstOffset = master_offset - LogicalLen
        /\ FirstOffset' = master_offset' - LogicalLen'
    BY <1>3 DEF FirstOffset
  <2>2. LogicalLen = Len(history) - history_start
    BY LogicalLenIs
  <2>3. LogicalLen' = Len(history') - history_start'
    <3>1. history' \in Seq(Byte) /\ history_start' \in Nat
          /\ history_start' <= Len(history')
      BY <1>1 DEF IInv, TypeOK
    <3> QED
      BY <3>1 DEF LogicalLen
  <2> QED
    BY <2>1, <2>2, <2>3
<1> DEFINE h == history \o chunk
           t == Trimmed(h, history_start)
<1>5. h \in Seq(Byte) /\ Len(h) = Len(history) + Len(chunk)
  BY <1>2
<1>6. Len(t.buf) - t.start
        = IF Len(h) - history_start <= SizeLimit THEN Len(h) - history_start
          ELSE SizeLimit
  <2> HIDE DEF h
  <2> QED
    BY SMTT(30), <1>2, <1>5, TrimmedKeepsTail
<1>7. /\ history' = t.buf /\ history_start' = t.start
      /\ master_offset' = master_offset + Len(chunk)
      /\ stream' = stream \o chunk
  BY DEF AppendCommand
<1> HIDE DEF t, h
<1>8. Len(stream') = master_offset + Len(chunk)
  <2>1. stream' = stream \o chunk
    BY <1>7
  <2>2. Len(stream \o chunk) = Len(stream) + Len(chunk)
    BY <1>2, ConcatProperties
  <2> QED
    BY <1>2, <2>1, <2>2
<1> QED
  BY SMTT(30), <1>2, <1>4, <1>5, <1>6, <1>7, <1>8, ConstantsType DEF Stream!Larger

(* The bounded buffer implements the unbounded stream: AppendCommand is    *)
(* Propagate, Reset is Open, Disable is Close.                             *)
THEOREM BacklogImplementsStream == Spec => ImplementsStream
<1>1. Init => Stream!Init
  <2> SUFFICES ASSUME Init PROVE Stream!Init
    OBVIOUS
  <2>1. IInv
    BY InitIInv
  <2>3. active = TRUE
    BY DEF Init
  <2>2. FirstOffset = 0
    <3>1. FirstOffset = master_offset - LogicalLen
      BY <2>3 DEF FirstOffset
    <3>2. history = <<>> /\ history_start = 0 /\ master_offset = 0
      BY DEF Init
    <3>3. LogicalLen = 0
      BY <3>2 DEF LogicalLen
    <3> QED
      BY <3>1, <3>2, <3>3
  <2> QED
    BY <2>2, <2>3, BacklogAssumption DEF Init, Stream!Init
<1>2. IInv /\ [Next]_vars => [Stream!Next]_(Stream!svars)
  <2> SUFFICES ASSUME IInv, [Next]_vars PROVE [Stream!Next]_(Stream!svars)
    OBVIOUS
  <2>1. ASSUME NEW chunk \in Chunk, AppendCommand(chunk)
        PROVE  Stream!Next
    <3>1. active = TRUE /\ stream' = stream \o chunk
          /\ replid' = replid /\ active' = active
      BY <2>1 DEF AppendCommand, IInv, TypeOK
    <3>2. FirstOffset' = Stream!Larger(FirstOffset, Len(stream') - SizeLimit)
      BY <2>1, AppendMovesFirstOffset
    <3>3. Stream!Propagate(chunk)
      BY <3>1, <3>2 DEF Stream!Propagate
    <3> QED
      BY <3>3 DEF Stream!Next, Chunk
  <2>2. ASSUME Reset PROVE Stream!Next
    <3>1. stream' = <<>> /\ replid' = ResetId /\ active' = TRUE
      BY <2>2 DEF Reset
    <3>2. FirstOffset' = 0
      <4>1. FirstOffset' = master_offset' - LogicalLen'
        BY <3>1 DEF FirstOffset
      <4>2. history' = <<>> /\ history_start' = 0 /\ master_offset' = 0
        BY <2>2 DEF Reset
      <4>3. LogicalLen' = 0
        BY <4>2 DEF LogicalLen
      <4> QED
        BY <4>1, <4>2, <4>3
    <3>3. Stream!Open(ResetId)
      BY <3>1, <3>2 DEF Stream!Open
    <3> QED
      BY <3>3, BacklogAssumption DEF Stream!Next
  <2>3. ASSUME Disable PROVE Stream!Next
    <3>1. stream' = <<>> /\ replid' = replid /\ active' = FALSE
      BY <2>3 DEF Disable
    <3>2. FirstOffset' = 0
      BY <3>1 DEF FirstOffset
    <3> QED
      BY <3>1, <3>2 DEF Stream!Next, Stream!Close
  <2>4. CASE UNCHANGED vars
    <3>1. FirstOffset' = FirstOffset
      BY <2>4 DEF vars, FirstOffset, LogicalLen
    <3> QED
      BY <2>4, <3>1 DEF vars, Stream!svars
  <2> QED
    BY <2>1, <2>2, <2>3, <2>4 DEF Next
<1> QED
  BY <1>1, <1>2, Invariance, PTL DEF Spec, ImplementsStream, Stream!Spec
=============================================================================
