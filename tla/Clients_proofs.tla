--------------------------- MODULE Clients_proofs ---------------------------
(***************************************************************************)
(* Proved here for every finite set of clients, every choice of commands   *)
(* and every bound: the types, that the counters are right and that a      *)
(* pause holds; and, for clients that send neither a blocking request nor  *)
(* CLIENT UNBLOCK behind one that is not answered yet, that no request is  *)
(* lost, repeated or reordered and that each is carried out once.  The     *)
(* restriction is needed: the run pipelined_block shows what happens to a  *)
(* blocking request in the middle of a call.                               *)
(***************************************************************************)
EXTENDS Clients, SequenceTheorems, FiniteSetTheorems, TLAPS

(* One frame runs at a time. *)
OneRuns == \A c, d \in Running : c = d

(* A closed slot keeps nothing; a blocked client is one with a blocked     *)
(* request, and its frame has returned.                                    *)
SlotsAreClean ==
    \A c \in Client :
        /\ ~open[c] => /\ at[c] = "none" /\ ~partial[c]
                       /\ sock[c] = <<>> /\ input[c] = <<>> /\ blocked_request[c] = <<>>
        /\ blocking[c] <=> blocked_request[c] # <<>>
        /\ blocking[c] => at[c] = "none"

(* Between two polls no call is open.  In a call, what is done is a part   *)
(* of the input, and whom the server is asked to act on is there.          *)
CallsAreInOrder ==
    /\ Idle => done = 0 /\ acting = NoRequest /\ ~unpausing
    /\ \A c \in Client :
          /\ at[c] = "inner" =>
                /\ acting = NoRequest
                /\ done = 0 => ~unpausing
                /\ done # 0 => done < Len(input[c])
          /\ at[c] = "acting" /\ acting # NoRequest =>
                /\ acting.op \in TargetOps \cup {"pause", "pause_write"}
                /\ acting.op \in TargetOps => open[acting.to]
                /\ done < answered[c]

(* A client a pause has to hold is not its owner, and when its frame runs  *)
(* or is about to, it has nothing the pause is about.                      *)
HeldClientsWait ==
    /\ pause_owner # NoClient => open[pause_owner]
    /\ \A c \in Client : held[c] =>
          /\ pause # "none" /\ c # pause_owner
          /\ at[c] \in Place \ {"none", "reading"} => ~PauseBlocks(c, input[c])

ClientsInv ==
    /\ TypeOK /\ OneRuns /\ SlotsAreClean /\ CallsAreInOrder
    /\ CountersAgree /\ HeldClientsWait

(* Behind the first unanswered request are only requests that may be sent  *)
(* there.                                                                  *)
RestIsPipelined ==
    \A c \in Client : \A i \in 2..Len(Unanswered(c)) : Unanswered(c)[i].op \in Pipelined

(* A call that acts, or blocks, is one request long. *)
SingleCalls ==
    /\ \A c \in Client : Len(blocked_request[c]) <= 1
    /\ acting # NoRequest /\ acting.op = "unblock" => done = 0

(* What a call has executed is answered when it ends. *)
CarriedOutAhead ==
    \A c \in Client :
        carried_out[c] = answered[c] + (IF at[c] = "inner" THEN done ELSE 0)

OrderInv ==
    /\ ClientsInv /\ RequestsInOrder
    /\ RestIsPipelined /\ SingleCalls /\ CarriedOutAhead

-----------------------------------------------------------------------------
(* What is taken from the front of a queue and what is left of it.         *)
LEMMA TakeAndDrop ==
    ASSUME NEW s \in Seq(Request), NEW n \in 0..Len(s)
    PROVE  /\ Len(s) \in Nat
           /\ SubSeq(s, 1, n) \in Seq(Request) /\ Len(SubSeq(s, 1, n)) = n
           /\ Drop(s, n) \in Seq(Request) /\ Len(Drop(s, n)) = Len(s) - n
           /\ \A i \in 1..n : SubSeq(s, 1, n)[i] = s[i]
           /\ \A i \in 1..(Len(s) - n) : Drop(s, n)[i] = s[n + i]
           /\ s = SubSeq(s, 1, n) \o Drop(s, n)
<1>1. Len(s) \in Nat /\ \A i \in 1..Len(s) : s[i] \in Request
    BY LenProperties, ElementOfSeq
<1>2. /\ SubSeq(s, 1, n) \in Seq(Request) /\ Len(SubSeq(s, 1, n)) = n
      /\ \A i \in 1..n : SubSeq(s, 1, n)[i] = s[i]
    BY <1>1, SubSeqProperties, SMTT(20)
<1>3. /\ Drop(s, n) \in Seq(Request) /\ Len(Drop(s, n)) = Len(s) - n
      /\ \A i \in 1..(Len(s) - n) : Drop(s, n)[i] = s[n + i]
    BY <1>1, SubSeqProperties, SMTT(20) DEF Drop
<1>4. SubSeq(s, 1, n) \o SubSeq(s, n + 1, Len(s)) = SubSeq(s, 1, Len(s))
  <2>1. 1 \in 1..(Len(s) + 1) /\ n \in 1 - 1..Len(s) /\ Len(s) \in n..Len(s)
      BY <1>1
  <2> QED
      BY <2>1, ConcatAdjacentSubSeq
<1>5. SubSeq(s, 1, Len(s)) = s
    BY SubSeqFull
<1> QED
    BY <1>1, <1>2, <1>3, <1>4, <1>5 DEF Drop

LEMMA QueueTypes ==
    ASSUME NEW s \in Seq(Request)
    PROVE  /\ Len(s) \in Nat /\ (s = <<>> <=> Len(s) = 0)
           /\ DOMAIN s = 1..Len(s) /\ \A i \in 1..Len(s) : s[i] \in Request
BY LenProperties, ElementOfSeq, EmptySeq

LEMMA QueueConcat ==
    ASSUME NEW s \in Seq(Request), NEW t \in Seq(Request)
    PROVE  /\ s \o t \in Seq(Request) /\ Len(s \o t) = Len(s) + Len(t)
           /\ \A i \in 1..Len(s) : (s \o t)[i] = s[i]
           /\ \A i \in 1..Len(t) : (s \o t)[Len(s) + i] = t[i]
<1>1. /\ s \o t \in Seq(Request) /\ Len(s \o t) = Len(s) + Len(t)
      /\ \A i \in 1..Len(s) + Len(t) :
            (s \o t)[i] = IF i <= Len(s) THEN s[i] ELSE t[i - Len(s)]
    BY ConcatProperties
<1>2. Len(s) \in Nat /\ Len(t) \in Nat
    BY LenProperties
<1>3. \A i \in 1..Len(s) : (s \o t)[i] = s[i]
    BY <1>1, <1>2
<1>4. ASSUME NEW i \in 1..Len(t)
      PROVE  (s \o t)[Len(s) + i] = t[i]
  <2>1. Len(s) + i \in 1..Len(s) + Len(t) /\ ~(Len(s) + i <= Len(s)) /\ (Len(s) + i) - Len(s) = i
      BY <1>2
  <2> QED
      BY <1>1, <2>1
<1> QED
    BY <1>1, <1>3, <1>4

LEMMA EmptyQueue ==
    /\ <<>> \in Seq(Request) /\ Len(<<>>) = 0
    /\ \A s \in Seq(Request) : s \o <<>> = s /\ <<>> \o s = s
BY EmptySeq, ConcatEmptySeq

LEMMA LessTypes == \A n \in Nat : Less(n) \in Nat /\ (n > 0 => Less(n) = n - 1)
BY DEF Less

LEMMA NoRequestIsNone == NoRequest \notin Request /\ NoRequest.op \notin Ops
BY ClientsAssumption DEF NoRequest, Request, WriteOps, BlockingOps, TargetOps

LEMMA InitInv == Init => ClientsInv
<1> SUFFICES ASSUME Init PROVE ClientsInv
    OBVIOUS
<1>1. TypeOK
  <2>1. {sock, input, blocked_request} \subseteq [Client -> Seq(Request)]
      BY EmptyQueue DEF Init
  <2>2. {sent, answered, carried_out} \subseteq [Client -> Nat]
      BY DEF Init
  <2>3. \A c \in Client : Full(c) <= InputCap
      BY EmptyQueue, ClientsAssumption DEF Init, Full
  <2>4. /\ open \in [Client -> BOOLEAN] /\ peer_gone \in [Client -> BOOLEAN]
        /\ partial \in [Client -> BOOLEAN] /\ blocking \in [Client -> BOOLEAN]
        /\ held \in [Client -> BOOLEAN]
        /\ deadline \in [Client -> {"none", "set", "passed"}] /\ at \in [Client -> Place]
      BY DEF Init, Place
  <2>5. {active_clients, blocked_clients, buffered_clients, items, done} \subseteq Nat
      BY DEF Init
  <2> QED
      BY <2>1, <2>2, <2>3, <2>4, <2>5 DEF Init, TypeOK
<1>2. OneRuns /\ SlotsAreClean /\ CallsAreInOrder /\ HeldClientsWait
    BY DEF Init, OneRuns, Running, SlotsAreClean, CallsAreInOrder, HeldClientsWait
<1>3. CountersAgree
  <2>1. /\ {c \in Client : open[c]} = {} /\ {c \in Client : IsBlocked(c)} = {}
        /\ {c \in Client : HasInput(c)} = {}
      BY DEF Init, IsBlocked, HasInput
  <2> QED
      BY <2>1, FS_EmptySet DEF Init, CountersAgree
<1> QED
    BY <1>1, <1>2, <1>3 DEF ClientsInv

-----------------------------------------------------------------------------
(* Steps that move one frame and change nothing else. *)
MovesFrame(c) ==
    /\ \E p \in Place : at' = [at EXCEPT ![c] = p]
    /\ UNCHANGED <<connection, buffers, block, call, counters, pausing, items, history>>

LEMMA FrameMoves ==
    ASSUME NEW c \in Client,
           VisitBuffered(c) \/ Readable(c) \/ Writable(c) \/ WaitForInput(c)
    PROVE  MovesFrame(c)
BY DEF VisitBuffered, Readable, Writable, WaitForInput, MovesFrame, Enter, Place

(* A connection is closed only while it is open. *)
Closes(c) == open[c] /\ Close(c) /\ (Idle \/ c \in Running)

LEMMA CloseCases ==
    ASSUME ClientsInv, NEW c \in Client,
           WriteFails(c) \/ CloseIdle(c) \/ ReadEnd(c) \/ BlockTooLong(c) \/ ReplyAndClose(c)
    PROVE  Closes(c)
<1>1. at[c] # "none" => open[c]
    BY DEF ClientsInv, SlotsAreClean
<1>2. CASE WriteFails(c) \/ CloseIdle(c)
    BY <1>1, <1>2 DEF WriteFails, CloseIdle, PendingWrite, Closes
<1>3. CASE ReadEnd(c)
    BY <1>1, <1>3 DEF ReadEnd, AtRead, Closes, Running
<1>4. CASE BlockTooLong(c) \/ ReplyAndClose(c)
    BY <1>1, <1>4 DEF BlockTooLong, ReplyAndClose, Executes, Closes, Running
<1> QED
    BY <1>2, <1>3, <1>4

(* The request a blocked client waits for goes back to its input: there is *)
(* room for it.                                                            *)
GoesBack(c) ==
    /\ Idle /\ open[c] /\ IsBlocked(c) /\ at[c] = "none"
    /\ buffered_clients' = IF HasInput(c) THEN buffered_clients ELSE buffered_clients + 1
    /\ blocked_clients' = Less(blocked_clients)
    /\ input' = [input EXCEPT ![c] = blocked_request[c] \o @]
    /\ blocked_request' = [blocked_request EXCEPT ![c] = <<>>]
    /\ blocking' = [blocking EXCEPT ![c] = FALSE]
    /\ at' = [at EXCEPT ![c] = Enter(c, input'[c])]
    /\ UNCHANGED <<connection, partial, deadline, call, active_clients, pausing, items, history>>

LEMMA BlockedGoesBack ==
    ASSUME ClientsInv, NEW c \in Client, VisitBlocked(c)
    PROVE  GoesBack(c)
<1>1. Full(c) \in Nat /\ Full(c) <= InputCap
  <2>1. Len(blocked_request[c]) \in Nat /\ Len(input[c]) \in Nat
      BY QueueTypes DEF ClientsInv, TypeOK
  <2> QED
      BY SMTT(30), <2>1 DEF ClientsInv, TypeOK, Full
<1>2. at[c] = "none"
    BY DEF VisitBlocked, IsBlocked, ClientsInv, SlotsAreClean
<1>3. ~(Full(c) > InputCap)
    BY <1>1, ClientsAssumption
<1> QED
    BY <1>2, <1>3 DEF VisitBlocked, GoesBack

(* The steps of a client's frame, of the server on its behalf and of what  *)
(* surrounds them, in the cases the proofs distinguish.                    *)
Step ==
    \/ \E c \in Client :
          \/ MovesFrame(c) /\ (VisitBuffered(c) \/ Readable(c) \/ Writable(c) \/ WaitForInput(c))
          \/ Closes(c) \/ GoesBack(c)
          \/ Accept(c) \/ Read(c) \/ Block(c) \/ ExecuteInBatch(c) \/ ExecuteLast(c)
          \/ ActUnpause(c) \/ ActPause(c) \/ ActKill(c) \/ ActUnblock(c) \/ ActUnblockFails(c)
          \/ Reply(c) \/ PeerGoes(c) \/ DeadlinePasses(c)
    \/ \E c \in Client, op \in Ops, to \in Client \cup {NoClient} : SendRequest(c, op, to)
    \/ PauseEnds
    \/ UNCHANGED vars

LEMMA NextIsStep ==
    ASSUME ClientsInv, [Next]_vars
    PROVE  Step
BY FrameMoves, CloseCases, BlockedGoesBack DEF Next, Visit, Frame, Step

(* The types that the steps of one slot touch, and the rest.               *)
SlotTypes ==
    /\ open \in [Client -> BOOLEAN] /\ peer_gone \in [Client -> BOOLEAN]
    /\ sock \in [Client -> Seq(Request)] /\ input \in [Client -> Seq(Request)]
    /\ blocked_request \in [Client -> Seq(Request)]
    /\ partial \in [Client -> BOOLEAN] /\ blocking \in [Client -> BOOLEAN]
    /\ deadline \in [Client -> {"none", "set", "passed"}]
    /\ sent \in [Client -> Nat] /\ answered \in [Client -> Nat]
    /\ carried_out \in [Client -> Nat]

LoopTypes ==
    /\ at \in [Client -> Place] /\ unpausing \in BOOLEAN
    /\ acting \in Request \cup {NoRequest}
    /\ active_clients \in Nat /\ blocked_clients \in Nat /\ buffered_clients \in Nat
    /\ items \in Nat /\ done \in Nat
    /\ pause \in {"none", "write", "all"} /\ pause_owner \in Client \cup {NoClient}
    /\ held \in [Client -> BOOLEAN]

Fits == \A c \in Client : Full(c) <= InputCap

LEMMA TypesSplit == TypeOK <=> SlotTypes /\ LoopTypes /\ Fits
BY DEF TypeOK, SlotTypes, LoopTypes, Fits

LEMMA TypesSplitNext == SlotTypes' /\ LoopTypes' /\ Fits' => TypeOK'
BY DEF TypeOK, SlotTypes, LoopTypes, Fits

LEMMA CloseSlotTypes ==
    ASSUME TypeOK, NEW t \in Client, CloseSlot(t)
    PROVE  /\ SlotTypes' /\ Fits'
           /\ {active_clients', blocked_clients', buffered_clients'} \subseteq Nat
<1>0. SlotTypes /\ LoopTypes /\ Fits
    BY TypesSplit
<1>1. SlotTypes'
    BY <1>0, EmptyQueue DEF CloseSlot, SlotTypes
<1>2. Fits'
  <2>1. Full(t)' <= InputCap
      BY <1>0, EmptyQueue, ClientsAssumption DEF CloseSlot, Full, SlotTypes
  <2>2. \A d \in Client : d # t => Full(d)' = Full(d)
      BY <1>0 DEF CloseSlot, Full, SlotTypes
  <2> QED
      BY <1>0, <2>1, <2>2 DEF Fits
<1>3. {active_clients', blocked_clients', buffered_clients'} \subseteq Nat
    BY <1>0, LessTypes DEF CloseSlot, LoopTypes
<1> QED
    BY <1>1, <1>2, <1>3

(* The request a frame looks at, and what is left behind it.               *)
LEMMA CurrentTypes ==
    ASSUME TypeOK, NEW c \in Client, Executes(c)
    PROVE  /\ Current(c) \in Request /\ Current(c).op \in Ops
           /\ done + 1 \in 1..Len(input[c]) /\ done \in Nat /\ input[c] \in Seq(Request)
           /\ at[c] = "inner" /\ input[c] # <<>> /\ HasInput(c)
<1>1. input[c] \in Seq(Request) /\ done \in Nat /\ done < Len(input[c]) /\ at[c] = "inner"
    BY TypesSplit DEF SlotTypes, LoopTypes, Executes
<1>2. Len(input[c]) \in Nat
    BY <1>1, QueueTypes
<1>3. done + 1 \in 1..Len(input[c])
    BY <1>1, <1>2
<1>4. Current(c) \in Request
    BY <1>1, <1>3, QueueTypes DEF Current
<1>5. input[c] # <<>>
    BY <1>1, <1>2, QueueTypes
<1> QED
    BY <1>1, <1>3, <1>4, <1>5 DEF Request, HasInput

LEMMA ShiftTypes ==
    ASSUME TypeOK, NEW c \in Client, NEW n \in 0..Len(input[c]), ShiftInput(c, n)
    PROVE  /\ input' \in [Client -> Seq(Request)] /\ buffered_clients' \in Nat
           /\ input'[c] = Drop(input[c], n) /\ Len(input'[c]) = Len(input[c]) - n
           /\ \A d \in Client : d # c => input'[d] = input[d]
<1>1. input \in [Client -> Seq(Request)] /\ buffered_clients \in Nat
    BY TypesSplit DEF SlotTypes, LoopTypes
<1>2. Drop(input[c], n) \in Seq(Request) /\ Len(Drop(input[c], n)) = Len(input[c]) - n
    BY <1>1, TakeAndDrop
<1> QED
    BY <1>1, <1>2, LessTypes DEF ShiftInput

(* Room is kept when a slot's requests only move between its buffers.      *)
LEMMA FitsKept ==
    ASSUME TypeOK, SlotTypes', NEW c \in Client, partial' = partial,
           \A d \in Client : d # c => blocked_request'[d] = blocked_request[d] /\ input'[d] = input[d],
           Len(blocked_request'[c]) + Len(input'[c]) <= Len(blocked_request[c]) + Len(input[c])
    PROVE  Fits'
<1>1. SlotTypes /\ Fits
    BY TypesSplit
<1> DEFINE part == IF partial[c] THEN 1 ELSE 0
<1>a. part \in Nat
    OBVIOUS
<1> HIDE DEF part
<1>b. /\ Full(c) = Len(blocked_request[c]) + Len(input[c]) + part
      /\ Full(c)' = Len(blocked_request'[c]) + Len(input'[c]) + part
    BY DEF Full, part
<1>2. /\ Len(blocked_request[c]) \in Nat /\ Len(input[c]) \in Nat
      /\ Len(blocked_request'[c]) \in Nat /\ Len(input'[c]) \in Nat
    BY <1>1, QueueTypes DEF SlotTypes
<1>3. Full(c) <= InputCap
    BY <1>1 DEF Fits
<1>4. Full(c)' <= InputCap
  <2>1. \A i, j, k, l, m, n \in Nat : i + j <= k + l /\ k + l + m <= n => i + j + m <= n
      OBVIOUS
  <2>2. Len(blocked_request[c]) + Len(input[c]) + part <= InputCap /\ InputCap \in Nat
      BY <1>b, <1>3, ClientsAssumption
  <2>3. Len(blocked_request'[c]) + Len(input'[c]) + part <= InputCap
      BY <1>a, <1>2, <2>1, <2>2
  <2> QED
      BY <1>b, <2>3
<1>5. \A d \in Client : d # c => Full(d)' = Full(d)
    BY DEF Full
<1> QED
    BY <1>1, <1>4, <1>5 DEF Fits

LEMMA NextTypeOK ==
    ASSUME ClientsInv, Step
    PROVE  TypeOK'
<1> SUFFICES SlotTypes' /\ LoopTypes' /\ Fits'
    BY TypesSplitNext
<1>0. TypeOK /\ SlotTypes /\ LoopTypes /\ Fits
    BY TypesSplit DEF ClientsInv
<1> USE DEF SlotTypes, LoopTypes
<1>a. answered \in [Client -> Nat] /\ carried_out \in [Client -> Nat]
    BY <1>0
<1>b. at \in [Client -> Place] /\ items \in Nat /\ unpausing \in BOOLEAN /\ done \in Nat
    BY <1>0
<1>c. /\ pause \in {"none", "write", "all"} /\ pause_owner \in Client \cup {NoClient}
      /\ held \in [Client -> BOOLEAN]
    BY <1>0
<1>e. active_clients \in Nat /\ blocked_clients \in Nat /\ buffered_clients \in Nat
    BY <1>0
<1>d. blocked_request \in [Client -> Seq(Request)] /\ input \in [Client -> Seq(Request)]
    BY <1>0
<1>1. ASSUME NEW c \in Client, MovesFrame(c) PROVE SlotTypes' /\ LoopTypes' /\ Fits'
  <2>1. Fits'
      BY <1>0, <1>1 DEF MovesFrame, Fits, Full, buffers
  <2> QED
      BY <1>0, <1>1, <2>1 DEF MovesFrame, connection, buffers, block, call, counters, pausing, history
<1>2. ASSUME NEW c \in Client, Closes(c) PROVE SlotTypes' /\ LoopTypes' /\ Fits'
    BY <1>0, <1>2, CloseSlotTypes DEF Closes, Close, EndCall, Forget, Place
<1>3. ASSUME NEW c \in Client, GoesBack(c) PROVE SlotTypes' /\ LoopTypes' /\ Fits'
  <2>1. /\ blocked_request[c] \o input[c] \in Seq(Request)
        /\ Len(blocked_request[c] \o input[c]) = Len(blocked_request[c]) + Len(input[c])
        /\ Len(blocked_request[c]) \in Nat /\ Len(input[c]) \in Nat
      BY <1>0, QueueConcat, QueueTypes
  <2>2. SlotTypes'
      BY <1>0, <1>3, <2>1, EmptyQueue DEF GoesBack, connection, history
  <2>3. Fits'
    <3>1. /\ partial' = partial
          /\ \A d \in Client : d # c => blocked_request'[d] = blocked_request[d] /\ input'[d] = input[d]
          /\ blocked_request'[c] = <<>> /\ input'[c] = blocked_request[c] \o input[c]
        BY <1>0, <1>3 DEF GoesBack
    <3>2. Len(blocked_request'[c]) + Len(input'[c]) <= Len(blocked_request[c]) + Len(input[c])
        BY <2>1, <3>1, EmptyQueue
    <3> QED
        BY <1>0, <2>2, <3>1, <3>2, FitsKept
  <2>4. LoopTypes'
    <3>1. at' \in [Client -> Place]
        BY <1>0, <1>3 DEF GoesBack, Enter, Place
    <3>2. blocked_clients' \in Nat /\ buffered_clients' \in Nat
        BY <1>0, <1>3, LessTypes DEF GoesBack
    <3> QED
        BY <1>0, <1>3, <3>1, <3>2 DEF GoesBack, call, pausing
  <2> QED
      BY <2>2, <2>3, <2>4
<1>4. ASSUME NEW c \in Client, Accept(c) PROVE SlotTypes' /\ LoopTypes' /\ Fits'
  <2>1. Fits'
      BY <1>0, <1>4 DEF Accept, Fits, Full, buffers
  <2> QED
      BY <1>0, <1>4, <2>1 DEF Accept, buffers, block, call
<1>5. ASSUME NEW c \in Client, Read(c) PROVE SlotTypes' /\ LoopTypes' /\ Fits'
  <2>1. PICK n \in 0..InputCap, more \in BOOLEAN :
          /\ (IF more THEN n + 1 ELSE n) <= Len(sock[c])
          /\ (IF more THEN n + 1 ELSE n) <= InputCap
          /\ input' = [input EXCEPT ![c] = SubSeq(sock[c], 1, n)]
          /\ partial' = [partial EXCEPT ![c] = more]
          /\ sock' = [sock EXCEPT ![c] = Drop(@, n)]
      BY <1>5 DEF Read
  <2>2. sock[c] \in Seq(Request) /\ Len(sock[c]) \in Nat
      BY <1>0, QueueTypes
  <2>3. n \in 0..Len(sock[c])
      BY <2>1, <2>2, ClientsAssumption
  <2>4. /\ SubSeq(sock[c], 1, n) \in Seq(Request) /\ Len(SubSeq(sock[c], 1, n)) = n
        /\ Drop(sock[c], n) \in Seq(Request)
      BY <2>2, <2>3, TakeAndDrop
  <2>5. SlotTypes'
      BY <1>0, <1>5, <2>1, <2>4 DEF Read, block, history
  <2>6. blocked_request[c] = <<>>
      BY <1>5 DEF Read, AtRead, ClientsInv, SlotsAreClean
  <2>7. Fits'
    <3>1. Len(blocked_request[c]) = 0
        BY <2>6, EmptyQueue
    <3>2. Full(c)' <= InputCap
        BY <1>0, <1>5, <2>1, <2>4, <3>1, ClientsAssumption DEF Read, Full
    <3> QED
        BY <1>0, <1>5, <2>1, <3>2 DEF Read, Fits, Full
  <2>8. LoopTypes'
      BY <1>0, <1>5 DEF Read, pausing, call, Enter, Place
  <2> QED
      BY <2>5, <2>7, <2>8
<1>6. ASSUME NEW c \in Client, Block(c) PROVE SlotTypes' /\ LoopTypes' /\ Fits'
  <2>1. /\ done + 1 \in 0..Len(input[c]) /\ input[c] \in Seq(Request)
        /\ Len(input[c]) \in Nat
      BY <1>0, <1>6, CurrentTypes, QueueTypes DEF Block
  <2>2. /\ SubSeq(input[c], 1, done + 1) \in Seq(Request)
        /\ Len(SubSeq(input[c], 1, done + 1)) = done + 1
      BY <2>1, TakeAndDrop
  <2>3. /\ input' \in [Client -> Seq(Request)] /\ buffered_clients' \in Nat
        /\ Len(input'[c]) = Len(input[c]) - (done + 1)
        /\ \A d \in Client : d # c => input'[d] = input[d]
      BY <1>0, <1>6, <2>1, ShiftTypes DEF Block
  <2>4. SlotTypes'
      BY <1>0, <1>6, <2>2, <2>3 DEF Block, connection, history
  <2>5. LoopTypes'
    <3>1. at' \in [Client -> Place]
        BY <1>0, <1>6 DEF Block, Place
    <3>2. /\ blocked_clients' = blocked_clients + 1 /\ active_clients' = active_clients
          /\ done' = 0 /\ acting' = NoRequest
          /\ items' = items /\ UNCHANGED <<pause, pause_owner, held>>
        BY <1>6 DEF Block, EndCall, pausing
    <3>3. unpausing' \in BOOLEAN
        BY <1>6, Zenon DEF Block, EndCall
    <3>4. blocked_clients' \in Nat /\ active_clients' \in Nat /\ items' \in Nat /\ done' \in Nat
        BY <1>b, <1>e, <3>2
    <3>5. /\ pause' \in {"none", "write", "all"} /\ pause_owner' \in Client \cup {NoClient}
          /\ held' \in [Client -> BOOLEAN]
        BY <1>c, <3>2
    <3>6. acting' \in Request \cup {NoRequest}
        BY <3>2
    <3> QED
        BY <2>3, <3>1, <3>3, <3>4, <3>5, <3>6
  <2>6. Fits'
    <3>1. Len(blocked_request[c]) = 0
        BY <1>6, EmptyQueue DEF Block, Executes, ClientsInv, SlotsAreClean
    <3>2. /\ partial' = partial
          /\ \A d \in Client : d # c => blocked_request'[d] = blocked_request[d] /\ input'[d] = input[d]
          /\ blocked_request'[c] = SubSeq(input[c], 1, done + 1)
        BY <1>0, <1>6, <2>3 DEF Block
    <3>3. Len(blocked_request'[c]) + Len(input'[c]) <= Len(blocked_request[c]) + Len(input[c])
        BY <1>0, <2>1, <2>2, <2>3, <3>1, <3>2
    <3> QED
        BY <1>0, <2>4, <3>2, <3>3, FitsKept
  <2> QED
      BY <2>4, <2>5, <2>6
<1>7. ASSUME NEW c \in Client, ExecuteInBatch(c) PROVE SlotTypes' /\ LoopTypes' /\ Fits'
  <2>1. Fits'
      BY <1>0, <1>7 DEF ExecuteInBatch, Fits, Full, buffers
  <2>2. LoopTypes'
      BY SMTT(30), <1>0, <1>7, LessTypes DEF ExecuteInBatch, Execute, counters, pausing
  <2>3. SlotTypes'
      BY SMTT(30), <1>0, <1>7 DEF ExecuteInBatch, Execute, connection, buffers
  <2> QED
      BY <2>1, <2>2, <2>3
<1>8. ASSUME NEW c \in Client, ExecuteLast(c) PROVE SlotTypes' /\ LoopTypes' /\ Fits'
  <2>1. /\ done + 1 \in 0..Len(input[c]) /\ Current(c) \in Request
        /\ Len(input[c]) \in Nat
      BY <1>0, <1>8, CurrentTypes, QueueTypes DEF ExecuteLast
  <2>2. /\ input' \in [Client -> Seq(Request)] /\ buffered_clients' \in Nat
        /\ Len(input'[c]) = Len(input[c]) - (done + 1)
        /\ \A d \in Client : d # c => input'[d] = input[d]
      BY <1>0, <1>8, <2>1, ShiftTypes DEF ExecuteLast
  <2>3. SlotTypes'
    <3>1. answered' \in [Client -> Nat] /\ carried_out' \in [Client -> Nat]
        BY <1>a, <1>b, <1>8 DEF ExecuteLast, Execute
    <3>2. deadline' \in [Client -> {"none", "set", "passed"}]
        BY <1>0, <1>8 DEF ExecuteLast, Execute
    <3> QED
        BY <1>0, <1>8, <2>2, <3>1, <3>2 DEF ExecuteLast, connection
  <2>4. LoopTypes'
    <3>1. at' \in [Client -> Place]
        BY <1>0, <1>8 DEF ExecuteLast, Place
    <3>2. items' \in Nat /\ unpausing' \in BOOLEAN
        BY <1>b, <1>8, LessTypes DEF ExecuteLast, Execute
    <3>3. acting' \in Request \cup {NoRequest}
        BY <1>8, <2>1 DEF ExecuteLast
    <3> QED
        BY <1>0, <1>8, <2>2, <3>1, <3>2, <3>3 DEF ExecuteLast, pausing
  <2>5. Fits'
    <3>1. partial' = partial /\ blocked_request' = blocked_request
        BY <1>8 DEF ExecuteLast
    <3>2. Len(input'[c]) <= Len(input[c]) /\ Len(blocked_request[c]) \in Nat
        BY <1>0, <2>1, <2>2, QueueTypes
    <3>3. Len(input'[c]) \in Nat /\ Len(input[c]) \in Nat
        BY <2>1, <2>2, QueueTypes
    <3>4. Len(blocked_request'[c]) + Len(input'[c]) <= Len(blocked_request[c]) + Len(input[c])
        BY <3>1, <3>2, <3>3
    <3> HIDE DEF SlotTypes, LoopTypes
    <3> QED
        BY <1>0, <2>2, <2>3, <3>1, <3>4, FitsKept
  <2> QED
      BY <2>3, <2>4, <2>5
<1>9. ASSUME NEW c \in Client, ActUnpause(c) \/ ActPause(c) \/ Reply(c) PROVE SlotTypes' /\ LoopTypes' /\ Fits'
  <2>1. Fits'
      BY <1>0, <1>9 DEF ActUnpause, ActPause, Reply, Fits, Full, buffers
  <2>2. SlotTypes'
      BY <1>0, <1>9 DEF ActUnpause, ActPause, Reply, connection, buffers, block, history
  <2>3. LoopTypes'
    <3>1. CASE ActUnpause(c)
        BY <1>0, <3>1 DEF ActUnpause, Unpause, PauseAfterUnpause, call, counters, Place
    <3>2. CASE ActPause(c)
        BY <1>0, <3>2 DEF ActPause, PendingWrite, call, counters, Place
    <3>3. CASE Reply(c)
        BY <1>0, <3>3 DEF Reply, EndCall, counters, pausing, Place
    <3> QED
        BY <1>9, <3>1, <3>2, <3>3
  <2> QED
      BY <2>1, <2>2, <2>3
<1>10. ASSUME NEW c \in Client, ActKill(c) PROVE SlotTypes' /\ LoopTypes' /\ Fits'
  <2>1. CASE acting.to = c
    <3>1. Fits'
        BY <1>0, <1>10, <2>1 DEF ActKill, Fits, Full, buffers
    <3>2. SlotTypes'
        BY <1>0, <1>10, <2>1 DEF ActKill, connection, buffers, block, history
    <3>3. LoopTypes'
      <4>1. at' = [at EXCEPT ![c] = "replying"] /\ UNCHANGED <<call, counters, items>>
          BY <1>10, <2>1 DEF ActKill
      <4>2. /\ pause' \in {pause, "none"} /\ pause_owner' \in {pause_owner, NoClient}
            /\ held' \in {held, [d \in Client |-> FALSE]}
          BY <1>10, <2>1 DEF ActKill, Unpause, PauseAfterUnpause
      <4>3. /\ at' \in [Client -> Place] /\ pause' \in {"none", "write", "all"}
            /\ pause_owner' \in Client \cup {NoClient} /\ held' \in [Client -> BOOLEAN]
          BY <1>b, <1>c, <4>1, <4>2 DEF Place
      <4> QED
          BY <1>0, <4>1, <4>3 DEF call, counters
    <3> QED
        BY <3>1, <3>2, <3>3
  <2>2. CASE acting.to # c
    <3>1. acting.to \in Client
        BY <1>0, <1>10, NoRequestIsNone DEF ActKill, Request, TargetOps, NoRequest
    <3>2. CloseSlot(acting.to)
        BY <1>10, <2>2 DEF ActKill
    <3>3. /\ at' \in [Client -> Place] /\ held' \in [Client -> BOOLEAN]
          /\ pause' \in {"none", "write", "all"} /\ pause_owner' \in Client \cup {NoClient}
      <4>1. at' = [at EXCEPT ![c] = "replying", ![acting.to] = "none"]
          BY <1>10, <2>2 DEF ActKill
      <4>2. /\ pause' \in {pause, "none"} /\ pause_owner' \in {pause_owner, NoClient}
            /\ held' = [d \in Client |-> held[d] /\ d # acting.to /\ ~unpausing]
          BY <1>10, <2>2 DEF ActKill, PauseAfterUnpause
      <4> QED
          BY <1>b, <1>c, <4>1, <4>2 DEF Place
    <3>4. LoopTypes'
        BY <1>0, <1>10, <3>1, <3>2, <3>3, CloseSlotTypes DEF ActKill, call
    <3> QED
        BY <1>0, <3>1, <3>2, <3>4, CloseSlotTypes
  <2> QED
      BY <2>1, <2>2
<1>11. ASSUME NEW c \in Client, ActUnblock(c) PROVE SlotTypes' /\ LoopTypes' /\ Fits'
  <2> DEFINE t == acting.to
  <2>1. t \in Client
      BY SMTT(30), <1>0, <1>11, NoRequestIsNone DEF ActUnblock, Request, TargetOps, NoRequest
  <2>2. acting # NoRequest
      BY <1>11 DEF ActUnblock, NoRequest
  <2>3. LoopTypes'
      BY <1>0, <1>11, LessTypes DEF ActUnblock, Unpause, PauseAfterUnpause, Place, call
  <2>4. SlotTypes'
    <3>1. done < answered[c]
        BY <1>11, <2>2 DEF ActUnblock, ClientsInv, CallsAreInOrder
    <3>2. answered[c] - done \in Nat
        BY <1>0, <3>1
    <3>4. answered' \in [Client -> Nat] /\ carried_out' \in [Client -> Nat]
      <4>1. CASE IsBlocked(t)
        <5>1. /\ answered' = [answered EXCEPT ![t] = @ + 1]
              /\ carried_out' = [carried_out EXCEPT ![t] = @ + 1]
            BY <1>11, <4>1 DEF ActUnblock
        <5> QED
            BY <1>a, <2>1, <5>1
      <4>2. CASE ~IsBlocked(t)
          BY <1>0, <1>11, <3>2, <4>2 DEF ActUnblock
      <4> QED
          BY <4>1, <4>2
    <3> QED
        BY ZenonT(60), <1>0, <1>11, <3>4, EmptyQueue DEF ActUnblock, connection, block
  <2>5. Fits'
    <3>1. /\ input' = input /\ partial' = partial
          /\ \A d \in Client : d # t => blocked_request'[d] = blocked_request[d]
          /\ blocked_request'[t] \in {blocked_request[t], <<>>}
      <4>1. CASE IsBlocked(t)
          BY <1>d, <1>11, <2>1, <4>1 DEF ActUnblock
      <4>2. CASE ~IsBlocked(t)
          BY <1>11, <4>2 DEF ActUnblock
      <4> QED
          BY <4>1, <4>2
    <3>2. Len(blocked_request[t]) \in Nat /\ Len(input[t]) \in Nat
        BY <1>0, <2>1, QueueTypes
    <3>3. Len(blocked_request'[t]) + Len(input'[t]) <= Len(blocked_request[t]) + Len(input[t])
        BY <3>1, <3>2, EmptyQueue
    <3> QED
        BY <1>0, <2>1, <2>4, <3>1, <3>3, FitsKept
  <2> QED
      BY <2>3, <2>4, <2>5
<1>12. ASSUME NEW c \in Client, ActUnblockFails(c) PROVE SlotTypes' /\ LoopTypes' /\ Fits'
  <2>1. acting.to \in Client
      BY <1>0, <1>12, NoRequestIsNone DEF ActUnblockFails, Request, TargetOps, NoRequest
  <2> QED
      BY <1>0, <1>12, <2>1, CloseSlotTypes DEF ActUnblockFails, PauseAfterUnpause, Place, call
<1>13. ASSUME NEW c \in Client, PeerGoes(c) \/ DeadlinePasses(c) PROVE SlotTypes' /\ LoopTypes' /\ Fits'
  <2>1. Fits'
      BY <1>0, <1>13 DEF PeerGoes, DeadlinePasses, Fits, Full, buffers
  <2> QED
      BY <1>0, <1>13, <2>1 DEF PeerGoes, DeadlinePasses, connection, buffers, block, call, counters,
         pausing, history
<1>14. ASSUME NEW c \in Client, NEW op \in Ops, NEW to \in Client \cup {NoClient},
              SendRequest(c, op, to)
       PROVE  SlotTypes' /\ LoopTypes' /\ Fits'
  <2> DEFINE r == [id |-> sent[c] + 1, op |-> op, to |-> to]
  <2>1. r \in Request
      BY <1>0, <1>14 DEF SendRequest, Request
  <2>2. Append(sock[c], r) \in Seq(Request)
    <3> HIDE DEF r
    <3> QED
        BY <1>0, <2>1, AppendProperties
  <2>3. Fits'
      BY <1>0, <1>14 DEF SendRequest, Fits, Full, buffers
  <2>4. SlotTypes'
    <3>1. sock' = [sock EXCEPT ![c] = Append(sock[c], r)]
        BY <1>14 DEF SendRequest
    <3> HIDE DEF r
    <3> QED
        BY SMTT(30), <1>0, <1>14, <2>2, <3>1 DEF SendRequest, buffers, block
  <2>5. LoopTypes'
      BY <1>0, <1>14 DEF SendRequest, call, counters, pausing
  <2> QED
      BY <2>3, <2>4, <2>5
<1>15. ASSUME PauseEnds PROVE SlotTypes' /\ LoopTypes' /\ Fits'
  <2>1. Fits'
      BY <1>0, <1>15 DEF PauseEnds, Fits, Full, buffers
  <2> QED
      BY <1>0, <1>15, <2>1 DEF PauseEnds, connection, buffers, block, call, counters, history
<1>16. CASE UNCHANGED vars
  <2>1. Fits'
      BY <1>0, <1>16 DEF vars, Fits, Full, buffers
  <2> QED
      BY <1>0, <1>16, <2>1 DEF vars, connection, buffers, block, call, counters, pausing, history
<1> QED
    BY <1>1, <1>2, <1>3, <1>4, <1>5, <1>6, <1>7, <1>8, <1>9, <1>10, <1>11, <1>12,
       <1>13, <1>14, <1>15, <1>16 DEF Step

-----------------------------------------------------------------------------
(* The frames.  A step moves the frame that runs, or one when none runs;   *)
(* another frame it can only end.                                          *)
LEMMA FrameTypes ==
    ASSUME ClientsInv
    PROVE  /\ at \in [Client -> Place] /\ open \in [Client -> BOOLEAN]
           /\ blocking \in [Client -> BOOLEAN]
           /\ \A c \in Running : \A d \in Client : d # c => d \notin Running
           /\ \A c \in Client : at[c] \in {"inner", "acting", "replying"} => c \in Running /\ ~Idle
           /\ \A c \in Client : at[c] # "none" => open[c] /\ ~blocking[c] /\ ~IsBlocked(c)
<1>1. at \in [Client -> Place] /\ open \in [Client -> BOOLEAN] /\ blocking \in [Client -> BOOLEAN]
    BY DEF ClientsInv, TypeOK
<1>2. \A c \in Running : \A d \in Client : d # c => d \notin Running
    BY DEF ClientsInv, OneRuns
<1>3. \A c \in Client : at[c] \in {"inner", "acting", "replying"} => c \in Running /\ ~Idle
    BY DEF Running, Idle
<1>4. \A c \in Client : at[c] # "none" => open[c] /\ ~blocking[c] /\ ~IsBlocked(c)
    BY DEF ClientsInv, SlotsAreClean, IsBlocked
<1> QED
    BY <1>1, <1>2, <1>3, <1>4

(* Whom a call names is a client, open when the server is to act on it.    *)
LEMMA TargetTypes ==
    ASSUME ClientsInv, NEW c \in Client, at[c] = "acting", acting.op \in TargetOps
    PROVE  acting # NoRequest /\ acting.to \in Client /\ open[acting.to]
<1>1. acting # NoRequest
    BY DEF NoRequest, TargetOps
<1>2. acting \in Request
    BY <1>1 DEF ClientsInv, TypeOK
<1>3. acting.to \in Client
    BY <1>2 DEF Request
<1> QED
    BY <1>1, <1>3 DEF ClientsInv, CallsAreInOrder

MovesOne(c) ==
    /\ Idle \/ c \in Running
    /\ \A d \in Client : d # c => at'[d] \in {at[d], "none"}

LEMMA StepMovesOne ==
    ASSUME ClientsInv, Step
    PROVE  at' = at \/ \E c \in Client : MovesOne(c)
<1> USE FrameTypes
<1>1. ASSUME NEW c \in Client,
             VisitBuffered(c) \/ Readable(c) \/ Writable(c) \/ WaitForInput(c)
      PROVE  MovesOne(c)
    BY <1>1 DEF VisitBuffered, Readable, Writable, WaitForInput, MovesOne
<1>2. ASSUME NEW c \in Client, Closes(c) PROVE MovesOne(c)
    BY <1>2 DEF Closes, Close, MovesOne
<1>3. ASSUME NEW c \in Client, GoesBack(c) PROVE MovesOne(c)
    BY <1>3 DEF GoesBack, MovesOne
<1>4. ASSUME NEW c \in Client, Read(c) PROVE MovesOne(c)
    BY <1>4 DEF Read, AtRead, MovesOne
<1>5. ASSUME NEW c \in Client, Block(c) \/ ExecuteLast(c) PROVE MovesOne(c)
    BY <1>5 DEF Block, ExecuteLast, Executes, MovesOne
<1>6. ASSUME NEW c \in Client, ActUnpause(c) \/ ActPause(c) \/ Reply(c) PROVE MovesOne(c)
    BY <1>6 DEF ActUnpause, ActPause, Reply, MovesOne
<1>7. ASSUME NEW c \in Client, ActKill(c) PROVE MovesOne(c)
    BY <1>7 DEF ActKill, MovesOne
<1>8. ASSUME NEW c \in Client, ActUnblock(c) \/ ActUnblockFails(c) PROVE MovesOne(c)
    BY <1>8 DEF ActUnblock, ActUnblockFails, MovesOne
<1>9. ASSUME NEW c \in Client,
             Accept(c) \/ ExecuteInBatch(c) \/ PeerGoes(c) \/ DeadlinePasses(c)
      PROVE  at' = at
    BY <1>9 DEF Accept, ExecuteInBatch, PeerGoes, DeadlinePasses
<1>10. ASSUME NEW c \in Client, NEW op \in Ops, NEW to \in Client \cup {NoClient},
              SendRequest(c, op, to)
       PROVE  at' = at
    BY <1>10 DEF SendRequest
<1>11. ASSUME PauseEnds \/ UNCHANGED vars PROVE at' = at
    BY <1>11 DEF PauseEnds, vars
<1> QED
    BY <1>1, <1>2, <1>3, <1>4, <1>5, <1>6, <1>7, <1>8, <1>9, <1>10, <1>11 DEF Step

LEMMA NextOneRuns ==
    ASSUME ClientsInv, Step
    PROVE  OneRuns'
<1>1. CASE at' = at
    BY <1>1 DEF ClientsInv, OneRuns, Running
<1>2. ASSUME NEW c \in Client, MovesOne(c)
      PROVE  OneRuns'
  <2>1. \A d \in Client : d # c => d \notin Running
      BY <1>2, FrameTypes DEF MovesOne, Idle
  <2>2. \A d \in Client : d # c => at'[d] \notin {"inner", "acting", "replying"}
      BY <1>2, <2>1 DEF MovesOne, Running
  <2> QED
      BY <2>2 DEF OneRuns, Running
<1> QED
    BY <1>1, <1>2, StepMovesOne

-----------------------------------------------------------------------------
(* The slots. *)
CleanSlot(c) ==
    /\ ~open[c] => /\ at[c] = "none" /\ ~partial[c]
                   /\ sock[c] = <<>> /\ input[c] = <<>> /\ blocked_request[c] = <<>>
    /\ blocking[c] <=> blocked_request[c] # <<>>
    /\ blocking[c] => at[c] = "none"

LEMMA CloseSlotCleans ==
    ASSUME ClientsInv, NEW t \in Client, CloseSlot(t), at'[t] = "none"
    PROVE  CleanSlot(t)'
<1>1. SlotTypes
    BY TypesSplit DEF ClientsInv
<1>2. /\ sock'[t] = <<>> /\ input'[t] = <<>> /\ blocked_request'[t] = <<>>
      /\ ~partial'[t] /\ ~blocking'[t]
    BY <1>1 DEF CloseSlot, SlotTypes
<1> QED
    BY <1>2 DEF CleanSlot

(* A slot is as clean as it was when its frame only moves, and stays in an *)
(* open slot.                                                              *)
SameSlot(d) ==
    /\ open'[d] = open[d] /\ partial'[d] = partial[d] /\ sock'[d] = sock[d]
    /\ input'[d] = input[d] /\ blocked_request'[d] = blocked_request[d]
    /\ blocking'[d] = blocking[d]

LEMMA SameSlotCleans ==
    ASSUME ClientsInv, NEW d \in Client, SameSlot(d),
           at'[d] = at[d] \/ (open[d] /\ ~blocking[d])
    PROVE  CleanSlot(d)'
BY DEF ClientsInv, SlotsAreClean, CleanSlot, SameSlot

LEMMA CloseSlotLeaves ==
    ASSUME ClientsInv, NEW t \in Client, CloseSlot(t), NEW d \in Client, d # t
    PROVE  SameSlot(d)
<1>1. SlotTypes
    BY TypesSplit DEF ClientsInv
<1> QED
    BY <1>1 DEF CloseSlot, SlotTypes, SameSlot

LEMMA NextClean ==
    ASSUME ClientsInv, Step
    PROVE  SlotsAreClean'
<1> SUFFICES ASSUME NEW d \in Client PROVE CleanSlot(d)'
    BY DEF SlotsAreClean, CleanSlot
<1>0. /\ SlotTypes /\ CleanSlot(d) /\ at \in [Client -> Place]
    BY TypesSplit, FrameTypes DEF ClientsInv, SlotsAreClean, CleanSlot
<1>1. ASSUME NEW c \in Client, MovesFrame(c),
             VisitBuffered(c) \/ Readable(c) \/ Writable(c) \/ WaitForInput(c)
      PROVE  CleanSlot(d)'
  <2>1. open[c] /\ ~blocking[c]
      BY <1>1, FrameTypes DEF VisitBuffered, Readable, Writable, WaitForInput, PendingWrite
  <2>2. SameSlot(d)
      BY <1>1 DEF MovesFrame, SameSlot, connection, buffers, block
  <2>3. d # c => at'[d] = at[d]
      BY <1>0, <1>1 DEF MovesFrame
  <2> QED
      BY <2>1, <2>2, <2>3, SameSlotCleans
<1>2. ASSUME NEW c \in Client, Closes(c) PROVE CleanSlot(d)'
  <2>1. CloseSlot(c) /\ at' = [at EXCEPT ![c] = "none"]
      BY <1>2 DEF Closes, Close
  <2> QED
      BY <1>0, <2>1, CloseSlotCleans, CloseSlotLeaves, SameSlotCleans
<1>3. ASSUME NEW c \in Client, GoesBack(c) PROVE CleanSlot(d)'
  <2>1. CASE d = c
    <3>1. open'[c] /\ blocked_request'[c] = <<>> /\ ~blocking'[c]
        BY <1>0, <1>3 DEF GoesBack, connection, SlotTypes
    <3> QED
        BY <2>1, <3>1 DEF CleanSlot
  <2>2. CASE d # c
    <3>1. SameSlot(d) /\ at'[d] = at[d]
        BY <1>0, <1>3, <2>2 DEF GoesBack, SameSlot, connection, SlotTypes
    <3> QED
        BY <3>1, SameSlotCleans
  <2> QED
      BY <2>1, <2>2
<1>4. ASSUME NEW c \in Client, Accept(c) PROVE CleanSlot(d)'
  <2>1. /\ UNCHANGED <<sock, input, partial, blocked_request, blocking, at>>
        /\ open' = [open EXCEPT ![c] = TRUE] /\ ~open[c]
      BY <1>4 DEF Accept, buffers, block
  <2>2. open'[d] \/ open'[d] = open[d]
      BY <1>0, <2>1 DEF SlotTypes
  <2> QED
      BY <1>0, <2>1, <2>2 DEF CleanSlot
<1>5. ASSUME NEW c \in Client, Read(c) PROVE CleanSlot(d)'
  <2>1. /\ open' = open /\ blocked_request' = blocked_request /\ blocking' = blocking
        /\ at' = [at EXCEPT ![c] = Enter(c, input'[c])] /\ at[c] # "none"
        /\ d # c => input'[d] = input[d] /\ partial'[d] = partial[d] /\ sock'[d] = sock[d]
      BY <1>0, <1>5 DEF Read, AtRead, block, SlotTypes
  <2>2. CASE d = c
    <3>1. open[c] /\ ~blocking[c]
        BY <2>1, FrameTypes
    <3> QED
        BY <1>0, <2>1, <2>2, <3>1 DEF CleanSlot
  <2>3. CASE d # c
    <3>1. SameSlot(d) /\ at'[d] = at[d]
        BY <1>0, <2>1, <2>3 DEF SameSlot
    <3> QED
        BY <3>1, SameSlotCleans
  <2> QED
      BY <2>2, <2>3
<1>6. ASSUME NEW c \in Client, Block(c) PROVE CleanSlot(d)'
  <2>1. /\ done + 1 \in 0..Len(input[c]) /\ done \in Nat /\ input[c] \in Seq(Request)
      BY <1>6, CurrentTypes, QueueTypes DEF Block, ClientsInv
  <2>2. SubSeq(input[c], 1, done + 1) # <<>>
    <3>1. Len(SubSeq(input[c], 1, done + 1)) = done + 1
        BY <2>1, TakeAndDrop
    <3> QED
        BY <2>1, <3>1, EmptyQueue
  <2>3. /\ open' = open /\ sock' = sock /\ partial' = partial
        /\ blocking' = [blocking EXCEPT ![c] = TRUE]
        /\ blocked_request' = [blocked_request EXCEPT ![c] = SubSeq(input[c], 1, done + 1)]
        /\ at' = [at EXCEPT ![c] = "none"] /\ at[c] = "inner"
        /\ d # c => input'[d] = input[d]
      BY <1>0, <1>6 DEF Block, Executes, ShiftInput, connection, SlotTypes
  <2>4. CASE d = c
    <3>1. open[c]
        BY <2>3, FrameTypes
    <3>2. blocking'[c] /\ blocked_request'[c] # <<>> /\ at'[c] = "none"
        BY <1>0, <2>2, <2>3 DEF SlotTypes
    <3> QED
        BY <2>3, <2>4, <3>1, <3>2 DEF CleanSlot
  <2>5. CASE d # c
    <3>1. SameSlot(d) /\ at'[d] = at[d]
        BY <1>0, <2>3, <2>5 DEF SameSlot, SlotTypes
    <3> QED
        BY <3>1, SameSlotCleans
  <2> QED
      BY <2>4, <2>5
<1>7. ASSUME NEW c \in Client, ExecuteInBatch(c) \/ PeerGoes(c) \/ DeadlinePasses(c) PROVE CleanSlot(d)'
  <2>1. SameSlot(d) /\ at'[d] = at[d]
      BY <1>7 DEF ExecuteInBatch, PeerGoes, DeadlinePasses, SameSlot, connection, buffers, block
  <2> QED
      BY <2>1, SameSlotCleans
<1>8. ASSUME NEW c \in Client, ExecuteLast(c) PROVE CleanSlot(d)'
  <2>1. /\ UNCHANGED <<open, sock, partial, blocked_request, blocking>>
        /\ at[c] = "inner"
        /\ d # c => at'[d] = at[d] /\ input'[d] = input[d]
      BY <1>0, <1>8 DEF ExecuteLast, Executes, ShiftInput, connection, SlotTypes
  <2>2. CASE d = c
    <3>1. open[c] /\ ~blocking[c]
        BY <2>1, FrameTypes
    <3> QED
        BY <1>0, <2>1, <2>2, <3>1 DEF CleanSlot
  <2>3. CASE d # c
      BY <2>1, <2>3, SameSlotCleans DEF SameSlot
  <2> QED
      BY <2>2, <2>3
<1>9. ASSUME NEW c \in Client, ActUnpause(c) \/ ActPause(c) \/ Reply(c) PROVE CleanSlot(d)'
  <2>1. SameSlot(d) /\ at[c] # "none"
      BY <1>9 DEF ActUnpause, ActPause, Reply, SameSlot, connection, buffers, block
  <2>2. d # c => at'[d] = at[d]
      BY <1>0, <1>9 DEF ActUnpause, ActPause, Reply
  <2> QED
      BY <2>1, <2>2, FrameTypes, SameSlotCleans
<1>10. ASSUME NEW c \in Client, ActKill(c) PROVE CleanSlot(d)'
  <2>1. at[c] = "acting" /\ acting.to \in Client
      BY <1>10, TargetTypes DEF ActKill, TargetOps
  <2>2. CASE acting.to = c
    <3>1. SameSlot(d) /\ at' = [at EXCEPT ![c] = "replying"]
        BY <1>10, <2>2 DEF ActKill, SameSlot, connection, buffers, block
    <3> QED
        BY <1>0, <2>1, <3>1, FrameTypes, SameSlotCleans
  <2>3. CASE acting.to # c
    <3>1. CloseSlot(acting.to) /\ at' = [at EXCEPT ![c] = "replying", ![acting.to] = "none"]
        BY <1>10, <2>3 DEF ActKill
    <3>2. CASE d = acting.to
        BY <1>0, <2>1, <3>1, <3>2, CloseSlotCleans
    <3>3. CASE d # acting.to
        BY <1>0, <2>1, <2>3, <3>1, <3>3, FrameTypes, CloseSlotLeaves, SameSlotCleans
    <3> QED
        BY <3>2, <3>3
  <2> QED
      BY <2>2, <2>3
<1>11. ASSUME NEW c \in Client, ActUnblock(c) PROVE CleanSlot(d)'
  <2>1. at[c] = "acting" /\ acting.to \in Client /\ at' = [at EXCEPT ![c] = "replying"]
      BY <1>11, TargetTypes DEF ActUnblock, TargetOps
  <2>2. UNCHANGED <<open, sock, input, partial>>
      BY <1>11 DEF ActUnblock, connection
  <2>3. CASE IsBlocked(acting.to) /\ d = acting.to
    <3>1. ~blocking'[d] /\ blocked_request'[d] = <<>>
        BY <1>0, <1>11, <2>3 DEF ActUnblock, SlotTypes
    <3>2. at[d] = "none" /\ d # c
        BY <2>1, <2>3, FrameTypes
    <3> QED
        BY <1>0, <2>1, <2>2, <3>1, <3>2 DEF CleanSlot
  <2>4. CASE ~(IsBlocked(acting.to) /\ d = acting.to)
    <3>1. blocking'[d] = blocking[d] /\ blocked_request'[d] = blocked_request[d]
      <4>1. CASE IsBlocked(acting.to)
          BY <1>0, <1>11, <2>4, <4>1 DEF ActUnblock, SlotTypes
      <4>2. CASE ~IsBlocked(acting.to)
          BY <1>11, <4>2 DEF ActUnblock, block
      <4> QED
          BY <4>1, <4>2
    <3> QED
        BY <1>0, <2>1, <2>2, <3>1, FrameTypes, SameSlotCleans DEF SameSlot
  <2> QED
      BY <2>3, <2>4
<1>12. ASSUME NEW c \in Client, ActUnblockFails(c) PROVE CleanSlot(d)'
  <2>1. /\ at[c] = "acting" /\ acting.to \in Client /\ at' = [at EXCEPT ![c] = "replying"]
        /\ CloseSlot(acting.to) /\ IsBlocked(acting.to)
      BY <1>12, TargetTypes DEF ActUnblockFails, TargetOps
  <2>2. at[acting.to] = "none" /\ acting.to # c
      BY <2>1, FrameTypes
  <2>3. CASE d = acting.to
      BY <1>0, <2>1, <2>2, <2>3, CloseSlotCleans
  <2>4. CASE d # acting.to
      BY <1>0, <2>1, <2>4, FrameTypes, CloseSlotLeaves, SameSlotCleans
  <2> QED
      BY <2>3, <2>4
<1>13. ASSUME NEW c \in Client, NEW op \in Ops, NEW to \in Client \cup {NoClient},
              SendRequest(c, op, to)
       PROVE  CleanSlot(d)'
  <2>1. /\ UNCHANGED <<open, input, partial, blocked_request, blocking, at>> /\ open[c]
        /\ d # c => sock'[d] = sock[d]
      BY <1>0, <1>13 DEF SendRequest, buffers, block, SlotTypes
  <2> QED
      BY <1>0, <2>1 DEF CleanSlot
<1>14. ASSUME PauseEnds \/ UNCHANGED vars PROVE CleanSlot(d)'
  <2>1. SameSlot(d) /\ at'[d] = at[d]
      BY <1>14 DEF PauseEnds, vars, SameSlot, connection, buffers, block
  <2> QED
      BY <2>1, SameSlotCleans
<1> QED
    BY <1>1, <1>2, <1>3, <1>4, <1>5, <1>6, <1>7, <1>8, <1>9, <1>10, <1>11, <1>12,
       <1>13, <1>14 DEF Step

-----------------------------------------------------------------------------
(* The calls. *)
LEMMA ClearCall ==
    ASSUME done' = 0, acting' = NoRequest, ~unpausing'
    PROVE  CallsAreInOrder'
BY DEF CallsAreInOrder

LEMMA IdleIsClear ==
    ASSUME ClientsInv, Idle
    PROVE  done = 0 /\ acting = NoRequest /\ ~unpausing
BY DEF ClientsInv, CallsAreInOrder

(* A frame that has used up its input has nothing open either.             *)
LEMMA EmptyIsClear ==
    ASSUME ClientsInv, NEW c \in Client, at[c] = "inner", input[c] = <<>>
    PROVE  done = 0 /\ acting = NoRequest /\ ~unpausing
<1>1. done \in Nat /\ Len(input[c]) = 0
    BY EmptyQueue DEF ClientsInv, TypeOK
<1>2. /\ acting = NoRequest /\ (done = 0 => ~unpausing)
      /\ (done # 0 => done < Len(input[c]))
    BY DEF ClientsInv, CallsAreInOrder
<1> QED
    BY <1>1, <1>2

LEMMA NextInCall ==
    ASSUME ClientsInv, Step
    PROVE  CallsAreInOrder'
<1>0. at \in [Client -> Place] /\ answered \in [Client -> Nat] /\ done \in Nat
    BY DEF ClientsInv, TypeOK
<1>1. ASSUME NEW c \in Client, MovesFrame(c),
             VisitBuffered(c) \/ Readable(c) \/ Writable(c) \/ WaitForInput(c)
      PROVE  CallsAreInOrder'
  <2>1. UNCHANGED <<done, acting, unpausing>>
      BY <1>1 DEF MovesFrame, call
  <2>2. Idle \/ (at[c] = "inner" /\ input[c] = <<>>)
      BY <1>1 DEF VisitBuffered, Readable, Writable, WaitForInput
  <2>3. done = 0 /\ acting = NoRequest /\ ~unpausing
      BY <2>2, IdleIsClear, EmptyIsClear
  <2> QED
      BY <2>1, <2>3, ClearCall
<1>2. ASSUME NEW c \in Client, Closes(c) \/ Block(c) \/ Reply(c) PROVE CallsAreInOrder'
    BY <1>2, ClearCall DEF Closes, Close, Block, Reply, EndCall
<1>3. ASSUME NEW c \in Client, GoesBack(c) \/ Accept(c) \/ PeerGoes(c) \/ DeadlinePasses(c)
      PROVE  CallsAreInOrder'
  <2>1. UNCHANGED <<done, acting, unpausing>> /\ Idle
      BY <1>3 DEF GoesBack, Accept, PeerGoes, DeadlinePasses, call
  <2> QED
      BY <2>1, IdleIsClear, ClearCall
<1>4. ASSUME NEW c \in Client, Read(c) PROVE CallsAreInOrder'
  <2>1. UNCHANGED <<done, acting, unpausing>>
      BY <1>4 DEF Read, call
  <2>2. Idle \/ (at[c] = "inner" /\ input[c] = <<>>)
      BY <1>4 DEF Read, AtRead
  <2> QED
      BY <2>1, <2>2, IdleIsClear, EmptyIsClear, ClearCall
<1>5. ASSUME NEW c \in Client, ExecuteInBatch(c) PROVE CallsAreInOrder'
  <2>1. /\ at' = at /\ at[c] = "inner" /\ acting' = acting /\ input' = input
        /\ done' = done + 1 /\ done + 1 < Len(input[c])
      BY <1>5 DEF ExecuteInBatch, Executes, buffers
  <2>2. c \in Running /\ acting = NoRequest
      BY <2>1, FrameTypes DEF ClientsInv, CallsAreInOrder
  <2>3. ~Idle'
      BY <2>1, <2>2 DEF Idle, Running
  <2>4. \A d \in Client : d # c => at'[d] # "inner"
      BY <2>1, <2>2, FrameTypes
  <2> QED
      BY <1>0, <2>1, <2>2, <2>3, <2>4 DEF CallsAreInOrder
<1>6. ASSUME NEW c \in Client, ExecuteLast(c) PROVE CallsAreInOrder'
  <2>1. /\ at[c] = "inner" /\ done' = done /\ open' = open
        /\ answered' = [answered EXCEPT ![c] = @ + done + 1]
        /\ acting' = IF EndsBatch(Current(c)) THEN Current(c) ELSE NoRequest
        /\ \E p \in {"acting", "replying"} : at' = [at EXCEPT ![c] = p]
      BY <1>6 DEF ExecuteLast, Executes, connection
  <2>2. at'[c] \in {"acting", "replying"} /\ \A d \in Client : d # c => at'[d] = at[d]
      BY <1>0, <2>1
  <2>3. ~Idle'
      BY <2>2 DEF Idle, Running
  <2>4. \A d \in Client : d # c => at'[d] \notin {"inner", "acting"}
      BY <2>1, <2>2, FrameTypes
  <2>5. done' < answered'[c]
    <3>1. answered'[c] = answered[c] + done + 1 /\ answered[c] \in Nat
        BY <1>0, <2>1
    <3> QED
        BY <1>0, <2>1, <3>1
  <2>6. acting' # NoRequest =>
          /\ acting'.op \in TargetOps \cup {"pause", "pause_write"}
          /\ acting'.op \in TargetOps => open'[acting'.to]
      BY <2>1 DEF EndsBatch, TargetOps
  <2> QED
      BY <2>2, <2>3, <2>4, <2>5, <2>6 DEF CallsAreInOrder
<1>7. ASSUME NEW c \in Client,
             ActUnpause(c) \/ ActPause(c) \/ ActKill(c) \/ ActUnblock(c) \/ ActUnblockFails(c)
      PROVE  CallsAreInOrder'
  <2>1. at[c] = "acting" /\ at'[c] = "replying"
    <3>1. CASE ActUnpause(c) \/ ActPause(c) \/ ActUnblock(c) \/ ActUnblockFails(c)
        BY <1>0, <3>1 DEF ActUnpause, ActPause, ActUnblock, ActUnblockFails
    <3>2. CASE ActKill(c)
        BY <1>0, <3>2 DEF ActKill
    <3> QED
        BY <1>7, <3>1, <3>2
  <2>2. \A d \in Client : d # c => at'[d] \in {at[d], "none"}
    <3>1. CASE ActUnpause(c) \/ ActPause(c) \/ ActUnblock(c) \/ ActUnblockFails(c)
        BY <1>0, <3>1 DEF ActUnpause, ActPause, ActUnblock, ActUnblockFails
    <3>2. CASE ActKill(c)
        BY <1>0, <3>2 DEF ActKill
    <3> QED
        BY <1>7, <3>1, <3>2
  <2>3. ~Idle'
      BY <2>1 DEF Idle, Running
  <2>4. \A d \in Client : at'[d] \notin {"inner", "acting"}
      BY <2>1, <2>2, FrameTypes
  <2> QED
      BY <2>3, <2>4 DEF CallsAreInOrder
<1>8. ASSUME NEW c \in Client, NEW op \in Ops, NEW to \in Client \cup {NoClient},
             SendRequest(c, op, to)
      PROVE  CallsAreInOrder'
  <2>1. UNCHANGED <<done, acting, unpausing>> /\ Idle
      BY <1>8 DEF SendRequest, call
  <2> QED
      BY <2>1, IdleIsClear, ClearCall
<1>9. ASSUME PauseEnds PROVE CallsAreInOrder'
  <2>1. UNCHANGED <<done, acting, unpausing>> /\ Idle
      BY <1>9 DEF PauseEnds, call
  <2> QED
      BY <2>1, IdleIsClear, ClearCall
<1>10. CASE UNCHANGED vars
    BY <1>10 DEF vars, connection, buffers, call, history, ClientsInv, CallsAreInOrder, Idle, Running
<1> QED
    BY <1>1, <1>2, <1>3, <1>4, <1>5, <1>6, <1>7, <1>8, <1>9, <1>10 DEF Step

-----------------------------------------------------------------------------
(* The counters. *)
Opened == {c \in Client : open[c]}
Blocked == {c \in Client : IsBlocked(c)}
Buffered == {c \in Client : HasInput(c)}

LEMMA SetsAreFinite ==
    ASSUME NEW S, S \subseteq Client
    PROVE  IsFiniteSet(S) /\ Cardinality(S) \in Nat
BY ClientsAssumption, FS_Subset, FS_CardinalityType

LEMMA OneMore ==
    ASSUME NEW S, S \subseteq Client, NEW c \in Client, c \notin S
    PROVE  Cardinality(S \cup {c}) = Cardinality(S) + 1
BY SetsAreFinite, FS_AddElement

LEMMA OneLess ==
    ASSUME NEW S, S \subseteq Client, NEW c \in S
    PROVE  Cardinality(S \ {c}) = Less(Cardinality(S))
<1> DEFINE T == S \ {c}
<1>1. T \subseteq Client /\ c \notin T /\ c \in Client /\ S = T \cup {c}
    OBVIOUS
<1>2. Cardinality(T) \in Nat
    BY <1>1, SetsAreFinite
<1>3. Cardinality(S) = Cardinality(T) + 1
  <2> HIDE DEF T
  <2> QED
      BY <1>1, OneMore
<1> QED
    BY <1>2, <1>3 DEF Less

LEMMA Counts ==
    ASSUME ClientsInv
    PROVE  /\ active_clients = Cardinality(Opened)
           /\ blocked_clients = Cardinality(Blocked)
           /\ buffered_clients = Cardinality(Buffered)
           /\ Opened \subseteq Client /\ Blocked \subseteq Client /\ Buffered \subseteq Client
BY DEF ClientsInv, CountersAgree, Opened, Blocked, Buffered

LEMMA CountsNext ==
    ASSUME active_clients' = Cardinality(Opened'),
           blocked_clients' = Cardinality(Blocked'),
           buffered_clients' = Cardinality(Buffered')
    PROVE  CountersAgree'
BY DEF CountersAgree, Opened, Blocked, Buffered

LEMMA SameCounts ==
    ASSUME ClientsInv, UNCHANGED <<open, blocking, blocked_request, input, partial>>,
           UNCHANGED counters
    PROVE  CountersAgree'
BY Counts, CountsNext DEF counters, Opened, Blocked, Buffered, IsBlocked, HasInput

LEMMA CloseSlotCounts ==
    ASSUME ClientsInv, NEW t \in Client, open[t], CloseSlot(t)
    PROVE  CountersAgree'
<1>0. SlotTypes
    BY TypesSplit DEF ClientsInv
<1>1. Opened' = Opened \ {t} /\ t \in Opened
    BY <1>0 DEF CloseSlot, Opened, SlotTypes
<1>2. Blocked' = Blocked \ {t}
    BY <1>0 DEF CloseSlot, Blocked, IsBlocked, SlotTypes
<1>3. Buffered' = Buffered \ {t}
    BY <1>0 DEF CloseSlot, Buffered, HasInput, SlotTypes
<1>4. active_clients' = Cardinality(Opened')
    BY <1>1, Counts, OneLess DEF CloseSlot
<1>5. blocked_clients' = Cardinality(Blocked')
  <2>1. CASE IsBlocked(t)
    <3>1. t \in Blocked /\ blocked_clients' = Less(blocked_clients)
        BY <2>1 DEF Blocked, CloseSlot
    <3> QED
        BY <1>2, <3>1, Counts, OneLess
  <2>2. CASE ~IsBlocked(t)
    <3>1. Blocked' = Blocked /\ blocked_clients' = blocked_clients
        BY <1>2, <2>2 DEF Blocked, CloseSlot
    <3> QED
        BY <3>1, Counts
  <2> QED
      BY <2>1, <2>2
<1>6. buffered_clients' = Cardinality(Buffered')
  <2>1. CASE HasInput(t)
    <3>1. t \in Buffered /\ buffered_clients' = Less(buffered_clients)
        BY <2>1 DEF Buffered, CloseSlot
    <3> QED
        BY <1>3, <3>1, Counts, OneLess
  <2>2. CASE ~HasInput(t)
    <3>1. Buffered' = Buffered /\ buffered_clients' = buffered_clients
        BY <1>3, <2>2 DEF Buffered, CloseSlot
    <3> QED
        BY <3>1, Counts
  <2> QED
      BY <2>1, <2>2
<1> QED
    BY <1>4, <1>5, <1>6, CountsNext

(* A slot that has input after the step is counted once.                   *)
LEMMA GainsInput ==
    ASSUME ClientsInv, NEW c \in Client,
           buffered_clients' = IF HasInput(c) THEN buffered_clients ELSE buffered_clients + 1,
           HasInput(c)', \A d \in Client : d # c => HasInput(d)' = HasInput(d)
    PROVE  buffered_clients' = Cardinality(Buffered')
<1>1. Buffered' = Buffered \cup {c}
    BY DEF Buffered
<1>2. CASE HasInput(c)
  <2>1. Buffered' = Buffered /\ buffered_clients' = buffered_clients
      BY <1>1, <1>2 DEF Buffered
  <2> QED
      BY <2>1, Counts
<1>3. CASE ~HasInput(c)
  <2>1. c \notin Buffered /\ buffered_clients' = buffered_clients + 1
      BY <1>3 DEF Buffered
  <2> QED
      BY <1>1, <2>1, Counts, OneMore
<1> QED
    BY <1>2, <1>3

(* What a call consumes: a slot that is used up is no longer counted.      *)
LEMMA ShiftCounts ==
    ASSUME ClientsInv, NEW c \in Client, NEW n \in 0..Len(input[c]), ShiftInput(c, n),
           input[c] # <<>>, partial' = partial
    PROVE  buffered_clients' = Cardinality(Buffered')
<1>1. /\ input'[c] = Drop(input[c], n) /\ Len(input'[c]) = Len(input[c]) - n
      /\ \A d \in Client : d # c => input'[d] = input[d]
      /\ input'[c] \in Seq(Request) /\ input[c] \in Seq(Request)
    BY ShiftTypes DEF ClientsInv, TypeOK
<1>2. Len(input[c]) \in Nat /\ (input'[c] = <<>> <=> n = Len(input[c]))
    BY <1>1, QueueTypes
<1>3. c \in Buffered /\ \A d \in Client : d # c => HasInput(d)' = HasInput(d)
    BY <1>1 DEF Buffered, HasInput
<1>4. CASE n = Len(input[c]) /\ ~partial[c]
  <2>1. Buffered' = Buffered \ {c}
      BY <1>2, <1>3, <1>4 DEF Buffered, HasInput
  <2>2. buffered_clients' = Less(buffered_clients)
      BY <1>4 DEF ShiftInput
  <2> QED
      BY <1>3, <2>1, <2>2, Counts, OneLess
<1>5. CASE ~(n = Len(input[c]) /\ ~partial[c])
  <2>1. Buffered' = Buffered
      BY <1>2, <1>3, <1>5 DEF Buffered, HasInput
  <2>2. buffered_clients' = buffered_clients
      BY <1>5 DEF ShiftInput
  <2> QED
      BY <2>1, <2>2, Counts
<1> QED
    BY <1>4, <1>5

LEMMA NextCounts ==
    ASSUME ClientsInv, Step
    PROVE  CountersAgree'
<1>0. SlotTypes
    BY TypesSplit DEF ClientsInv
<1>1. ASSUME NEW c \in Client, MovesFrame(c) PROVE CountersAgree'
    BY <1>1, SameCounts DEF MovesFrame, connection, buffers, block
<1>2. ASSUME NEW c \in Client, Closes(c) PROVE CountersAgree'
    BY <1>2, CloseSlotCounts DEF Closes, Close
<1>3. ASSUME NEW c \in Client, GoesBack(c) PROVE CountersAgree'
  <2>1. /\ open' = open /\ active_clients' = active_clients
        /\ blocked_clients' = Less(blocked_clients) /\ IsBlocked(c)
        /\ buffered_clients' = IF HasInput(c) THEN buffered_clients ELSE buffered_clients + 1
      BY <1>3 DEF GoesBack, connection
  <2>2. Blocked' = Blocked \ {c} /\ c \in Blocked
      BY <1>0, <1>3 DEF GoesBack, Blocked, IsBlocked, SlotTypes
  <2>3. HasInput(c)'
    <3>1. blocked_request[c] # <<>> /\ blocked_request[c] \in Seq(Request) /\ input[c] \in Seq(Request)
        BY <1>0, <2>1 DEF IsBlocked, SlotTypes
    <3>2. input'[c] = blocked_request[c] \o input[c]
        BY <1>0, <1>3 DEF GoesBack, SlotTypes
    <3>3. input'[c] # <<>>
        BY <3>1, <3>2, QueueConcat, QueueTypes, EmptyQueue
    <3> QED
        BY <3>3 DEF HasInput
  <2>4. \A d \in Client : d # c => HasInput(d)' = HasInput(d)
      BY <1>0, <1>3 DEF GoesBack, HasInput, SlotTypes
  <2>5. buffered_clients' = Cardinality(Buffered')
      BY <2>1, <2>3, <2>4, GainsInput
  <2>6. blocked_clients' = Cardinality(Blocked')
      BY <2>1, <2>2, Counts, OneLess
  <2>7. active_clients' = Cardinality(Opened')
      BY <2>1, Counts DEF Opened
  <2> QED
      BY <2>5, <2>6, <2>7, CountsNext
<1>4. ASSUME NEW c \in Client, Accept(c) PROVE CountersAgree'
  <2>1. /\ active_clients' = active_clients + 1 /\ blocked_clients' = blocked_clients
        /\ buffered_clients' = buffered_clients
        /\ UNCHANGED <<input, partial, blocked_request, blocking>>
      BY <1>4 DEF Accept, buffers, block
  <2>2. Opened' = Opened \cup {c} /\ c \notin Opened
      BY <1>0, <1>4 DEF Accept, Opened, SlotTypes
  <2>3. Blocked' = Blocked /\ Buffered' = Buffered
      BY <2>1 DEF Blocked, Buffered, IsBlocked, HasInput
  <2> QED
      BY <2>1, <2>2, <2>3, Counts, OneMore, CountsNext
<1>5. ASSUME NEW c \in Client, Read(c) PROVE CountersAgree'
  <2>1. /\ UNCHANGED <<open, blocking, blocked_request, active_clients, blocked_clients>>
        /\ buffered_clients' = IF HasInput(c) THEN buffered_clients ELSE buffered_clients + 1
      BY <1>5 DEF Read, block
  <2>2. PICK n \in 0..InputCap, more \in BOOLEAN :
          /\ n > 0 \/ (more /\ ~partial[c])
          /\ (IF more THEN n + 1 ELSE n) <= Len(sock[c])
          /\ input' = [input EXCEPT ![c] = SubSeq(sock[c], 1, n)]
          /\ partial' = [partial EXCEPT ![c] = more]
      BY <1>5 DEF Read
  <2>3. HasInput(c)'
    <3>1. CASE more
        BY <1>0, <2>2, <3>1 DEF HasInput, SlotTypes
    <3>2. CASE ~more
      <4>1. sock[c] \in Seq(Request) /\ Len(sock[c]) \in Nat /\ n \in Nat /\ n > 0
          BY <1>0, <2>2, <3>2, QueueTypes, ClientsAssumption DEF SlotTypes
      <4>2. n \in 0..Len(sock[c])
          BY <2>2, <3>2, <4>1
      <4>3. SubSeq(sock[c], 1, n) # <<>>
        <5>1. Len(SubSeq(sock[c], 1, n)) = n
            BY <4>1, <4>2, TakeAndDrop
        <5>2. n # 0
            BY <4>1
        <5> QED
            BY <5>1, <5>2, EmptyQueue
      <4> QED
          BY <1>0, <2>2, <4>3 DEF HasInput, SlotTypes
    <3> QED
        BY <3>1, <3>2
  <2>4. \A d \in Client : d # c => HasInput(d)' = HasInput(d)
      BY <1>0, <2>2 DEF HasInput, SlotTypes
  <2>5. buffered_clients' = Cardinality(Buffered')
      BY <2>1, <2>3, <2>4, GainsInput
  <2>6. Blocked' = Blocked /\ Opened' = Opened
      BY <2>1 DEF Blocked, Opened, IsBlocked
  <2> QED
      BY <2>1, <2>5, <2>6, Counts, CountsNext
<1>6. ASSUME NEW c \in Client, Block(c) PROVE CountersAgree'
  <2>1. /\ open' = open /\ active_clients' = active_clients /\ partial' = partial
        /\ blocked_clients' = blocked_clients + 1 /\ ShiftInput(c, done + 1)
      BY <1>6 DEF Block, connection
  <2>2. /\ done + 1 \in 0..Len(input[c]) /\ input[c] # <<>> /\ at[c] = "inner"
        /\ done \in Nat /\ input[c] \in Seq(Request)
      BY <1>6, CurrentTypes, QueueTypes DEF Block, ClientsInv
  <2>3. buffered_clients' = Cardinality(Buffered')
      BY <2>1, <2>2, ShiftCounts
  <2>4. SubSeq(input[c], 1, done + 1) # <<>>
    <3>1. Len(SubSeq(input[c], 1, done + 1)) = done + 1
        BY <2>2, TakeAndDrop
    <3> QED
        BY <2>2, <3>1, EmptyQueue
  <2>5. c \notin Blocked
      BY <2>2, FrameTypes DEF Blocked
  <2>6. Blocked' = Blocked \cup {c}
      BY <1>0, <1>6, <2>4 DEF Block, Blocked, IsBlocked, SlotTypes
  <2>7. Opened' = Opened
      BY <2>1 DEF Opened
  <2> QED
      BY <2>1, <2>3, <2>5, <2>6, <2>7, Counts, OneMore, CountsNext
<1>7. ASSUME NEW c \in Client, ExecuteInBatch(c) \/ ActUnpause(c) \/ ActPause(c) \/ Reply(c)
      PROVE  CountersAgree'
    BY <1>7, SameCounts DEF ExecuteInBatch, ActUnpause, ActPause, Reply, connection, buffers, block
<1>8. ASSUME NEW c \in Client, ExecuteLast(c) PROVE CountersAgree'
  <2>1. /\ UNCHANGED <<open, partial, blocked_request, blocking, active_clients, blocked_clients>>
        /\ ShiftInput(c, done + 1)
      BY <1>8 DEF ExecuteLast, connection
  <2>2. done + 1 \in 0..Len(input[c]) /\ input[c] # <<>>
      BY <1>8, CurrentTypes, QueueTypes DEF ExecuteLast, ClientsInv
  <2>3. buffered_clients' = Cardinality(Buffered')
      BY <2>1, <2>2, ShiftCounts
  <2>4. Blocked' = Blocked /\ Opened' = Opened
      BY <2>1 DEF Blocked, Opened, IsBlocked
  <2> QED
      BY <2>1, <2>3, <2>4, Counts, CountsNext
<1>9. ASSUME NEW c \in Client, ActKill(c) PROVE CountersAgree'
  <2>1. CASE acting.to = c
      BY <1>9, <2>1, SameCounts DEF ActKill, connection, buffers, block
  <2>2. CASE acting.to # c
      BY <1>9, <2>2, TargetTypes, CloseSlotCounts DEF ActKill, TargetOps
  <2> QED
      BY <2>1, <2>2
<1>10. ASSUME NEW c \in Client, ActUnblock(c) PROVE CountersAgree'
  <2> DEFINE t == acting.to
  <2>1. t \in Client
      BY <1>10, TargetTypes DEF ActUnblock, TargetOps
  <2>2. UNCHANGED <<open, input, partial, active_clients, buffered_clients>>
      BY <1>10 DEF ActUnblock, connection
  <2>3. CASE IsBlocked(t)
    <3>1. Blocked' = Blocked \ {t} /\ t \in Blocked
        BY <1>0, <1>10, <2>1, <2>3 DEF ActUnblock, Blocked, IsBlocked, SlotTypes
    <3>2. blocked_clients' = Less(blocked_clients)
        BY <1>10, <2>3 DEF ActUnblock
    <3>3. Opened' = Opened /\ Buffered' = Buffered
        BY <2>2 DEF Opened, Buffered, HasInput
    <3> QED
        BY <2>2, <3>1, <3>2, <3>3, Counts, OneLess, CountsNext
  <2>4. CASE ~IsBlocked(t)
    <3>1. UNCHANGED <<blocking, blocked_request, blocked_clients>>
        BY <1>10, <2>4 DEF ActUnblock, block
    <3> QED
        BY <2>2, <3>1, SameCounts DEF counters
  <2> QED
      BY <2>3, <2>4
<1>11. ASSUME NEW c \in Client, ActUnblockFails(c) PROVE CountersAgree'
    BY <1>11, TargetTypes, CloseSlotCounts DEF ActUnblockFails, TargetOps
<1>12. ASSUME NEW c \in Client, PeerGoes(c) \/ DeadlinePasses(c) PROVE CountersAgree'
    BY <1>12, SameCounts DEF PeerGoes, DeadlinePasses, connection, buffers, block
<1>13. ASSUME NEW c \in Client, NEW op \in Ops, NEW to \in Client \cup {NoClient},
              SendRequest(c, op, to)
       PROVE  CountersAgree'
    BY <1>13, SameCounts DEF SendRequest, buffers, block
<1>14. ASSUME PauseEnds \/ UNCHANGED vars PROVE CountersAgree'
    BY <1>14, SameCounts DEF PauseEnds, vars, connection, buffers, block
<1> QED
    BY <1>1, <1>2, <1>3, <1>4, <1>5, <1>6, <1>7, <1>8, <1>9, <1>10, <1>11, <1>12,
       <1>13, <1>14 DEF Step

-----------------------------------------------------------------------------
(* Whom a pause has to hold.                                               *)
HeldWaits(d) ==
    held[d] =>
       /\ pause # "none" /\ d # pause_owner
       /\ at[d] \in Place \ {"none", "reading"} => ~PauseBlocks(d, input[d])

OwnerIsOpen == pause_owner # NoClient => open[pause_owner]

LEMMA HeldSplit ==
    /\ HeldClientsWait <=> OwnerIsOpen /\ \A d \in Client : HeldWaits(d)
    /\ HeldClientsWait' <=> OwnerIsOpen' /\ \A d \in Client : HeldWaits(d)'
BY DEF HeldClientsWait, OwnerIsOpen, HeldWaits

(* A step that keeps the pause, or takes it from an owner that leaves, and *)
(* does not change a client's input, does not let the client in.           *)
LEMMA KeepsWaiting ==
    ASSUME ClientsInv, NEW d \in Client, held'[d] => held[d], pause' = pause,
           pause_owner' \in {pause_owner, NoClient}, input'[d] = input[d],
           at'[d] = at[d] \/ at[d] \in Place \ {"none", "reading"}
    PROVE  HeldWaits(d)'
<1>1. HeldWaits(d) /\ d # NoClient
    BY HeldSplit, ClientsAssumption DEF ClientsInv
<1> QED
    BY <1>1 DEF HeldWaits, PauseBlocks

(* A frame that the head of the loop lets in has nothing a pause is about. *)
LEMMA EntersUnpaused ==
    ASSUME ClientsInv, NEW c \in Client, NEW s, UNCHANGED pausing,
           at' = [at EXCEPT ![c] = Enter(c, s)], input'[c] = s
    PROVE  HeldWaits(c)'
<1>1. HeldWaits(c) /\ at'[c] = Enter(c, s)
    BY HeldSplit, FrameTypes DEF ClientsInv
<1> QED
    BY <1>1 DEF HeldWaits, PauseBlocks, Enter, pausing

LEMMA DropUnblocks ==
    ASSUME TypeOK, NEW c \in Client, NEW n \in 0..Len(input[c]), ~PauseBlocks(c, input[c])
    PROVE  ~PauseBlocks(c, Drop(input[c], n))
<1>1. input[c] \in Seq(Request)
    BY TypesSplit DEF SlotTypes
<1>2. /\ Drop(input[c], n) \in Seq(Request) /\ Len(input[c]) \in Nat
      /\ Len(Drop(input[c], n)) = Len(input[c]) - n
      /\ \A i \in 1..(Len(input[c]) - n) : Drop(input[c], n)[i] = input[c][n + i]
    BY <1>1, TakeAndDrop
<1>3. /\ DOMAIN input[c] = 1..Len(input[c])
      /\ DOMAIN Drop(input[c], n) = 1..(Len(input[c]) - n)
    BY <1>1, <1>2, QueueTypes
<1>4. \A i \in 1..(Len(input[c]) - n) : n + i \in 1..Len(input[c])
    BY <1>2
<1> QED
    BY <1>2, <1>3, <1>4 DEF PauseBlocks

LEMMA NextHeld ==
    ASSUME ClientsInv, Step
    PROVE  HeldClientsWait'
<1>0. /\ SlotTypes /\ OwnerIsOpen /\ \A d \in Client : HeldWaits(d)
      /\ at \in [Client -> Place] /\ held \in [Client -> BOOLEAN]
      /\ pause_owner \in Client \cup {NoClient} /\ NoClient \notin Client
    BY TypesSplit, HeldSplit, ClientsAssumption DEF ClientsInv, LoopTypes
<1> SUFFICES OwnerIsOpen' /\ \A d \in Client : HeldWaits(d)'
    BY HeldSplit
<1>1. ASSUME NEW c \in Client, MovesFrame(c),
             VisitBuffered(c) \/ Readable(c) \/ Writable(c) \/ WaitForInput(c)
      PROVE  OwnerIsOpen' /\ \A d \in Client : HeldWaits(d)'
  <2>1. OwnerIsOpen' /\ UNCHANGED <<pausing, input>>
      BY <1>0, <1>1 DEF MovesFrame, OwnerIsOpen, connection, buffers, pausing
  <2>2. \A d \in Client : d # c => HeldWaits(d)'
      BY <1>0, <1>1, <2>1, KeepsWaiting DEF MovesFrame, pausing
  <2>3. HeldWaits(c)'
    <3>1. CASE VisitBuffered(c) \/ Readable(c)
        BY <2>1, <3>1, EntersUnpaused DEF VisitBuffered, Readable
    <3>2. CASE Writable(c)
        BY <1>0, <2>1, <3>2, KeepsWaiting DEF Writable, PendingWrite, Place, pausing
    <3>3. CASE WaitForInput(c)
        BY <1>0, <2>1, <3>3 DEF WaitForInput, HeldWaits, pausing
    <3> QED
        BY <1>1, <3>1, <3>2, <3>3
  <2> QED
      BY <2>1, <2>2, <2>3
<1>2. ASSUME NEW c \in Client, Closes(c)
      PROVE  OwnerIsOpen' /\ \A d \in Client : HeldWaits(d)'
  <2>1. OwnerIsOpen'
      BY <1>0, <1>2 DEF Closes, Close, CloseSlot, Forget, OwnerIsOpen, SlotTypes
  <2>2. ASSUME NEW d \in Client, d # c PROVE HeldWaits(d)'
    <3>1. /\ held'[d] = held[d] /\ pause' = pause /\ pause_owner' \in {pause_owner, NoClient}
          /\ input'[d] = input[d] /\ at'[d] = at[d]
        BY <1>0, <1>2, <2>2 DEF Closes, Close, CloseSlot, Forget, SlotTypes
    <3> QED
        BY <3>1, KeepsWaiting
  <2>3. HeldWaits(c)'
      BY <1>0, <1>2 DEF Closes, Close, Forget, HeldWaits
  <2> QED
      BY <2>1, <2>2, <2>3
<1>3. ASSUME NEW c \in Client, GoesBack(c)
      PROVE  OwnerIsOpen' /\ \A d \in Client : HeldWaits(d)'
  <2>1. OwnerIsOpen' /\ UNCHANGED pausing
      BY <1>0, <1>3 DEF GoesBack, OwnerIsOpen, connection, pausing
  <2>2. \A d \in Client : d # c => HeldWaits(d)'
      BY <1>0, <1>3, <2>1, KeepsWaiting DEF GoesBack, pausing, SlotTypes
  <2>3. HeldWaits(c)'
      BY <1>3, <2>1, EntersUnpaused DEF GoesBack
  <2> QED
      BY <2>1, <2>2, <2>3
<1>4. ASSUME NEW c \in Client, Accept(c)
      PROVE  OwnerIsOpen' /\ \A d \in Client : HeldWaits(d)'
  <2>1. OwnerIsOpen' /\ pause' = pause /\ pause_owner' = pause_owner /\ UNCHANGED <<at, input>>
      BY <1>0, <1>4 DEF Accept, OwnerIsOpen, SlotTypes, buffers
  <2>2. \A d \in Client : d # c => HeldWaits(d)'
      BY <1>0, <1>4, <2>1, KeepsWaiting DEF Accept
  <2>3. HeldWaits(c)'
    <3>1. at[c] = "none" /\ c # pause_owner
        BY <1>0, <1>4 DEF Accept, OwnerIsOpen, ClientsInv, SlotsAreClean
    <3> QED
        BY <1>0, <1>4, <2>1, <3>1 DEF Accept, HeldWaits
  <2> QED
      BY <2>1, <2>2, <2>3
<1>5. ASSUME NEW c \in Client, Read(c)
      PROVE  OwnerIsOpen' /\ \A d \in Client : HeldWaits(d)'
  <2>1. OwnerIsOpen' /\ UNCHANGED pausing
      BY <1>0, <1>5 DEF Read, OwnerIsOpen, pausing
  <2>2. \A d \in Client : d # c => HeldWaits(d)'
      BY <1>0, <1>5, <2>1, KeepsWaiting DEF Read, pausing, SlotTypes
  <2>3. HeldWaits(c)'
      BY <1>5, <2>1, EntersUnpaused DEF Read
  <2> QED
      BY <2>1, <2>2, <2>3
<1>6. ASSUME NEW c \in Client, Block(c) \/ ExecuteLast(c)
      PROVE  OwnerIsOpen' /\ \A d \in Client : HeldWaits(d)'
  <2>1. OwnerIsOpen' /\ UNCHANGED pausing
      BY <1>0, <1>6 DEF Block, ExecuteLast, OwnerIsOpen, pausing, connection
  <2>2. \A d \in Client : d # c => HeldWaits(d)'
      BY <1>0, <1>6, <2>1, KeepsWaiting DEF Block, ExecuteLast, ShiftInput, pausing, SlotTypes
  <2>3. HeldWaits(c)'
    <3>1. CASE Block(c)
        BY <1>0, <2>1, <3>1 DEF Block, HeldWaits, pausing
    <3>2. CASE ExecuteLast(c)
      <4>1. at[c] = "inner" /\ done + 1 \in 0..Len(input[c]) /\ ShiftInput(c, done + 1)
          BY <3>2, CurrentTypes, QueueTypes DEF ExecuteLast, ClientsInv
      <4>2. input'[c] = Drop(input[c], done + 1)
          BY <4>1, ShiftTypes DEF ClientsInv
      <4>3. ~PauseBlocks(c, input[c]) => ~PauseBlocks(c, input'[c])
          BY <4>1, <4>2, DropUnblocks DEF ClientsInv
      <4> QED
          BY <1>0, <2>1, <4>1, <4>3 DEF HeldWaits, PauseBlocks, Place, pausing
    <3> QED
        BY <1>6, <3>1, <3>2
  <2> QED
      BY <2>1, <2>2, <2>3
<1>7. ASSUME NEW c \in Client, ExecuteInBatch(c) \/ Reply(c)
      PROVE  OwnerIsOpen' /\ \A d \in Client : HeldWaits(d)'
  <2>1. OwnerIsOpen' /\ UNCHANGED <<pausing, input>>
      BY <1>0, <1>7 DEF ExecuteInBatch, Reply, OwnerIsOpen, pausing, connection, buffers
  <2>2. \A d \in Client : at'[d] = at[d] \/ at[d] \in Place \ {"none", "reading"}
      BY <1>0, <1>7 DEF ExecuteInBatch, Reply, Place
  <2> QED
      BY <2>1, <2>2, KeepsWaiting DEF pausing
<1>8. ASSUME NEW c \in Client, at[c] = "acting", Unpause, UNCHANGED <<open, input>>,
             at' = [at EXCEPT ![c] = "replying"]
      PROVE  OwnerIsOpen' /\ \A d \in Client : HeldWaits(d)'
  <2>1. CASE unpausing
      BY <1>8, <2>1 DEF Unpause, OwnerIsOpen, HeldWaits
  <2>2. CASE ~unpausing
    <3>1. OwnerIsOpen' /\ UNCHANGED <<pausing, input>>
        BY <1>0, <1>8, <2>2 DEF Unpause, PauseAfterUnpause, OwnerIsOpen, pausing
    <3>2. \A d \in Client : at'[d] = at[d] \/ at[d] \in Place \ {"none", "reading"}
        BY <1>0, <1>8 DEF Place
    <3> QED
        BY <3>1, <3>2, KeepsWaiting DEF pausing
  <2> QED
      BY <2>1, <2>2
<1>9. ASSUME NEW c \in Client, ActUnpause(c) \/ ActUnblock(c)
      PROVE  OwnerIsOpen' /\ \A d \in Client : HeldWaits(d)'
    BY <1>8, <1>9 DEF ActUnpause, ActUnblock, connection, buffers
<1>10. ASSUME NEW c \in Client, ActPause(c)
       PROVE  OwnerIsOpen' /\ \A d \in Client : HeldWaits(d)'
  <2>1. open[c] /\ \A d \in Client : d # c => d \notin Running
      BY <1>10, FrameTypes DEF ActPause
  <2>2. OwnerIsOpen'
      BY <1>10, <2>1 DEF ActPause, OwnerIsOpen, connection
  <2>3. ASSUME NEW d \in Client, held'[d] PROVE HeldWaits(d)'
    <3>1. d # c /\ ~PendingWrite(d)
        BY <1>10, <2>3 DEF ActPause
    <3>2. at[d] \in {"none", "reading"} /\ at'[d] = at[d]
        BY <1>0, <1>10, <2>1, <3>1 DEF ActPause, Running, PendingWrite, Place
    <3>3. pause' # "none" /\ pause_owner' = c
        BY <1>10 DEF ActPause
    <3> QED
        BY <3>1, <3>2, <3>3 DEF HeldWaits
  <2> QED
      BY <2>2, <2>3 DEF HeldWaits
<1>11. ASSUME NEW c \in Client, NEW t \in Client, at[c] = "acting", CloseSlot(t),
              pause' = PauseAfterUnpause,
              pause_owner' = IF unpausing \/ pause_owner = t THEN NoClient ELSE pause_owner,
              held' = [d \in Client |-> held[d] /\ d # t /\ ~unpausing],
              \A d \in Client : d # t => at'[d] = at[d] \/ d = c
       PROVE  OwnerIsOpen' /\ \A d \in Client : HeldWaits(d)'
  <2>1. OwnerIsOpen'
      BY <1>0, <1>11 DEF OwnerIsOpen, CloseSlot, SlotTypes
  <2>2. ASSUME NEW d \in Client, held'[d] PROVE HeldWaits(d)'
    <3>1. held[d] /\ d # t /\ ~unpausing
        BY <1>11, <2>2
    <3>2. pause' = pause /\ pause_owner' \in {pause_owner, NoClient} /\ input'[d] = input[d]
        BY <1>0, <1>11, <3>1 DEF PauseAfterUnpause, CloseSlot, SlotTypes
    <3>3. at'[d] = at[d] \/ at[d] \in Place \ {"none", "reading"}
        BY <1>0, <1>11, <3>1 DEF Place
    <3> QED
        BY <3>1, <3>2, <3>3, KeepsWaiting
  <2> QED
      BY <2>1, <2>2 DEF HeldWaits
<1>12. ASSUME NEW c \in Client, ActKill(c)
       PROVE  OwnerIsOpen' /\ \A d \in Client : HeldWaits(d)'
  <2>1. CASE acting.to = c
      BY <1>8, <1>12, <2>1 DEF ActKill, connection, buffers
  <2>2. CASE acting.to # c
    <3>1. acting.to \in Client /\ at[c] = "acting"
        BY <1>12, TargetTypes DEF ActKill, TargetOps
    <3>2. /\ CloseSlot(acting.to) /\ pause' = PauseAfterUnpause
          /\ pause_owner' = IF unpausing \/ pause_owner = acting.to THEN NoClient ELSE pause_owner
          /\ held' = [d \in Client |-> held[d] /\ d # acting.to /\ ~unpausing]
          /\ at' = [at EXCEPT ![c] = "replying", ![acting.to] = "none"]
        BY <1>12, <2>2 DEF ActKill
    <3>3. \A d \in Client : d # acting.to => at'[d] = at[d] \/ d = c
        BY <1>0, <3>1, <3>2
    <3> QED
        BY <1>11, <3>1, <3>2, <3>3
  <2> QED
      BY <2>1, <2>2
<1>13. ASSUME NEW c \in Client, ActUnblockFails(c)
       PROVE  OwnerIsOpen' /\ \A d \in Client : HeldWaits(d)'
  <2>1. acting.to \in Client /\ at[c] = "acting"
      BY <1>13, TargetTypes DEF ActUnblockFails, TargetOps
  <2>2. \A d \in Client : d # acting.to => at'[d] = at[d] \/ d = c
      BY <1>0, <1>13 DEF ActUnblockFails
  <2> QED
      BY <1>11, <1>13, <2>1, <2>2 DEF ActUnblockFails
<1>14. ASSUME UNCHANGED <<open, input, at, pausing>>
       PROVE  OwnerIsOpen' /\ \A d \in Client : HeldWaits(d)'
    BY <1>0, <1>14, KeepsWaiting DEF OwnerIsOpen, pausing
<1>15. ASSUME NEW c \in Client, PeerGoes(c) \/ DeadlinePasses(c)
       PROVE  OwnerIsOpen' /\ \A d \in Client : HeldWaits(d)'
    BY <1>14, <1>15 DEF PeerGoes, DeadlinePasses, connection, buffers
<1>16. ASSUME NEW c \in Client, NEW op \in Ops, NEW to \in Client \cup {NoClient},
              SendRequest(c, op, to)
       PROVE  OwnerIsOpen' /\ \A d \in Client : HeldWaits(d)'
    BY <1>14, <1>16 DEF SendRequest, buffers
<1>17. ASSUME PauseEnds PROVE OwnerIsOpen' /\ \A d \in Client : HeldWaits(d)'
    BY <1>17 DEF PauseEnds, OwnerIsOpen, HeldWaits
<1>18. ASSUME UNCHANGED vars PROVE OwnerIsOpen' /\ \A d \in Client : HeldWaits(d)'
    BY <1>14, <1>18 DEF vars, connection, buffers
<1> QED
    BY <1>1, <1>2, <1>3, <1>4, <1>5, <1>6, <1>7, <1>9, <1>10, <1>12, <1>13, <1>15,
       <1>16, <1>17, <1>18 DEF Step

-----------------------------------------------------------------------------
(* The clients' inductive invariant.                                       *)
LEMMA ClientsInvariant == Spec => []ClientsInv
<1>1. ASSUME ClientsInv, [Next]_vars PROVE ClientsInv'
  <2>1. Step
      BY <1>1, NextIsStep
  <2>2. TypeOK'
      BY <1>1, <2>1, NextTypeOK
  <2>3. OneRuns'
      BY <1>1, <2>1, NextOneRuns
  <2>4. SlotsAreClean'
      BY <1>1, <2>1, NextClean
  <2>5. CallsAreInOrder'
      BY <1>1, <2>1, NextInCall
  <2>6. CountersAgree'
      BY <1>1, <2>1, NextCounts
  <2>7. HeldClientsWait'
      BY <1>1, <2>1, NextHeld
  <2> QED
      BY <2>2, <2>3, <2>4, <2>5, <2>6, <2>7 DEF ClientsInv
<1> QED
    BY <1>1, InitInv, PTL DEF Spec

(* What the clients' variables hold, and that what a client has read fits  *)
(* its input buffer (SERVER_INPUT_CAP), blocked request included.          *)
THEOREM ClientsTyped == Spec => []TypeOK
<1>1. ClientsInv => TypeOK
    BY DEF ClientsInv
<1> QED
    BY <1>1, ClientsInvariant, PTL

(* The counters that gate accepting and visiting clients                   *)
(* (server_accept_once, server_run_blocked_clients_at and                  *)
(* server_run_buffered_clients_at) are the numbers they stand for, for any *)
(* number of clients and whatever they send.                               *)
THEOREM CountersAreRight == Spec => []CountersAgree
<1>1. ClientsInv => CountersAgree
    BY DEF ClientsInv
<1> QED
    BY <1>1, ClientsInvariant, PTL

(* CLIENT PAUSE holds: server_client_pause_blocks_input is asked at every  *)
(* entry to a frame, and no step lets a frame in that the pause is about.  *)
THEOREM PauseIsHeld == Spec => PauseHolds
<1> DEFINE Held(c) == held[c] /\ carried_out'[c] > carried_out[c] /\ at[c] = "inner"
                         => pause = "write" /\ Current(c).op \notin WriteOps
<1>1. ASSUME ClientsInv, [Next]_vars PROVE [\A c \in Client : Held(c)]_vars
  <2> SUFFICES ASSUME NEW c \in Client, held[c], carried_out'[c] > carried_out[c], at[c] = "inner"
               PROVE  pause = "write" /\ Current(c).op \notin WriteOps
      OBVIOUS
  <2>0. /\ SlotTypes /\ at \in [Client -> Place] /\ pause \in {"none", "write", "all"}
        /\ HeldWaits(c) /\ c \in Running /\ carried_out[c] \in Nat
      BY <1>1, TypesSplit, HeldSplit, FrameTypes DEF ClientsInv, LoopTypes, SlotTypes
  <2>1. pause # "none" /\ c # pause_owner /\ ~PauseBlocks(c, input[c])
      BY <2>0 DEF HeldWaits, Place
  <2>2. pause = "write" /\ \A i \in DOMAIN input[c] : input[c][i].op \notin WriteOps
      BY <2>0, <2>1 DEF PauseBlocks
  <2>3. Executes(c)
    <3>1. Step
        BY <1>1, NextIsStep
    <3>2. ASSUME NEW d \in Client, ExecuteInBatch(d) \/ ExecuteLast(d)
          PROVE  Executes(c)
      <4>1. Executes(d) /\ d \in Running
          BY <2>0, <3>2, FrameTypes, <1>1 DEF ExecuteInBatch, ExecuteLast, Executes
      <4>2. d = c
          BY <1>1, <2>0, <4>1 DEF ClientsInv, OneRuns
      <4> QED
          BY <4>1, <4>2
    <3>3. ASSUME NEW d \in Client, at[d] = "acting" PROVE FALSE
      <4>1. d \in Running
          BY <3>3 DEF Running
      <4> QED
          BY <1>1, <2>0, <3>3, <4>1 DEF ClientsInv, OneRuns
    <3>4. ASSUME NEW d \in Client, CloseSlot(d) PROVE FALSE
        BY <2>0, <3>4 DEF CloseSlot, SlotTypes
    <3>5. carried_out' # carried_out
        BY <2>0
    <3> QED
        BY ZenonT(60), <3>1, <3>2, <3>3, <3>4, <3>5
           DEF Step, MovesFrame, Closes, Close, GoesBack, Accept, Read, Block, ActUnpause,
               ActPause, ActKill, ActUnblock, ActUnblockFails, Reply, PeerGoes,
               DeadlinePasses, SendRequest, PauseEnds, vars, history
  <2>4. done + 1 \in DOMAIN input[c]
      BY <1>1, <2>3, CurrentTypes, QueueTypes DEF ClientsInv
  <2> QED
      BY <2>2, <2>4 DEF Current
<1>2. [][\A c \in Client : Held(c)]_vars => PauseHolds
    BY DEF PauseHolds
<1> QED
    BY <1>1, <1>2, ClientsInvariant, PTL DEF Spec

-----------------------------------------------------------------------------
(* Requests in order.  What a client has sent and not been answered: kept  *)
(* by what moves requests between its buffers, shortened at the front by   *)
(* what answers, extended at the end by what it sends.                     *)
InOrder(c) ==
    /\ Len(Unanswered(c)) = sent[c] - answered[c]
    /\ \A i \in DOMAIN Unanswered(c) : Unanswered(c)[i].id = answered[c] + i

Rest(c) == \A i \in 2..Len(Unanswered(c)) : Unanswered(c)[i].op \in Pipelined

Queue(c) == InOrder(c) /\ Rest(c)

LEMMA QueuesSplit ==
    /\ RequestsInOrder /\ RestIsPipelined <=> \A c \in Client : Queue(c)
    /\ RequestsInOrder' /\ RestIsPipelined' <=> \A c \in Client : Queue(c)'
BY DEF RequestsInOrder, RestIsPipelined, Queue, InOrder, Rest

LEMMA QueueAssociative ==
    \A s, t, u \in Seq(Request) : (s \o t) \o u = s \o (t \o u)
BY ConcatAssociative

LEMMA UnansweredNext ==
    ASSUME SlotTypes', NEW c \in Client
    PROVE  Unanswered(c)' \in Seq(Request)
<1>1. blocked_request'[c] \in Seq(Request) /\ input'[c] \in Seq(Request) /\ sock'[c] \in Seq(Request)
    BY DEF SlotTypes
<1>2. blocked_request'[c] \o input'[c] \in Seq(Request)
    BY <1>1, QueueConcat
<1> QED
    BY <1>1, <1>2, QueueConcat DEF Unanswered

LEMMA UnansweredTypes ==
    ASSUME TypeOK, NEW c \in Client
    PROVE  /\ Unanswered(c) \in Seq(Request) /\ Len(Unanswered(c)) \in Nat
           /\ blocked_request[c] \in Seq(Request) /\ input[c] \in Seq(Request)
           /\ sock[c] \in Seq(Request) /\ sent[c] \in Nat /\ answered[c] \in Nat
           /\ Unanswered(c) = blocked_request[c] \o (input[c] \o sock[c])
<1>1. /\ blocked_request[c] \in Seq(Request) /\ input[c] \in Seq(Request)
      /\ sock[c] \in Seq(Request) /\ sent[c] \in Nat /\ answered[c] \in Nat
    BY TypesSplit DEF SlotTypes
<1>2. Unanswered(c) = (blocked_request[c] \o input[c]) \o sock[c]
    BY DEF Unanswered
<1>3. Unanswered(c) \in Seq(Request)
    BY <1>1, <1>2, QueueConcat
<1>4. Unanswered(c) = blocked_request[c] \o (input[c] \o sock[c])
    BY <1>1, <1>2, QueueAssociative
<1> QED
    BY <1>1, <1>3, <1>4, QueueTypes

LEMMA QueueKept ==
    ASSUME NEW c \in Client, Queue(c), Unanswered(c)' = Unanswered(c),
           sent'[c] = sent[c], answered'[c] = answered[c]
    PROVE  Queue(c)'
BY DEF Queue, InOrder, Rest

LEMMA QueueAnswered ==
    ASSUME TypeOK, SlotTypes', NEW c \in Client, Queue(c), NEW s \in Seq(Request),
           Unanswered(c) = s \o Unanswered(c)', sent'[c] = sent[c],
           answered'[c] = answered[c] + Len(s)
    PROVE  Queue(c)'
<1> DEFINE q == Unanswered(c)
           r == Unanswered(c)'
           n == Len(s)
<1>1. q \in Seq(Request) /\ r \in Seq(Request) /\ n \in Nat /\ Len(q) \in Nat /\ Len(r) \in Nat
  <2>1. r \in Seq(Request)
      BY UnansweredNext
  <2> QED
      BY <2>1, UnansweredTypes, QueueTypes
<1>2. Len(q) = n + Len(r) /\ \A i \in 1..Len(r) : q[n + i] = r[i]
    BY <1>1, QueueConcat
<1>3. DOMAIN q = 1..Len(q) /\ DOMAIN r = 1..Len(r)
    BY <1>1, QueueTypes
<1>4. /\ Len(q) = sent[c] - answered[c] /\ \A i \in DOMAIN q : q[i].id = answered[c] + i
      /\ \A i \in 2..Len(q) : q[i].op \in Pipelined
    BY DEF Queue, InOrder, Rest
<1>5. sent[c] \in Nat /\ answered[c] \in Nat /\ answered'[c] = answered[c] + n
    BY UnansweredTypes
<1> HIDE DEF q, r, n
<1>6. Len(r) = sent'[c] - answered'[c]
    BY SMTT(30), <1>1, <1>2, <1>4, <1>5
<1>7. ASSUME NEW i \in DOMAIN r PROVE r[i].id = answered'[c] + i
  <2>1. i \in 1..Len(r) /\ n + i \in 1..Len(q)
      BY <1>1, <1>2, <1>3
  <2>2. q[n + i] = r[i] /\ q[n + i].id = answered[c] + (n + i)
      BY <1>2, <1>3, <1>4, <2>1
  <2>3. answered[c] + (n + i) = answered'[c] + i
      BY <1>1, <1>5, <2>1
  <2> QED
      BY <2>2, <2>3
<1>8. ASSUME NEW i \in 2..Len(r) PROVE r[i].op \in Pipelined
  <2>1. i \in 1..Len(r) /\ n + i \in 2..Len(q)
      BY <1>1, <1>2
  <2> QED
      BY <1>2, <1>4, <2>1
<1> QED
    BY <1>6, <1>7, <1>8 DEF Queue, InOrder, Rest, r

LEMMA QueueSent ==
    ASSUME TypeOK, NEW c \in Client, Queue(c), NEW r \in Request, r.id = sent[c] + 1,
           r.op \in Pipelined \/ Unanswered(c) = <<>>,
           Unanswered(c)' = Append(Unanswered(c), r),
           sent'[c] = sent[c] + 1, answered'[c] = answered[c]
    PROVE  Queue(c)'
<1> DEFINE q == Unanswered(c)
           p == Append(q, r)
<1>1. q \in Seq(Request) /\ Len(q) \in Nat /\ sent[c] \in Nat /\ answered[c] \in Nat
    BY UnansweredTypes
<1>2. /\ p \in Seq(Request) /\ Len(p) = Len(q) + 1 /\ p[Len(q) + 1] = r
      /\ \A i \in 1..Len(q) : p[i] = q[i]
    BY <1>1, AppendProperties
<1>3. DOMAIN q = 1..Len(q) /\ DOMAIN p = 1..Len(p) /\ (q = <<>> <=> Len(q) = 0)
    BY <1>1, <1>2, QueueTypes
<1>4. /\ Len(q) = sent[c] - answered[c] /\ \A i \in DOMAIN q : q[i].id = answered[c] + i
      /\ \A i \in 2..Len(q) : q[i].op \in Pipelined
    BY DEF Queue, InOrder, Rest
<1>5. r.op \in Pipelined \/ q = <<>>
    OBVIOUS
<1>6. Unanswered(c)' = p
    OBVIOUS
<1> HIDE DEF q, p
<1>7. Len(p) = sent'[c] - answered'[c]
    BY <1>1, <1>2, <1>4
<1>8. ASSUME NEW i \in DOMAIN p PROVE p[i].id = answered'[c] + i
  <2>1. i \in 1..Len(q) \/ i = Len(q) + 1
      BY <1>1, <1>2, <1>3
  <2>2. CASE i \in 1..Len(q)
      BY <1>2, <1>3, <1>4, <2>2
  <2>3. CASE i = Len(q) + 1
      BY <1>1, <1>2, <1>4, <2>3
  <2> QED
      BY <2>1, <2>2, <2>3
<1>9. ASSUME NEW i \in 2..Len(p) PROVE p[i].op \in Pipelined
  <2>1. i \in 2..Len(q) \/ (i = Len(q) + 1 /\ Len(q) # 0)
      BY <1>1, <1>2
  <2>2. CASE i \in 2..Len(q)
    <3>1. i \in 1..Len(q)
        BY <1>1, <2>2
    <3> QED
        BY <1>2, <1>4, <2>2, <3>1
  <2>3. CASE i = Len(q) + 1 /\ Len(q) # 0
      BY <1>2, <1>3, <1>5, <2>3
  <2> QED
      BY <2>1, <2>2, <2>3
<1> QED
    BY <1>6, <1>7, <1>8, <1>9 DEF Queue, InOrder, Rest

(* The request a frame looks at is the first unanswered one, or one that   *)
(* was sent behind others.                                                 *)
LEMMA CurrentIsPipelined ==
    ASSUME ClientsInv, NEW c \in Client, Queue(c), Executes(c), done # 0
    PROVE  Current(c).op \in Pipelined
<1>1. done + 1 \in 1..Len(input[c]) /\ done \in Nat /\ at[c] = "inner" /\ Len(input[c]) \in Nat
    BY CurrentTypes, QueueTypes DEF ClientsInv
<1>2. blocked_request[c] = <<>>
    BY <1>1 DEF ClientsInv, SlotsAreClean
<1>3. input[c] \in Seq(Request) /\ sock[c] \in Seq(Request)
    BY UnansweredTypes DEF ClientsInv
<1>4. input[c] \o sock[c] \in Seq(Request)
    BY <1>3, QueueConcat
<1>5. Unanswered(c) = input[c] \o sock[c]
    BY <1>2, <1>4, UnansweredTypes, EmptyQueue DEF ClientsInv
<1>6. /\ Len(Unanswered(c)) = Len(input[c]) + Len(sock[c])
      /\ Unanswered(c)[done + 1] = input[c][done + 1] /\ Len(sock[c]) \in Nat
    BY <1>1, <1>3, <1>5, QueueConcat, QueueTypes
<1>7. done + 1 \in 2..Len(Unanswered(c))
  <2>1. done + 1 >= 2 /\ done + 1 <= Len(input[c]) /\ done + 1 \in Nat
      BY <1>1
  <2>2. \A k, m, n \in Nat : k >= 2 /\ k <= m => k \in 2..(m + n)
      OBVIOUS
  <2>3. done + 1 \in 2..(Len(input[c]) + Len(sock[c]))
      BY <1>1, <1>6, <2>1, <2>2
  <2> QED
      BY <1>6, <2>3
<1> QED
    BY <1>6, <1>7 DEF Queue, Rest, Current

LEMMA QueueCloses ==
    ASSUME ClientsInv, NEW t \in Client, CloseSlot(t)
    PROVE  Queue(t)' /\ \A d \in Client : d # t =>
              /\ Unanswered(d)' = Unanswered(d)
              /\ sent'[d] = sent[d] /\ answered'[d] = answered[d]
<1>0. SlotTypes
    BY TypesSplit DEF ClientsInv
<1>1. /\ sock'[t] = <<>> /\ input'[t] = <<>> /\ blocked_request'[t] = <<>>
      /\ sent'[t] = 0 /\ answered'[t] = 0
    BY <1>0 DEF CloseSlot, SlotTypes
<1>2. Unanswered(t)' = <<>>
    BY <1>1, EmptyQueue DEF Unanswered
<1>3. Queue(t)'
  <2>1. Len(<<>>) = 0 /\ DOMAIN <<>> = 1..0
      BY EmptyQueue, QueueTypes
  <2> QED
      BY <1>1, <1>2, <2>1 DEF Queue, InOrder, Rest
<1>4. \A d \in Client : d # t =>
         /\ Unanswered(d)' = Unanswered(d) /\ sent'[d] = sent[d] /\ answered'[d] = answered[d]
    BY <1>0 DEF CloseSlot, SlotTypes, Unanswered
<1> QED
    BY <1>3, <1>4

-----------------------------------------------------------------------------
(* A step of the frame of one client keeps everybody else's requests.      *)
Apart(d) ==
    /\ blocked_request'[d] = blocked_request[d] /\ input'[d] = input[d]
    /\ sock'[d] = sock[d] /\ sent'[d] = sent[d] /\ answered'[d] = answered[d]

LEMMA ApartKeeps ==
    ASSUME NEW d \in Client, Queue(d), Apart(d)
    PROVE  Queue(d)'
BY QueueKept DEF Apart, Unanswered

LEMMA NextQueues ==
    ASSUME OrderInv, Step
    PROVE  RequestsInOrder' /\ RestIsPipelined'
<1>0. /\ ClientsInv /\ TypeOK /\ SlotTypes /\ \A d \in Client : Queue(d)
      /\ SlotTypes' /\ \A d \in Client : Len(blocked_request[d]) <= 1
  <2>1. ClientsInv /\ TypeOK /\ SlotTypes /\ \A d \in Client : Queue(d)
      BY TypesSplit, QueuesSplit DEF OrderInv, ClientsInv
  <2>2. TypeOK'
      BY <2>1, NextTypeOK
  <2>3. SlotTypes'
      BY <2>2 DEF TypeOK, SlotTypes
  <2> QED
      BY <2>1, <2>3 DEF OrderInv, SingleCalls
<1> SUFFICES ASSUME NEW d \in Client PROVE Queue(d)'
    BY QueuesSplit
<1>1. ASSUME NEW c \in Client, MovesFrame(c) PROVE Queue(d)'
    BY <1>0, <1>1, ApartKeeps DEF MovesFrame, Apart, connection, buffers, history
<1>2. ASSUME NEW c \in Client, Closes(c) PROVE Queue(d)'
    BY <1>0, <1>2, QueueCloses, QueueKept DEF Closes, Close
<1>3. ASSUME NEW c \in Client, GoesBack(c) PROVE Queue(d)'
  <2>1. CASE d # c
      BY <1>0, <1>3, <2>1, ApartKeeps DEF GoesBack, Apart, SlotTypes, connection, history
  <2>2. CASE d = c
    <3>1. /\ blocked_request'[c] = <<>> /\ input'[c] = blocked_request[c] \o input[c]
          /\ sock'[c] = sock[c] /\ sent'[c] = sent[c] /\ answered'[c] = answered[c]
        BY <1>0, <1>3 DEF GoesBack, SlotTypes, connection, history
    <3>2. input'[c] \in Seq(Request)
        BY <1>0 DEF SlotTypes
    <3>3. <<>> \o input'[c] = input'[c]
        BY <3>2, EmptyQueue
    <3>4. Unanswered(c)' = Unanswered(c)
        BY <3>1, <3>3 DEF Unanswered
    <3> QED
        BY <1>0, <2>2, <3>1, <3>4, QueueKept
  <2> QED
      BY <2>1, <2>2
<1>4. ASSUME NEW c \in Client, Accept(c) PROVE Queue(d)'
    BY <1>0, <1>4, ApartKeeps DEF Accept, Apart, buffers
<1>5. ASSUME NEW c \in Client, Read(c) PROVE Queue(d)'
  <2>1. CASE d # c
      BY <1>0, <1>5, <2>1, ApartKeeps DEF Read, Apart, SlotTypes, history
  <2>2. CASE d = c
    <3>1. PICK n \in 0..InputCap, more \in BOOLEAN :
            /\ (IF more THEN n + 1 ELSE n) <= Len(sock[c])
            /\ input' = [input EXCEPT ![c] = SubSeq(sock[c], 1, n)]
            /\ sock' = [sock EXCEPT ![c] = Drop(@, n)]
        BY <1>5 DEF Read
    <3>2. /\ blocked_request'[c] = blocked_request[c] /\ input[c] = <<>>
          /\ input'[c] = SubSeq(sock[c], 1, n) /\ sock'[c] = Drop(sock[c], n)
          /\ sent'[c] = sent[c] /\ answered'[c] = answered[c]
        BY <1>0, <1>5, <3>1 DEF Read, AtRead, SlotTypes, history
    <3>3. sock[c] \in Seq(Request) /\ Len(sock[c]) \in Nat /\ blocked_request[c] \in Seq(Request)
        BY <1>0, QueueTypes DEF SlotTypes
    <3>4. n \in 0..Len(sock[c])
        BY <3>1, <3>3, ClientsAssumption
    <3>5. /\ input'[c] \in Seq(Request) /\ sock'[c] \in Seq(Request)
          /\ sock[c] = input'[c] \o sock'[c]
      <4>1. /\ SubSeq(sock[c], 1, n) \in Seq(Request) /\ Drop(sock[c], n) \in Seq(Request)
            /\ sock[c] = SubSeq(sock[c], 1, n) \o Drop(sock[c], n)
          BY <3>3, <3>4, TakeAndDrop
      <4> QED
          BY <3>2, <4>1
    <3>6. Unanswered(c)' = blocked_request[c] \o sock[c]
      <4>1. (blocked_request[c] \o input'[c]) \o sock'[c] = blocked_request[c] \o (input'[c] \o sock'[c])
          BY <3>3, <3>5, QueueAssociative
      <4>2. Unanswered(c)' = (blocked_request[c] \o input'[c]) \o sock'[c]
          BY <3>2 DEF Unanswered
      <4> QED
          BY <3>5, <4>1, <4>2
    <3>7. Unanswered(c) = blocked_request[c] \o sock[c]
        BY <3>2, <3>3, EmptyQueue DEF Unanswered
    <3> QED
        BY <1>0, <2>2, <3>2, <3>6, <3>7, QueueKept
  <2> QED
      BY <2>1, <2>2
<1>6. ASSUME NEW c \in Client, Block(c) PROVE Queue(d)'
  <2>1. CASE d # c
      BY <1>0, <1>6, <2>1, ApartKeeps DEF Block, ShiftInput, Apart, SlotTypes, connection, history
  <2>2. CASE d = c
    <3>1. at[c] = "inner" /\ input[c] \in Seq(Request) /\ done + 1 \in 0..Len(input[c])
        BY <1>0, <1>6, CurrentTypes, QueueTypes DEF Block
    <3>2. blocked_request[c] = <<>>
        BY <1>0, <3>1 DEF ClientsInv, SlotsAreClean
    <3>3. /\ blocked_request'[c] = SubSeq(input[c], 1, done + 1)
          /\ input'[c] = Drop(input[c], done + 1) /\ sock'[c] = sock[c]
          /\ sent'[c] = sent[c] /\ answered'[c] = answered[c]
        BY <1>0, <1>6 DEF Block, ShiftInput, SlotTypes, connection, history
    <3>4. blocked_request'[c] \o input'[c] = input[c]
        BY <3>1, <3>3, TakeAndDrop
    <3>5. Unanswered(c)' = Unanswered(c)
        BY <3>1, <3>2, <3>3, <3>4, EmptyQueue DEF Unanswered
    <3> QED
        BY <1>0, <2>2, <3>3, <3>5, QueueKept
  <2> QED
      BY <2>1, <2>2
<1>7. ASSUME NEW c \in Client, ExecuteInBatch(c) \/ ActUnpause(c) \/ ActPause(c) \/ Reply(c)
      PROVE  Queue(d)'
    BY <1>0, <1>7, ApartKeeps
       DEF ExecuteInBatch, ActUnpause, ActPause, Reply, Apart, connection, buffers, history
<1>8. ASSUME NEW c \in Client, ExecuteLast(c) PROVE Queue(d)'
  <2>1. CASE d # c
      BY <1>0, <1>8, <2>1, ApartKeeps DEF ExecuteLast, ShiftInput, Apart, SlotTypes, connection
  <2>2. CASE d = c
    <3>1. /\ at[c] = "inner" /\ input[c] \in Seq(Request) /\ done + 1 \in 0..Len(input[c])
          /\ sock[c] \in Seq(Request) /\ done \in Nat
      <4>1. /\ at[c] = "inner" /\ input[c] \in Seq(Request) /\ done + 1 \in 1..Len(input[c])
            /\ done \in Nat
          BY <1>0, <1>8, CurrentTypes DEF ExecuteLast
      <4>2. Len(input[c]) \in Nat
          BY <4>1, QueueTypes
      <4> QED
          BY <1>0, <4>1, <4>2 DEF SlotTypes
    <3>2. blocked_request[c] = <<>>
        BY <1>0, <3>1 DEF ClientsInv, SlotsAreClean
    <3>3. /\ blocked_request'[c] = <<>> /\ input'[c] = Drop(input[c], done + 1)
          /\ sock'[c] = sock[c] /\ sent'[c] = sent[c]
          /\ answered'[c] = answered[c] + (done + 1)
      <4>1. /\ blocked_request' = blocked_request /\ sock' = sock /\ sent' = sent
            /\ input' = [input EXCEPT ![c] = Drop(@, done + 1)]
            /\ answered' = [answered EXCEPT ![c] = @ + done + 1]
          BY <1>8 DEF ExecuteLast, ShiftInput, connection
      <4>2. answered[c] \in Nat
          BY <1>0 DEF SlotTypes
      <4>3. answered[c] + done + 1 = answered[c] + (done + 1)
        <5>1. \A i, j \in Nat : i + j + 1 = i + (j + 1)
            OBVIOUS
        <5> QED
            BY <3>1, <4>2, <5>1
      <4> QED
          BY <1>0, <3>2, <4>1, <4>3 DEF SlotTypes
    <3> DEFINE s == SubSeq(input[c], 1, done + 1)
    <3>4. /\ s \in Seq(Request) /\ Len(s) = done + 1 /\ input[c] = s \o input'[c]
          /\ input'[c] \in Seq(Request)
      <4>1. /\ s \in Seq(Request) /\ Len(s) = done + 1
            /\ input[c] = s \o Drop(input[c], done + 1) /\ Drop(input[c], done + 1) \in Seq(Request)
          BY <3>1, TakeAndDrop
      <4> QED
          BY <3>3, <4>1
    <3> HIDE DEF s
    <3>5. Unanswered(c) = input[c] \o sock[c] /\ Unanswered(c)' = input'[c] \o sock[c]
        BY <3>1, <3>2, <3>3, <3>4, EmptyQueue DEF Unanswered
    <3>6. Unanswered(c) = s \o Unanswered(c)'
      <4>1. (s \o input'[c]) \o sock[c] = s \o (input'[c] \o sock[c])
          BY <3>1, <3>4, QueueAssociative
      <4> QED
          BY <3>4, <3>5, <4>1
    <3> QED
        BY <1>0, <2>2, <3>3, <3>4, <3>6, QueueAnswered
  <2> QED
      BY <2>1, <2>2
<1>9. ASSUME NEW c \in Client, ActKill(c) PROVE Queue(d)'
  <2>1. CASE acting.to = c
      BY <1>0, <1>9, <2>1, ApartKeeps DEF ActKill, Apart, connection, buffers, history
  <2>2. CASE acting.to # c
      BY <1>0, <1>9, <2>2, TargetTypes, QueueCloses, QueueKept DEF ActKill, TargetOps
  <2> QED
      BY <2>1, <2>2
<1>10. ASSUME NEW c \in Client, ActUnblock(c) PROVE Queue(d)'
  <2>1. PICK t \in Client : t = acting.to /\ acting # NoRequest /\ acting.op = "unblock"
      BY <1>0, <1>10, TargetTypes DEF ActUnblock, TargetOps
  <2>2. UNCHANGED <<sock, input, sent>>
      BY <1>10 DEF ActUnblock, connection
  <2>3. CASE IsBlocked(t)
    <3>1. /\ blocked_request' = [blocked_request EXCEPT ![t] = <<>>]
          /\ answered' = [answered EXCEPT ![t] = @ + 1]
        BY <1>10, <2>1, <2>3 DEF ActUnblock
    <3>2. CASE d # t
        BY <1>0, <2>2, <3>1, <3>2, ApartKeeps DEF Apart, SlotTypes
    <3>3. CASE d = t
      <4>1. blocked_request[t] \in Seq(Request) /\ Len(blocked_request[t]) = 1
        <5>1. blocked_request[t] # <<>> /\ Len(blocked_request[t]) <= 1
            BY <1>0, <2>1, <2>3 DEF IsBlocked
        <5>2. blocked_request[t] \in Seq(Request)
            BY <1>0, <2>1 DEF SlotTypes
        <5>3. Len(blocked_request[t]) \in Nat /\ Len(blocked_request[t]) # 0
            BY <5>1, <5>2, QueueTypes
        <5>4. \A k \in Nat : k # 0 /\ k <= 1 => k = 1
            OBVIOUS
        <5> QED
            BY <5>1, <5>2, <5>3, <5>4
      <4>2. /\ blocked_request'[t] = <<>> /\ input'[t] = input[t] /\ sock'[t] = sock[t]
            /\ sent'[t] = sent[t] /\ answered'[t] = answered[t] + Len(blocked_request[t])
          BY <1>0, <2>1, <2>2, <3>1, <4>1 DEF SlotTypes
      <4>3. input[t] \in Seq(Request) /\ input[t] \o sock[t] \in Seq(Request)
          BY ZenonT(60), <1>0, <2>1, QueueConcat DEF SlotTypes
      <4>4. Unanswered(t)' = input[t] \o sock[t]
        <5>1. <<>> \o input[t] = input[t]
            BY <4>3, EmptyQueue
        <5> QED
            BY <4>2, <5>1 DEF Unanswered
      <4>5. Unanswered(t) = blocked_request[t] \o Unanswered(t)'
          BY <1>0, <2>1, <4>4, UnansweredTypes
      <4> QED
          BY <1>0, <2>1, <3>3, <4>1, <4>2, <4>5, QueueAnswered
    <3> QED
        BY <3>2, <3>3
  <2>4. CASE ~IsBlocked(t)
    <3>1. done = 0
        BY <2>1 DEF OrderInv, SingleCalls
    <3>2. blocked_request' = blocked_request /\ answered' = [answered EXCEPT ![c] = @ - done]
        BY <1>10, <2>1, <2>4 DEF ActUnblock
    <3>3. answered'[d] = answered[d]
        BY <1>0, <3>1, <3>2 DEF SlotTypes
    <3> QED
        BY <1>0, <2>2, <3>2, <3>3, ApartKeeps DEF Apart
  <2> QED
      BY <2>3, <2>4
<1>11. ASSUME NEW c \in Client, ActUnblockFails(c) PROVE Queue(d)'
    BY <1>0, <1>11, TargetTypes, QueueCloses, QueueKept DEF ActUnblockFails, TargetOps
<1>12. ASSUME NEW c \in Client, PeerGoes(c) \/ DeadlinePasses(c) PROVE Queue(d)'
    BY <1>0, <1>12, ApartKeeps DEF PeerGoes, DeadlinePasses, Apart, connection, buffers, history
<1>13. ASSUME NEW c \in Client, NEW op \in Ops, NEW to \in Client \cup {NoClient},
              SendRequest(c, op, to)
       PROVE  Queue(d)'
  <2>1. CASE d # c
      BY <1>0, <1>13, <2>1, ApartKeeps DEF SendRequest, Apart, SlotTypes, buffers
  <2>2. CASE d = c
    <3> DEFINE r == [id |-> sent[c] + 1, op |-> op, to |-> to]
    <3>1. r \in Request /\ r.id = sent[c] + 1 /\ r.op = op
        BY <1>0, <1>13 DEF SendRequest, Request, SlotTypes
    <3>2. /\ blocked_request'[c] = blocked_request[c] /\ input'[c] = input[c]
          /\ sock'[c] = Append(sock[c], r)
          /\ sent'[c] = sent[c] + 1 /\ answered'[c] = answered[c]
          /\ op \in Pipelined \/ Unanswered(c) = <<>>
        BY <1>0, <1>13 DEF SendRequest, SlotTypes, buffers
    <3> HIDE DEF r
    <3> DEFINE q == blocked_request[c] \o input[c]
    <3>3. q \in Seq(Request) /\ sock[c] \in Seq(Request) /\ <<r>> \in Seq(Request)
        BY <1>0, <3>1, QueueConcat DEF SlotTypes
    <3>4. q \o sock[c] \in Seq(Request)
        BY <3>3, QueueConcat
    <3>5. Append(sock[c], r) = sock[c] \o <<r>> /\ Append(q \o sock[c], r) = (q \o sock[c]) \o <<r>>
        BY <3>1, <3>3, <3>4, AppendIsConcat
    <3> HIDE DEF q
    <3>6. q \o Append(sock[c], r) = Append(q \o sock[c], r)
      <4>1. (q \o sock[c]) \o <<r>> = q \o (sock[c] \o <<r>>)
          BY <3>3, QueueAssociative
      <4> QED
          BY <3>5, <4>1
    <3>7. Unanswered(c)' = Append(Unanswered(c), r)
        BY <3>2, <3>6 DEF Unanswered, q
    <3> QED
        BY <1>0, <2>2, <3>1, <3>2, <3>7, QueueSent
  <2> QED
      BY <2>1, <2>2
<1>14. ASSUME PauseEnds \/ UNCHANGED vars PROVE Queue(d)'
    BY <1>0, <1>14, ApartKeeps DEF PauseEnds, vars, Apart, connection, buffers, history
<1> QED
    BY <1>1, <1>2, <1>3, <1>4, <1>5, <1>6, <1>7, <1>8, <1>9, <1>10, <1>11, <1>12,
       <1>13, <1>14 DEF Step

-----------------------------------------------------------------------------
(* Nothing that waits, and no UNBLOCK, is sent behind other requests.      *)
NothingWaitsPipelined == Pipelined \cap (BlockingOps \cup {"unblock"}) = {}

LEMMA BlocksAlone ==
    ASSUME OrderInv, NothingWaitsPipelined, NEW c \in Client, Block(c)
    PROVE  done = 0
<1>1. ClientsInv /\ Queue(c)
    BY QueuesSplit DEF OrderInv
<1>2. Executes(c) /\ Current(c).op \in BlockingOps
    BY DEF Block, Waits
<1> QED
    BY <1>1, <1>2, CurrentIsPipelined DEF NothingWaitsPipelined

LEMMA NextSingle ==
    ASSUME OrderInv, Step, NothingWaitsPipelined
    PROVE  SingleCalls'
<1> DEFINE Short == \A d \in Client : Len(blocked_request[d]) <= 1
           Alone == acting # NoRequest /\ acting.op = "unblock" => done = 0
<1>0. ClientsInv /\ TypeOK /\ SlotTypes /\ (\A d \in Client : Queue(d)) /\ Short /\ Alone
    BY TypesSplit, QueuesSplit DEF OrderInv, ClientsInv, SingleCalls
<1> SUFFICES Short' /\ Alone'
    BY DEF SingleCalls
<1>1. ASSUME NEW c \in Client, Block(c) PROVE Short' /\ Alone'
  <2>1. done = 0
      BY <1>1, BlocksAlone
  <2>2. input[c] \in Seq(Request) /\ done + 1 \in 0..Len(input[c])
    <3>1. input[c] \in Seq(Request) /\ done + 1 \in 1..Len(input[c])
        BY <1>0, <1>1, CurrentTypes DEF Block
    <3> QED
        BY <3>1, QueueTypes
  <2>3. Len(SubSeq(input[c], 1, done + 1)) = 1
      BY <2>1, <2>2, TakeAndDrop
  <2>4. blocked_request' = [blocked_request EXCEPT ![c] = SubSeq(input[c], 1, done + 1)]
      BY <1>1 DEF Block
  <2>5. \A d \in Client : blocked_request'[d] = blocked_request[d]
                           \/ blocked_request'[d] = SubSeq(input[c], 1, done + 1)
      BY <1>0, <2>4 DEF SlotTypes
  <2>6. \A d \in Client : Len(blocked_request'[d]) <= 1
    <3>1. 1 <= 1
        OBVIOUS
    <3> QED
        BY <1>0, <2>3, <2>5, <3>1, Zenon
  <2> QED
      BY <1>1, <2>6 DEF Block, EndCall
<1>2. ASSUME NEW c \in Client, ExecuteLast(c) PROVE Short' /\ Alone'
  <2>1. Executes(c) /\ done' = done /\ blocked_request' = blocked_request
        /\ acting' = IF EndsBatch(Current(c)) THEN Current(c) ELSE NoRequest
      BY <1>2 DEF ExecuteLast
  <2>2. acting'.op = "unblock" /\ acting' # NoRequest => Current(c).op = "unblock"
      BY <2>1
  <2>3. Current(c).op = "unblock" => done = 0
      BY <1>0, <2>1, CurrentIsPipelined DEF NothingWaitsPipelined
  <2> QED
      BY <1>0, <2>1, <2>2, <2>3
<1>3. ASSUME NEW c \in Client, ExecuteInBatch(c) PROVE Short' /\ Alone'
  <2>1. acting = NoRequest
      BY <1>0, <1>3 DEF ExecuteInBatch, Executes, ClientsInv, CallsAreInOrder
  <2> QED
      BY <1>0, <1>3, <2>1 DEF ExecuteInBatch, buffers
<1>4. ASSUME NEW c \in Client, CloseSlot(c) PROVE Short'
    BY <1>0, <1>4, EmptyQueue DEF CloseSlot, SlotTypes
<1>5. ASSUME NEW c \in Client, Closes(c) PROVE Short' /\ Alone'
    BY <1>4, <1>5 DEF Closes, Close, EndCall
<1>6. ASSUME NEW c \in Client, GoesBack(c) PROVE Short' /\ Alone'
    BY <1>0, <1>6, EmptyQueue DEF GoesBack, SlotTypes, call
<1>7. ASSUME NEW c \in Client,
             MovesFrame(c) \/ Accept(c) \/ Read(c) \/ ActUnpause(c) \/ ActPause(c)
                \/ PeerGoes(c) \/ DeadlinePasses(c)
      PROVE  Short' /\ Alone'
    BY <1>0, <1>7 DEF MovesFrame, Accept, Read, ActUnpause, ActPause, PeerGoes, DeadlinePasses,
                      buffers, call
<1>8. ASSUME NEW c \in Client, Reply(c) PROVE Short' /\ Alone'
    BY <1>0, <1>8 DEF Reply, EndCall, buffers
<1>9. ASSUME NEW c \in Client, ActKill(c) PROVE Short' /\ Alone'
  <2>1. Short'
      BY <1>0, <1>4, <1>9, TargetTypes DEF ActKill, TargetOps, buffers
  <2> QED
      BY <1>0, <1>9, <2>1 DEF ActKill, call
<1>10. ASSUME NEW c \in Client, ActUnblock(c) PROVE Short' /\ Alone'
  <2>1. Short'
    <3>1. CASE IsBlocked(acting.to)
      <4>1. blocked_request' = [blocked_request EXCEPT ![acting.to] = <<>>]
          BY <1>10, <3>1 DEF ActUnblock
      <4> QED
          BY <1>0, <4>1, EmptyQueue DEF SlotTypes
    <3>2. CASE ~IsBlocked(acting.to)
        BY <1>0, <1>10, <3>2 DEF ActUnblock
    <3> QED
        BY <3>1, <3>2
  <2> QED
      BY <1>0, <1>10, <2>1 DEF ActUnblock, call
<1>11. ASSUME NEW c \in Client, ActUnblockFails(c) PROVE Short' /\ Alone'
  <2>1. Short'
      BY <1>0, <1>4, <1>11, TargetTypes DEF ActUnblockFails, TargetOps
  <2> QED
      BY <1>0, <1>11, <2>1 DEF ActUnblockFails, call
<1>12. ASSUME UNCHANGED <<blocked_request, call>> PROVE Short' /\ Alone'
    BY <1>0, <1>12 DEF call
<1>13. ASSUME NEW c \in Client, NEW op \in Ops, NEW to \in Client \cup {NoClient},
              SendRequest(c, op, to)
       PROVE  Short' /\ Alone'
    BY <1>12, <1>13 DEF SendRequest, buffers
<1>14. ASSUME PauseEnds \/ UNCHANGED vars PROVE Short' /\ Alone'
    BY <1>12, <1>14 DEF PauseEnds, vars, buffers
<1> QED
    BY <1>1, <1>2, <1>3, <1>5, <1>6, <1>7, <1>8, <1>9, <1>10, <1>11, <1>13, <1>14 DEF Step

(* What is carried out and not yet answered is what the open call has done *)
(* so far.                                                                 *)
Ahead(d) == carried_out[d] = answered[d] + (IF at[d] = "inner" THEN done ELSE 0)

LEMMA NotInner ==
    ASSUME ClientsInv, NEW c \in Client, Idle \/ c \in Running
    PROVE  \A d \in Client : d # c => at[d] # "inner"
BY FrameTypes DEF Idle

LEMMA AheadKept ==
    ASSUME NEW d \in Client, Ahead(d), at[d] # "inner", at'[d] # "inner" \/ done' = 0,
           answered'[d] = answered[d], carried_out'[d] = carried_out[d],
           answered[d] \in Nat, done \in Nat
    PROVE  Ahead(d)'
BY DEF Ahead

LEMMA NextAhead ==
    ASSUME OrderInv, Step, NothingWaitsPipelined
    PROVE  CarriedOutAhead'
<1>0. /\ ClientsInv /\ SlotTypes /\ \A d \in Client : Ahead(d)
      /\ at \in [Client -> Place] /\ done \in Nat
    BY TypesSplit DEF OrderInv, ClientsInv, CarriedOutAhead, Ahead, LoopTypes
<1>a. answered \in [Client -> Nat] /\ carried_out \in [Client -> Nat]
    BY <1>0 DEF SlotTypes
<1> SUFFICES ASSUME NEW d \in Client PROVE Ahead(d)'
    BY DEF CarriedOutAhead, Ahead
<1>1. ASSUME UNCHANGED <<answered, carried_out, done>>, at'[d] = at[d] \/ done = 0
      PROVE  Ahead(d)'
    BY <1>0, <1>1 DEF Ahead
<1>2. ASSUME NEW c \in Client, MovesFrame(c),
             VisitBuffered(c) \/ Readable(c) \/ Writable(c) \/ WaitForInput(c)
      PROVE  Ahead(d)'
  <2>1. done = 0
      BY <1>0, <1>2, IdleIsClear, EmptyIsClear DEF VisitBuffered, Readable, Writable, WaitForInput
  <2> QED
      BY <1>1, <1>2, <2>1 DEF MovesFrame, call, history
<1>3. ASSUME NEW c \in Client, Closes(c) PROVE Ahead(d)'
  <2>1. CASE d = c
      BY <1>0, <1>3, <2>1 DEF Closes, Close, CloseSlot, EndCall, Ahead, SlotTypes
  <2>2. CASE d # c
    <3>1. at[d] # "inner"
        BY <1>0, <1>3, <2>2, NotInner DEF Closes
    <3>2. done' = 0 /\ answered'[d] = answered[d] /\ carried_out'[d] = carried_out[d]
        BY <1>a, <1>3, <2>2 DEF Closes, Close, CloseSlot, EndCall
    <3> QED
        BY <1>0, <1>a, <3>1, <3>2, AheadKept
  <2> QED
      BY <2>1, <2>2
<1>4. ASSUME NEW c \in Client, GoesBack(c) \/ Accept(c) PROVE Ahead(d)'
    BY <1>0, <1>1, <1>4, IdleIsClear DEF GoesBack, Accept, call, history
<1>5. ASSUME NEW c \in Client, Read(c) PROVE Ahead(d)'
  <2>1. done = 0
      BY <1>0, <1>5, IdleIsClear, EmptyIsClear DEF Read, AtRead
  <2> QED
      BY <1>1, <1>5, <2>1 DEF Read, call, history
<1>6. ASSUME NEW c \in Client, Block(c) PROVE Ahead(d)'
  <2>1. done = 0
      BY <1>6, BlocksAlone
  <2> QED
      BY <1>0, <1>6, <2>1 DEF Block, EndCall, Ahead, history
<1>7. ASSUME NEW c \in Client, ExecuteInBatch(c) PROVE Ahead(d)'
  <2>1. at[c] = "inner" /\ c \in Running
      BY <1>0, <1>7, FrameTypes DEF ExecuteInBatch, Executes
  <2>2. /\ at' = at /\ answered' = answered /\ done' = done + 1
        /\ carried_out' = [carried_out EXCEPT ![c] = @ + 1]
      BY <1>7 DEF ExecuteInBatch, Execute
  <2>3. CASE d = c
      BY <1>0, <1>a, <2>1, <2>2, <2>3 DEF Ahead
  <2>4. CASE d # c
    <3>1. at[d] # "inner"
        BY <1>0, <2>1, <2>4, NotInner
    <3> QED
        BY <1>0, <1>a, <2>2, <2>4, <3>1, AheadKept
  <2> QED
      BY <2>3, <2>4
<1>8. ASSUME NEW c \in Client, ExecuteLast(c) PROVE Ahead(d)'
  <2>1. at[c] = "inner" /\ c \in Running
      BY <1>0, <1>8, FrameTypes DEF ExecuteLast, Executes
  <2>2. /\ answered' = [answered EXCEPT ![c] = @ + done + 1] /\ done' = done
        /\ carried_out' = [carried_out EXCEPT ![c] = @ + 1]
        /\ \E p \in {"acting", "replying"} : at' = [at EXCEPT ![c] = p]
      BY <1>8 DEF ExecuteLast, Execute
  <2>3. CASE d = c
      BY <1>0, <1>a, <2>1, <2>2, <2>3 DEF Ahead
  <2>4. CASE d # c
    <3>1. at[d] # "inner"
        BY <1>0, <2>1, <2>4, NotInner
    <3> QED
        BY <1>0, <1>a, <2>2, <2>4, <3>1, AheadKept
  <2> QED
      BY <2>3, <2>4
<1>9. ASSUME NEW c \in Client, at[c] = "acting"
      PROVE  at[d] # "inner"
    BY <1>0, <1>9, NotInner DEF Running
<1>10. ASSUME NEW c \in Client, ActUnpause(c) \/ ActPause(c) PROVE Ahead(d)'
  <2>1. at[d] # "inner" /\ at'[d] # "inner"
      BY <1>0, <1>9, <1>10 DEF ActUnpause, ActPause
  <2> QED
      BY <1>0, <1>a, <1>10, <2>1, AheadKept DEF ActUnpause, ActPause, history
<1>11. ASSUME NEW c \in Client, NEW t \in Client, at[c] = "acting", CloseSlot(t),
              at'[d] # "inner"
       PROVE  Ahead(d)'
  <2>1. CASE d = t
      BY <1>a, <1>11, <2>1 DEF CloseSlot, Ahead
  <2>2. CASE d # t
    <3>1. answered'[d] = answered[d] /\ carried_out'[d] = carried_out[d]
        BY <1>a, <1>11, <2>2 DEF CloseSlot
    <3> QED
        BY <1>0, <1>a, <1>9, <1>11, <3>1, AheadKept
  <2> QED
      BY <2>1, <2>2
<1>12. ASSUME NEW c \in Client, ActKill(c) PROVE Ahead(d)'
  <2>1. at[c] = "acting" /\ at[d] # "inner" /\ acting.to \in Client
      BY <1>0, <1>9, <1>12, TargetTypes DEF ActKill, TargetOps
  <2>2. at'[d] # "inner"
      BY <1>0, <1>12, <2>1 DEF ActKill
  <2>3. CASE acting.to = c
      BY <1>0, <1>a, <1>12, <2>1, <2>2, <2>3, AheadKept DEF ActKill, history
  <2>4. CASE acting.to # c
      BY <1>11, <1>12, <2>1, <2>2, <2>4 DEF ActKill
  <2> QED
      BY <2>3, <2>4
<1>13. ASSUME NEW c \in Client, ActUnblock(c) PROVE Ahead(d)'
  <2>1. at[c] = "acting" /\ at[d] # "inner" /\ acting.to \in Client
        /\ acting # NoRequest /\ acting.op = "unblock"
      BY <1>0, <1>9, <1>13, TargetTypes DEF ActUnblock, TargetOps
  <2>2. at'[d] # "inner"
      BY <1>0, <1>13, <2>1 DEF ActUnblock
  <2>3. CASE IsBlocked(acting.to)
    <3>1. /\ answered' = [answered EXCEPT ![acting.to] = @ + 1]
          /\ carried_out' = [carried_out EXCEPT ![acting.to] = @ + 1]
        BY <1>13, <2>3 DEF ActUnblock
    <3> QED
        BY <1>0, <1>a, <2>1, <2>2, <3>1 DEF Ahead
  <2>4. CASE ~IsBlocked(acting.to)
    <3>1. done = 0
        BY <2>1 DEF OrderInv, SingleCalls
    <3>2. answered' = [answered EXCEPT ![c] = @ - done] /\ carried_out' = carried_out
        BY <1>13, <2>4 DEF ActUnblock
    <3>3. answered'[d] = answered[d]
        BY <1>a, <3>1, <3>2
    <3> QED
        BY <1>0, <1>a, <2>1, <2>2, <3>2, <3>3, AheadKept
  <2> QED
      BY <2>3, <2>4
<1>14. ASSUME NEW c \in Client, ActUnblockFails(c) PROVE Ahead(d)'
  <2>1. at[c] = "acting" /\ at[d] # "inner" /\ acting.to \in Client
      BY <1>0, <1>9, <1>14, TargetTypes DEF ActUnblockFails, TargetOps
  <2>2. at'[d] # "inner"
      BY <1>0, <1>14, <2>1 DEF ActUnblockFails
  <2> QED
      BY <1>11, <1>14, <2>1, <2>2 DEF ActUnblockFails
<1>15. ASSUME NEW c \in Client, Reply(c) PROVE Ahead(d)'
  <2>1. at[d] # "inner"
      BY <1>0, <1>15, NotInner DEF Reply, Running
  <2> QED
      BY <1>0, <1>a, <1>15, <2>1, AheadKept DEF Reply, EndCall, history
<1>16. ASSUME NEW c \in Client, PeerGoes(c) \/ DeadlinePasses(c) PROVE Ahead(d)'
    BY <1>1, <1>16 DEF PeerGoes, DeadlinePasses, call, history
<1>17. ASSUME NEW c \in Client, NEW op \in Ops, NEW to \in Client \cup {NoClient},
              SendRequest(c, op, to)
       PROVE  Ahead(d)'
    BY <1>1, <1>17 DEF SendRequest, call
<1>18. ASSUME PauseEnds \/ UNCHANGED vars PROVE Ahead(d)'
    BY <1>1, <1>18 DEF PauseEnds, vars, call, history
<1> QED
    BY <1>2, <1>3, <1>4, <1>5, <1>6, <1>7, <1>8, <1>10, <1>12, <1>13, <1>14, <1>15,
       <1>16, <1>17, <1>18 DEF Step

LEMMA InitOrder == Init => OrderInv
<1> SUFFICES ASSUME Init PROVE OrderInv
    OBVIOUS
<1>1. \A c \in Client : Unanswered(c) = <<>>
    BY EmptyQueue DEF Init, Unanswered
<1>2. Len(<<>>) = 0 /\ DOMAIN <<>> = 1..0
    BY EmptyQueue, QueueTypes
<1>3. \A c \in Client : Queue(c)
    BY <1>1, <1>2 DEF Init, Queue, InOrder, Rest
<1>4. SingleCalls /\ CarriedOutAhead
    BY <1>2 DEF Init, SingleCalls, CarriedOutAhead
<1> QED
    BY <1>3, <1>4, InitInv, QueuesSplit DEF OrderInv

LEMMA OrderInvariant ==
    ASSUME NothingWaitsPipelined
    PROVE  Spec => []OrderInv
<1>1. ASSUME OrderInv, ClientsInv', [Next]_vars PROVE OrderInv'
  <2>1. Step
      BY <1>1, NextIsStep DEF OrderInv
  <2>2. RequestsInOrder' /\ RestIsPipelined'
      BY <1>1, <2>1, NextQueues
  <2>3. SingleCalls' /\ CarriedOutAhead'
      BY <1>1, <2>1, NextSingle, NextAhead
  <2> QED
      BY <1>1, <2>2, <2>3 DEF OrderInv
<1> QED
    BY <1>1, InitOrder, ClientsInvariant, PTL DEF Spec

(* Blocking, unblocking and reading in parts (server_client_shift_input,   *)
(* server_run_blocked_clients_at, server_client_unblock_by_id) lose,       *)
(* repeat and reorder no request of a client that sends nothing that waits *)
(* behind other requests.                                                  *)
THEOREM RequestsStayInOrder ==
    ASSUME NothingWaitsPipelined
    PROVE  Spec => []RequestsInOrder
<1>1. OrderInv => RequestsInOrder
    BY DEF OrderInv
<1> QED
    BY <1>1, OrderInvariant, PTL

(* For such clients every request that is answered between two polls has   *)
(* been carried out exactly once, although a blocked request is put away   *)
(* and executed again.                                                     *)
THEOREM AnsweredIsCarriedOut ==
    ASSUME NothingWaitsPipelined
    PROVE  Spec => []CarriedOutOnce
<1>1. ASSUME OrderInv PROVE CarriedOutOnce
  <2>1. \A c \in Client : Idle => at[c] # "inner"
      BY DEF Idle, Running
  <2>2. answered \in [Client -> Nat]
      BY <1>1 DEF OrderInv, ClientsInv, TypeOK
  <2> QED
      BY <1>1, <2>1, <2>2 DEF OrderInv, CarriedOutAhead, CarriedOutOnce
<1> QED
    BY <1>1, OrderInvariant, PTL

(* Nor is one of their requests carried out twice, at any time.            *)
THEOREM NothingIsRepeated ==
    ASSUME NothingWaitsPipelined
    PROVE  Spec => []NothingCarriedOutTwice
<1>1. ASSUME OrderInv PROVE NothingCarriedOutTwice
  <2> SUFFICES ASSUME NEW c \in Client PROVE carried_out[c] <= sent[c]
      BY DEF NothingCarriedOutTwice
  <2>1. /\ ClientsInv /\ TypeOK /\ Queue(c) /\ done \in Nat
        /\ carried_out[c] = answered[c] + (IF at[c] = "inner" THEN done ELSE 0)
      BY <1>1, QueuesSplit DEF OrderInv, ClientsInv, CarriedOutAhead, TypeOK
  <2>2. /\ Len(Unanswered(c)) = sent[c] - answered[c] /\ Len(Unanswered(c)) \in Nat
        /\ sent[c] \in Nat /\ answered[c] \in Nat
      BY <2>1, UnansweredTypes DEF Queue, InOrder
  <2>3. at[c] = "inner" => done <= Len(Unanswered(c))
    <3> SUFFICES ASSUME at[c] = "inner", done # 0 PROVE done <= Len(Unanswered(c))
        BY <2>1, <2>2
    <3>1. done < Len(input[c])
        BY <2>1 DEF ClientsInv, CallsAreInOrder
    <3>2. /\ input[c] \in Seq(Request) /\ sock[c] \in Seq(Request)
          /\ blocked_request[c] \in Seq(Request)
        BY <2>1, UnansweredTypes
    <3>3. /\ input[c] \o sock[c] \in Seq(Request)
          /\ Len(input[c] \o sock[c]) = Len(input[c]) + Len(sock[c])
        BY <3>2, QueueConcat
    <3>4. Len(Unanswered(c)) = Len(blocked_request[c]) + (Len(input[c]) + Len(sock[c]))
      <4>1. Unanswered(c) = blocked_request[c] \o (input[c] \o sock[c])
          BY <2>1, UnansweredTypes
      <4>2. Len(blocked_request[c] \o (input[c] \o sock[c]))
               = Len(blocked_request[c]) + Len(input[c] \o sock[c])
          BY <3>2, <3>3, QueueConcat
      <4> QED
          BY <3>3, <4>1, <4>2
    <3>5. /\ Len(input[c]) \in Nat /\ Len(sock[c]) \in Nat /\ Len(blocked_request[c]) \in Nat
        BY <3>2, QueueTypes
    <3>6. \A i, j, k, l \in Nat : i < j => i <= k + (j + l)
        OBVIOUS
    <3> QED
        BY <2>1, <3>1, <3>4, <3>5, <3>6
  <2> QED
      BY <2>1, <2>2, <2>3
<1> QED
    BY <1>1, OrderInvariant, PTL

=============================================================================
