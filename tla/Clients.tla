------------------------------ MODULE Clients ------------------------------
(***************************************************************************)
(* The event loop and its clients (src/server.uya): slots, the frame that  *)
(* reads, executes and writes for one client, blocked and buffered clients *)
(* with the counters that gate the visits to them, CLIENT PAUSE, UNPAUSE,  *)
(* UNBLOCK and KILL, and connections that close.                           *)
(*                                                                         *)
(* There is one thread: from the moment the loop polls a client's frame    *)
(* until the frame waits or returns, nothing else runs.  The order in      *)
(* which a round of the loop visits the clients is left open.              *)
(*                                                                         *)
(* Requests are numbered within their connection.  Of the data there is    *)
(* one list: "push" adds an item, "pop" and "bpop" take one or wait for    *)
(* it, the first with a timeout.  `held', `sent', `answered' and           *)
(* `carried_out' are history variables.                                    *)
(***************************************************************************)
EXTENDS Naturals, Sequences, FiniteSets

CONSTANTS
    Client,
    NoClient,
    Ops,                 \* what clients ask for
    Pipelined,           \* of these, what they send behind unanswered requests
    MaxClients,          \* maxclients
    InputCap,            \* requests that fit SERVER_INPUT_CAP
    MaxRequests,         \* bound: requests of a behaviour
    MaxAccepts           \* bound: connections of a behaviour

BlockingOps == {"pop", "bpop"}
WriteOps == {"push"} \cup BlockingOps
TargetOps == {"kill", "unblock"}

ASSUME ClientsAssumption ==
    /\ IsFiniteSet(Client)
    /\ NoClient \notin Client
    /\ Ops \subseteq WriteOps \cup TargetOps \cup {"pause", "pause_write", "unpause"}
    /\ Pipelined \subseteq Ops
    /\ MaxClients \in Nat
    /\ InputCap \in Nat \ {0}
    /\ MaxRequests \in Nat
    /\ MaxAccepts \in Nat

VARIABLES
    open,              \* clients[slot].fd >= 0
    peer_gone,         \* the peer has closed its end
    sock,              \* sent by the peer, not yet read
    input,             \* read, not yet consumed
    partial,           \* the input ends in a part of the request that heads sock
    blocked_request,
    blocking,          \* transaction.blocking_active
    deadline,          \* transaction.blocking_deadline_ms, seen from now
    at,                \* where the client's frame is
    done,              \* requests of the current call that are executed
    acting,            \* the request whose wishes the server still has to see to
    unpausing,         \* a request of the current call was UNPAUSE
    active_clients, blocked_clients, buffered_clients,
    pause, pause_owner,
    held,              \* history: whom the pause in effect has to hold
    items,             \* length of the list
    sent, answered, carried_out, requests, accepts

connection == <<open, peer_gone, sock>>
buffers == <<input, partial, blocked_request>>
block == <<blocking, deadline>>
call == <<done, acting, unpausing>>
counters == <<active_clients, blocked_clients, buffered_clients>>
pausing == <<pause, pause_owner, held>>
history == <<sent, answered, carried_out, requests, accepts>>
vars == <<connection, buffers, block, at, call, counters, pausing, items, history>>

-----------------------------------------------------------------------------
(* Only CLIENT KILL and CLIENT UNBLOCK name a client. *)
Request == {r \in [id : Nat, op : Ops, to : Client \cup {NoClient}] :
               (r.to \in Client) = (r.op \in TargetOps)}
NoRequest == [op |-> "none"]

(* "none": no live frame; "inner": at the head of the loop over its input; *)
(* "acting" and "replying": behind a call of connection_process_input;     *)
(* "reading" and "sending": waiting.                                       *)
Place == {"none", "inner", "acting", "replying", "reading", "sending"}
Running == {c \in Client : at[c] \in {"inner", "acting", "replying"}}
Idle == Running = {}

Less(n) == IF n > 0 THEN n - 1 ELSE 0
Drop(s, n) == SubSeq(s, n + 1, Len(s))

Init ==
    /\ open = [c \in Client |-> FALSE]
    /\ peer_gone = [c \in Client |-> FALSE]
    /\ sock = [c \in Client |-> <<>>]
    /\ input = [c \in Client |-> <<>>]
    /\ partial = [c \in Client |-> FALSE]
    /\ blocked_request = [c \in Client |-> <<>>]
    /\ blocking = [c \in Client |-> FALSE]
    /\ deadline = [c \in Client |-> "none"]
    /\ at = [c \in Client |-> "none"]
    /\ done = 0
    /\ acting = NoRequest
    /\ unpausing = FALSE
    /\ active_clients = 0
    /\ blocked_clients = 0
    /\ buffered_clients = 0
    /\ pause = "none"
    /\ pause_owner = NoClient
    /\ held = [c \in Client |-> FALSE]
    /\ items = 0
    /\ sent = [c \in Client |-> 0]
    /\ answered = [c \in Client |-> 0]
    /\ carried_out = [c \in Client |-> 0]
    /\ requests = 0
    /\ accepts = 0

-----------------------------------------------------------------------------
(* Mutation: only the first request of the input is looked at. *)
PauseBlocksFirst(c, reqs) ==
    /\ pause # "none"
    /\ c # pause_owner
    /\ pause = "write" => reqs # <<>> /\ Head(reqs).op \in WriteOps

(* server_client_pause_blocks_input: who asked for the pause is exempt.    *)
PauseBlocks(c, reqs) ==
    /\ pause # "none"
    /\ c # pause_owner
    /\ pause = "write" => \E i \in DOMAIN reqs : reqs[i].op \in WriteOps

IsBlocked(c) == blocking[c] /\ blocked_request[c] # <<>>

(* What the input would hold with the blocked request back in front of it. *)
Full(c) == Len(blocked_request[c]) + Len(input[c]) + (IF partial[c] THEN 1 ELSE 0)
HasInput(c) == input[c] # <<>> \/ partial[c]

(* server_client_pending_write *)
PendingWrite(c) == at[c] = "sending"

(* Mutation: the block is reset before the counter is looked after. *)
CloseSlotKeepsBlocked(c) ==
    /\ UNCHANGED blocked_clients
    /\ buffered_clients' = IF HasInput(c) THEN Less(buffered_clients) ELSE buffered_clients
    /\ active_clients' = Less(active_clients)
    /\ open' = [open EXCEPT ![c] = FALSE]
    /\ peer_gone' = [peer_gone EXCEPT ![c] = FALSE]
    /\ sock' = [sock EXCEPT ![c] = <<>>]
    /\ input' = [input EXCEPT ![c] = <<>>]
    /\ partial' = [partial EXCEPT ![c] = FALSE]
    /\ blocked_request' = [blocked_request EXCEPT ![c] = <<>>]
    /\ blocking' = [blocking EXCEPT ![c] = FALSE]
    /\ deadline' = [deadline EXCEPT ![c] = "none"]
    /\ sent' = [sent EXCEPT ![c] = 0]
    /\ answered' = [answered EXCEPT ![c] = 0]
    /\ carried_out' = [carried_out EXCEPT ![c] = 0]
    /\ UNCHANGED <<requests, accepts>>

(* server_close_client_slot: counters, then everything of the connection.  *)
(* The id of a client is never given out again.                            *)
CloseSlot(c) ==
    /\ blocked_clients' = IF IsBlocked(c) THEN Less(blocked_clients) ELSE blocked_clients
    /\ buffered_clients' = IF HasInput(c) THEN Less(buffered_clients) ELSE buffered_clients
    /\ active_clients' = Less(active_clients)
    /\ open' = [open EXCEPT ![c] = FALSE]
    /\ peer_gone' = [peer_gone EXCEPT ![c] = FALSE]
    /\ sock' = [sock EXCEPT ![c] = <<>>]
    /\ input' = [input EXCEPT ![c] = <<>>]
    /\ partial' = [partial EXCEPT ![c] = FALSE]
    /\ blocked_request' = [blocked_request EXCEPT ![c] = <<>>]
    /\ blocking' = [blocking EXCEPT ![c] = FALSE]
    /\ deadline' = [deadline EXCEPT ![c] = "none"]
    /\ sent' = [sent EXCEPT ![c] = 0]
    /\ answered' = [answered EXCEPT ![c] = 0]
    /\ carried_out' = [carried_out EXCEPT ![c] = 0]
    /\ UNCHANGED <<requests, accepts>>

(* The call is over, with whatever its requests wanted of the server. *)
EndCall == done' = 0 /\ acting' = NoRequest /\ unpausing' = FALSE

Forget(c) ==
    /\ pause_owner' = IF pause_owner = c THEN NoClient ELSE pause_owner
    /\ held' = [held EXCEPT ![c] = FALSE]

(* A client is closed from its own frame, or by the loop. *)
Close(c) ==
    /\ CloseSlot(c)
    /\ at' = [at EXCEPT ![c] = "none"]
    /\ EndCall
    /\ Forget(c)
    /\ UNCHANGED <<pause, items>>

-----------------------------------------------------------------------------
(* What the loop does between two polls. *)

(* The head of the loop in server_client_async: what is paused gives the   *)
(* frame up.                                                               *)
Enter(c, reqs) == IF PauseBlocks(c, reqs) THEN "none" ELSE "inner"

(* server_accept_once *)
Accept(c) ==
    /\ Idle
    /\ accepts < MaxAccepts
    /\ active_clients < MaxClients
    /\ ~open[c]
    /\ open' = [open EXCEPT ![c] = TRUE]
    /\ active_clients' = active_clients + 1
    /\ accepts' = accepts + 1
    /\ held' = [held EXCEPT ![c] = pause # "none"]
    /\ UNCHANGED <<peer_gone, sock, buffers, block, at, call, blocked_clients, buffered_clients,
                   pause, pause_owner, items, sent, answered, carried_out, requests>>

(* Mutation: the request goes behind the input. *)
VisitBlockedAppends(c) ==
    /\ Idle
    /\ blocked_clients # 0
    /\ open[c] /\ IsBlocked(c)
    /\ ~PendingWrite(c)
    /\ ~PauseBlocks(c, blocked_request[c])
    /\ IF Full(c) > InputCap
       THEN Close(c)
       ELSE /\ buffered_clients' =
                  IF HasInput(c) THEN buffered_clients ELSE buffered_clients + 1
            /\ blocked_clients' = Less(blocked_clients)
            /\ input' = [input EXCEPT ![c] = @ \o blocked_request[c]]
            /\ blocked_request' = [blocked_request EXCEPT ![c] = <<>>]
            /\ blocking' = [blocking EXCEPT ![c] = FALSE]
            /\ at' = [at EXCEPT ![c] = Enter(c, input'[c])]
            /\ UNCHANGED <<connection, partial, deadline, call, active_clients, pausing,
                           items, history>>

(* Mutation: a client with input behind its block is passed over. *)
VisitBlockedWithoutInput(c) ==
    /\ ~HasInput(c)
    /\ Idle
    /\ blocked_clients # 0
    /\ open[c] /\ IsBlocked(c)
    /\ ~PendingWrite(c)
    /\ ~PauseBlocks(c, blocked_request[c])
    /\ buffered_clients' = buffered_clients + 1
    /\ blocked_clients' = Less(blocked_clients)
    /\ input' = [input EXCEPT ![c] = blocked_request[c]]
    /\ blocked_request' = [blocked_request EXCEPT ![c] = <<>>]
    /\ blocking' = [blocking EXCEPT ![c] = FALSE]
    /\ at' = [at EXCEPT ![c] = Enter(c, input'[c])]
    /\ UNCHANGED <<connection, partial, deadline, call, active_clients, pausing, items, history>>

(* server_run_blocked_clients_at: the request goes back in front of the    *)
(* input, and is executed again.  The slot whose request does not fit is   *)
(* closed: the code's error path, which TypeOK (Full(c) <= InputCap) and   *)
(* lemma BlockedGoesBack show is never taken.                              *)
VisitBlocked(c) ==
    /\ Idle
    /\ blocked_clients # 0
    /\ open[c] /\ IsBlocked(c)
    /\ ~PendingWrite(c)
    /\ ~PauseBlocks(c, blocked_request[c])
    /\ IF Full(c) > InputCap
       THEN Close(c)
       ELSE /\ buffered_clients' =
                  IF HasInput(c) THEN buffered_clients ELSE buffered_clients + 1
            /\ blocked_clients' = Less(blocked_clients)
            /\ input' = [input EXCEPT ![c] = blocked_request[c] \o @]
            /\ blocked_request' = [blocked_request EXCEPT ![c] = <<>>]
            /\ blocking' = [blocking EXCEPT ![c] = FALSE]
            /\ at' = [at EXCEPT ![c] = Enter(c, input'[c])]
            /\ UNCHANGED <<connection, partial, deadline, call, active_clients, pausing,
                           items, history>>

(* server_run_buffered_clients_at.  A frame that waits for input stays at  *)
(* its read.                                                               *)
VisitBuffered(c) ==
    /\ Idle
    /\ buffered_clients # 0
    /\ open[c]
    /\ ~blocking[c]
    /\ HasInput(c)
    /\ at[c] = "none"
    /\ ~PauseBlocks(c, input[c])
    /\ at' = [at EXCEPT ![c] = Enter(c, input[c])]
    /\ UNCHANGED <<connection, buffers, block, call, counters, pausing, items, history>>

(* server_handle_client_fd, when there is something to read and no frame. *)
Readable(c) ==
    /\ Idle
    /\ open[c]
    /\ ~blocking[c]
    /\ sock[c] # <<>> \/ peer_gone[c]
    /\ at[c] = "none"
    /\ ~PauseBlocks(c, input[c])
    /\ at' = [at EXCEPT ![c] = Enter(c, input[c])]
    /\ UNCHANGED <<connection, buffers, block, call, counters, pausing, items, history>>

(* The same, when the peer has read: the rest of the reply is sent and the *)
(* frame goes on with its input.  A pause does not stop it.                *)
Writable(c) ==
    /\ Idle
    /\ PendingWrite(c)
    /\ at' = [at EXCEPT ![c] = "inner"]
    /\ UNCHANGED <<connection, buffers, block, call, counters, pausing, items, history>>

WriteFails(c) ==
    /\ Idle
    /\ PendingWrite(c)
    /\ peer_gone[c]
    /\ Close(c)

(* server_close_idle_clients_at *)
CloseIdle(c) ==
    /\ Idle
    /\ open[c]
    /\ ~blocking[c]
    /\ ~PendingWrite(c)
    /\ Close(c)

-----------------------------------------------------------------------------
(* server_client_async, from one wait to the next. *)

(* A frame reads at its own read, or where it was left waiting. *)
AtRead(c) ==
    /\ input[c] = <<>>
    /\ \/ at[c] = "inner"
       \/ at[c] = "reading" /\ Idle /\ ~PauseBlocks(c, input[c])

(* Mutation: the buffer is taken for empty when it holds a part. *)
ReadPastPart(c) ==
    /\ AtRead(c)
    /\ \E n \in 0..InputCap, more \in BOOLEAN :
          /\ n > 0 \/ (more /\ ~partial[c])
          /\ (IF more THEN n + 1 ELSE n) <= Len(sock[c])
          /\ n <= InputCap
          /\ input' = [input EXCEPT ![c] = SubSeq(sock[c], 1, n)]
          /\ partial' = [partial EXCEPT ![c] = more]
          /\ sock' = [sock EXCEPT ![c] = Drop(@, n)]
    /\ buffered_clients' = IF HasInput(c) THEN buffered_clients ELSE buffered_clients + 1
    /\ at' = [at EXCEPT ![c] = Enter(c, input'[c])]
    /\ UNCHANGED <<open, peer_gone, blocked_request, block, call, active_clients,
                   blocked_clients, pausing, items, history>>

(* Nothing has arrived yet. *)
WaitForInput(c) ==
    /\ at[c] = "inner"
    /\ input[c] = <<>>
    /\ sock[c] = <<>> \/ partial[c]
    /\ ~peer_gone[c]
    /\ at' = [at EXCEPT ![c] = "reading"]
    /\ UNCHANGED <<connection, buffers, block, call, counters, pausing, items, history>>

(* A read takes requests, the last of them perhaps in part. *)
Read(c) ==
    /\ AtRead(c)
    /\ \E n \in 0..InputCap, more \in BOOLEAN :
          /\ n > 0 \/ (more /\ ~partial[c])
          /\ (IF more THEN n + 1 ELSE n) <= Len(sock[c])
          /\ (IF more THEN n + 1 ELSE n) <= InputCap
          /\ input' = [input EXCEPT ![c] = SubSeq(sock[c], 1, n)]
          /\ partial' = [partial EXCEPT ![c] = more]
          /\ sock' = [sock EXCEPT ![c] = Drop(@, n)]
    /\ buffered_clients' = IF HasInput(c) THEN buffered_clients ELSE buffered_clients + 1
    /\ at' = [at EXCEPT ![c] = Enter(c, input'[c])]
    /\ UNCHANGED <<open, peer_gone, blocked_request, block, call, active_clients,
                   blocked_clients, pausing, items, history>>

(* A read finds that the peer has gone. *)
ReadEnd(c) ==
    /\ AtRead(c)
    /\ sock[c] = <<>> \/ partial[c]
    /\ peer_gone[c]
    /\ Close(c)

(* Mutation: a client is uncounted whenever something is consumed. *)
ShiftInputUncounts(c, n) ==
    /\ input' = [input EXCEPT ![c] = Drop(@, n)]
    /\ buffered_clients' = Less(buffered_clients)

(* server_client_shift_input *)
ShiftInput(c, n) ==
    /\ input' = [input EXCEPT ![c] = Drop(@, n)]
    /\ buffered_clients' = IF n = Len(input[c]) /\ ~partial[c]
                           THEN Less(buffered_clients) ELSE buffered_clients

Current(c) == input[c][done + 1]
Executes(c) == at[c] = "inner" /\ done < Len(input[c])
Waits(c, r) == r.op \in BlockingOps /\ items = 0 /\ deadline[c] # "passed"

(* connection_execute_blocking_pop_command_at found nothing: what the call *)
(* consumed is kept as the blocked request.  Replies and wishes of what    *)
(* came before it are dropped with the result of the call.                 *)
Block(c) ==
    /\ Executes(c)
    /\ Waits(c, Current(c))
    /\ blocking' = [blocking EXCEPT ![c] = TRUE]
    /\ deadline' = [deadline EXCEPT ![c] = IF Current(c).op = "pop" THEN "set" ELSE "none"]
    /\ blocked_request' = [blocked_request EXCEPT ![c] = SubSeq(input[c], 1, done + 1)]
    /\ blocked_clients' = blocked_clients + 1
    /\ ShiftInput(c, done + 1)
    /\ at' = [at EXCEPT ![c] = "none"]
    /\ EndCall
    /\ UNCHANGED <<connection, partial, active_clients, pausing, items, history>>

(* It is longer than SERVER_BLOCKED_REQUEST_CAP. *)
BlockTooLong(c) ==
    /\ Executes(c)
    /\ Waits(c, Current(c))
    /\ Close(c)

Execute(c) ==
    LET r == Current(c) IN
    /\ ~Waits(c, r)
    /\ items' = CASE r.op = "push" -> items + 1
                  [] r.op \in BlockingOps -> Less(items)
                  [] OTHER -> items
    /\ deadline' = IF r.op \in BlockingOps THEN [deadline EXCEPT ![c] = "none"] ELSE deadline
    /\ carried_out' = [carried_out EXCEPT ![c] = @ + 1]
    /\ unpausing' = (unpausing \/ r.op = "unpause")

(* Requests that find nobody to act on are answered on the spot. *)
EndsBatch(r) ==
    \/ r.op \in {"pause", "pause_write"}
    \/ r.op = "kill" /\ open[r.to]
    \/ r.op = "unblock" /\ open[r.to]

(* A request that others of the same call follow; a call takes several if  *)
(* its input is longer than CONNECTION_BATCH_PARSE_MIN_INPUT.              *)
ExecuteInBatch(c) ==
    /\ Executes(c)
    /\ done + 1 < Len(input[c])
    /\ ~EndsBatch(Current(c))
    /\ Execute(c)
    /\ done' = done + 1
    /\ UNCHANGED <<connection, buffers, blocking, at, acting, counters, pausing, sent,
                   answered, requests, accepts>>

(* Mutation: each reply of a batch overwrites the one before it. *)
ExecuteLastRepliesOnce(c) ==
    /\ Executes(c)
    /\ done = 0 \/ done + 1 = Len(input[c]) \/ EndsBatch(Current(c))
    /\ Execute(c)
    /\ ShiftInput(c, done + 1)
    /\ answered' = [answered EXCEPT ![c] = @ + 1]
    /\ acting' = IF EndsBatch(Current(c)) THEN Current(c) ELSE NoRequest
    /\ at' = [at EXCEPT ![c] =
                 IF EndsBatch(Current(c)) \/ unpausing' THEN "acting" ELSE "replying"]
    /\ UNCHANGED <<connection, partial, blocked_request, blocking, done, active_clients,
                   blocked_clients, pausing, sent, requests, accepts>>

(* The last request of a batch, or a single one. *)
ExecuteLast(c) ==
    /\ Executes(c)
    /\ done = 0 \/ done + 1 = Len(input[c]) \/ EndsBatch(Current(c))
    /\ Execute(c)
    /\ ShiftInput(c, done + 1)
    /\ answered' = [answered EXCEPT ![c] = @ + done + 1]
    /\ acting' = IF EndsBatch(Current(c)) THEN Current(c) ELSE NoRequest
    /\ at' = [at EXCEPT ![c] =
                 IF EndsBatch(Current(c)) \/ unpausing' THEN "acting" ELSE "replying"]
    /\ UNCHANGED <<connection, partial, blocked_request, blocking, done, active_clients,
                   blocked_clients, pausing, sent, requests, accepts>>

-----------------------------------------------------------------------------
(* What a call wants of the server, which sees to UNPAUSE first. *)
PauseAfterUnpause == IF unpausing THEN "none" ELSE pause

Unpause ==
    /\ pause' = PauseAfterUnpause
    /\ pause_owner' = IF unpausing THEN NoClient ELSE pause_owner
    /\ held' = IF unpausing THEN [d \in Client |-> FALSE] ELSE held

ActUnpause(c) ==
    /\ at[c] = "acting"
    /\ acting = NoRequest
    /\ Unpause
    /\ at' = [at EXCEPT ![c] = "replying"]
    /\ UNCHANGED <<connection, buffers, block, call, counters, items, history>>

ActPause(c) ==
    /\ at[c] = "acting"
    /\ acting.op \in {"pause", "pause_write"}
    /\ pause' = IF acting.op = "pause" THEN "all" ELSE "write"
    /\ pause_owner' = c
    /\ held' = [d \in Client |-> open[d] /\ d # c /\ ~PendingWrite(d)]
    /\ at' = [at EXCEPT ![c] = "replying"]
    /\ UNCHANGED <<connection, buffers, block, call, counters, items, history>>

(* server_kill_clients_matching: who asks closes itself behind its reply. *)
ActKill(c) ==
    /\ at[c] = "acting"
    /\ acting.op = "kill"
    /\ IF acting.to = c
       THEN /\ Unpause
            /\ at' = [at EXCEPT ![c] = "replying"]
            /\ UNCHANGED <<connection, buffers, block, counters, history>>
       ELSE /\ CloseSlot(acting.to)
            /\ pause' = PauseAfterUnpause
            /\ pause_owner' = IF unpausing \/ pause_owner = acting.to
                              THEN NoClient ELSE pause_owner
            /\ held' = [d \in Client |-> held[d] /\ d # acting.to /\ ~unpausing]
            /\ at' = [at EXCEPT ![c] = "replying", ![acting.to] = "none"]
    /\ UNCHANGED <<call, items>>

(* server_client_unblock_by_id: the target is answered at once.  With      *)
(* nothing to unblock the reply becomes ":0", and replaces those of the    *)
(* requests in front of it in the call.                                    *)
ActUnblock(c) ==
    LET t == acting.to IN
    /\ at[c] = "acting"
    /\ acting.op = "unblock"
    /\ Unpause
    /\ IF IsBlocked(t)
       THEN /\ blocked_clients' = Less(blocked_clients)
            /\ blocking' = [blocking EXCEPT ![t] = FALSE]
            /\ deadline' = [deadline EXCEPT ![t] = "none"]
            /\ blocked_request' = [blocked_request EXCEPT ![t] = <<>>]
            /\ answered' = [answered EXCEPT ![t] = @ + 1]
            /\ carried_out' = [carried_out EXCEPT ![t] = @ + 1]
       ELSE /\ answered' = [answered EXCEPT ![c] = @ - done]
            /\ UNCHANGED <<blocked_clients, block, blocked_request, carried_out>>
    /\ at' = [at EXCEPT ![c] = "replying"]
    /\ UNCHANGED <<connection, input, partial, call, active_clients, buffered_clients, items,
                   sent, requests, accepts>>

(* The same when the target cannot be answered. *)
ActUnblockFails(c) ==
    LET t == acting.to IN
    /\ at[c] = "acting"
    /\ acting.op = "unblock"
    /\ IsBlocked(t)
    /\ CloseSlot(t)
    /\ pause' = PauseAfterUnpause
    /\ pause_owner' = IF unpausing \/ pause_owner = t THEN NoClient ELSE pause_owner
    /\ held' = [d \in Client |-> held[d] /\ d # t /\ ~unpausing]
    /\ at' = [at EXCEPT ![c] = "replying"]
    /\ UNCHANGED <<call, items>>

KillsItself(c) == acting.op = "kill" /\ acting.to = c

(* The reply leaves at once, or waits until the peer has read. *)
Reply(c) ==
    /\ at[c] = "replying"
    /\ ~KillsItself(c)
    /\ \E next \in {"inner", "sending"} : at' = [at EXCEPT ![c] = next]
    /\ EndCall
    /\ UNCHANGED <<connection, buffers, block, counters, pausing, items, history>>

(* close_after_write, or the peer has gone. *)
ReplyAndClose(c) ==
    /\ at[c] = "replying"
    /\ KillsItself(c) \/ peer_gone[c]
    /\ Close(c)

-----------------------------------------------------------------------------
(* The clients' end, and the clock.  What a client does while a frame runs *)
(* is taken to happen between two polls: a read finds any part of it.      *)
Unanswered(c) == blocked_request[c] \o input[c] \o sock[c]

SendRequest(c, op, to) ==
    /\ Idle
    /\ open[c] /\ ~peer_gone[c]
    /\ requests < MaxRequests
    /\ op \in Pipelined \/ Unanswered(c) = <<>>
    /\ (to \in Client) = (op \in TargetOps)
    /\ op = "unblock" => to # c
    /\ sent' = [sent EXCEPT ![c] = @ + 1]
    /\ sock' = [sock EXCEPT ![c] = Append(@, [id |-> sent[c] + 1, op |-> op, to |-> to])]
    /\ requests' = requests + 1
    /\ UNCHANGED <<open, peer_gone, buffers, block, at, call, counters, pausing, items,
                   answered, carried_out, accepts>>

PeerGoes(c) ==
    /\ Idle
    /\ open[c] /\ ~peer_gone[c]
    /\ peer_gone' = [peer_gone EXCEPT ![c] = TRUE]
    /\ UNCHANGED <<open, sock, buffers, block, at, call, counters, pausing, items, history>>

(* event_time_ms is read once for a round. *)
DeadlinePasses(c) ==
    /\ Idle
    /\ deadline[c] = "set"
    /\ deadline' = [deadline EXCEPT ![c] = "passed"]
    /\ UNCHANGED <<connection, buffers, blocking, at, call, counters, pausing, items, history>>

(* server_client_pause_active_at *)
PauseEnds ==
    /\ Idle
    /\ pause # "none"
    /\ pause' = "none"
    /\ pause_owner' = NoClient
    /\ held' = [c \in Client |-> FALSE]
    /\ UNCHANGED <<connection, buffers, block, at, call, counters, items, history>>

-----------------------------------------------------------------------------
Visit(c) ==
    \/ Accept(c) \/ VisitBlocked(c) \/ VisitBuffered(c) \/ Readable(c)
    \/ Writable(c) \/ WriteFails(c) \/ CloseIdle(c)

Frame(c) ==
    \/ WaitForInput(c) \/ Read(c) \/ ReadEnd(c)
    \/ Block(c) \/ BlockTooLong(c) \/ ExecuteInBatch(c) \/ ExecuteLast(c)
    \/ ActUnpause(c) \/ ActPause(c) \/ ActKill(c) \/ ActUnblock(c) \/ ActUnblockFails(c)
    \/ Reply(c) \/ ReplyAndClose(c)

Next ==
    \/ \E c \in Client : Visit(c) \/ Frame(c) \/ PeerGoes(c) \/ DeadlinePasses(c)
    \/ \E c \in Client, op \in Ops, to \in Client \cup {NoClient} : SendRequest(c, op, to)
    \/ PauseEnds

Spec == Init /\ [][Next]_vars

RunsOn == \E c \in Client : at[c] # "reading" /\ Frame(c)

Attend(c) ==
    \/ VisitBlocked(c) \/ VisitBuffered(c) \/ Readable(c)
    \/ at[c] = "reading" /\ (Read(c) \/ ReadEnd(c))

TimePasses == PauseEnds \/ \E c \in Client : DeadlinePasses(c)

(* A frame runs on.  Every round of the loop visits every client, but the  *)
(* others run in between (hence SF).  Pauses and deadlines end.  Nothing   *)
(* makes a peer read, send or leave.                                       *)
FairSpec ==
    /\ Spec
    /\ WF_vars(RunsOn)
    /\ \A c \in Client : SF_vars(Attend(c))
    /\ SF_vars(TimePasses)

-----------------------------------------------------------------------------
(* Each variable has its type, and what a client has read, blocked request *)
(* included, fits its input buffer.                                        *)
TypeOK ==
    /\ open \in [Client -> BOOLEAN] /\ peer_gone \in [Client -> BOOLEAN]
    /\ {sock, input, blocked_request} \subseteq [Client -> Seq(Request)]
    /\ {sent, answered, carried_out} \subseteq [Client -> Nat]
    /\ acting \in Request \cup {NoRequest}
    /\ partial \in [Client -> BOOLEAN]
    /\ blocking \in [Client -> BOOLEAN]
    /\ deadline \in [Client -> {"none", "set", "passed"}]
    /\ at \in [Client -> Place]
    /\ unpausing \in BOOLEAN
    /\ {active_clients, blocked_clients, buffered_clients, items, done} \subseteq Nat
    /\ pause \in {"none", "write", "all"} /\ pause_owner \in Client \cup {NoClient}
    /\ held \in [Client -> BOOLEAN]
    /\ \A c \in Client : Full(c) <= InputCap

(* The counters that let the loop skip its visits, and that let clients in,*)
(* are the numbers of the clients they count, however blocks, unblocks,    *)
(* kills, timeouts and disconnects meet: one too few and a client is never *)
(* visited again, one too many and nobody is let in.                       *)
CountersAgree ==
    /\ active_clients = Cardinality({c \in Client : open[c]})
    /\ blocked_clients = Cardinality({c \in Client : IsBlocked(c)})
    /\ buffered_clients = Cardinality({c \in Client : HasInput(c)})

(* Blocking, unblocking and reading in parts lose, repeat or reorder no    *)
(* request: what is blocked, read and on its way is what was sent and not  *)
(* answered, in that order.                                                *)
RequestsInOrder ==
    \A c \in Client :
       LET q == Unanswered(c) IN
       /\ Len(q) = sent[c] - answered[c]
       /\ \A i \in DOMAIN q : q[i].id = answered[c] + i

(* Between two polls every request that was answered has been carried out, *)
(* and no other: a blocked request leaves nothing behind when it is put    *)
(* away to be executed again.                                              *)
CarriedOutOnce == Idle => \A c \in Client : carried_out[c] = answered[c]

(* architecture.md:122, the blocked request is replayed: however often, a  *)
(* client's requests are not carried out more often than it sent them.     *)
NothingCarriedOutTwice == \A c \in Client : carried_out[c] <= sent[c]

(* A client that a CLIENT PAUSE has to hold, one that was not in the middle*)
(* of a reply when it began, executes nothing the pause is about until it  *)
(* ends: whether it is blocked, has input, or input arrives.               *)
PauseHolds ==
    [][\A c \in Client :
          held[c] /\ carried_out'[c] > carried_out[c] /\ at[c] = "inner"
             => pause = "write" /\ Current(c).op \notin WriteOps]_vars

(* A request is answered, unless its client is closed, does not read, or   *)
(* waits for an item without a timeout.                                    *)
WaitsForEver(c) ==
    \/ PendingWrite(c)
    \/ Idle /\ IsBlocked(c) /\ deadline[c] = "none"

RequestsAnswered ==
    \A c \in Client :
       sent[c] > answered[c] ~> (sent[c] = answered[c] \/ ~open[c] \/ WaitsForEver(c))

(* A client that waits for an item while there is one gets it, unless      *)
(* others get them all.                                                    *)
BlockedClientsServed ==
    \A c \in Client :
       (Idle /\ IsBlocked(c) /\ items > 0) ~> (items = 0 \/ (Idle /\ ~IsBlocked(c)))
=============================================================================
