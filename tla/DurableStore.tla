---------------------------- MODULE DurableStore ----------------------------
(***************************************************************************)
(* What an append-only file without fsync promises of a store, whatever    *)
(* buffers, files and children keep the promise: a killed process comes    *)
(* back with the state of one earlier moment, the last one at which the    *)
(* store wrote out its log; an orderly stop loses nothing.  Module         *)
(* Persistence implements this.                                            *)
(***************************************************************************)
CONSTANTS
    Fresh,          \* the empty store
    Write,          \* write commands
    Apply(_, _)     \* the state a command leads to

VARIABLES
    mem,            \* the state served; the state to come back while down
    durable,        \* the state a killed process comes back with
    live            \* FALSE between a crash or stop and the restart

dvars == <<mem, durable, live>>

Init ==
    /\ mem = Fresh
    /\ durable = Fresh
    /\ live = TRUE

(* The log may be written out just before the command joins it. *)
Execute(c) ==
    /\ live = TRUE
    /\ mem' = Apply(mem, c)
    /\ durable' \in {durable, mem}
    /\ UNCHANGED live

WriteOut ==
    /\ live = TRUE
    /\ durable' = mem
    /\ UNCHANGED <<mem, live>>

Kill ==
    /\ live = TRUE
    /\ mem' = durable
    /\ live' = FALSE
    /\ UNCHANGED durable

Stop ==
    /\ live = TRUE
    /\ durable' = mem
    /\ live' = FALSE
    /\ UNCHANGED mem

Restart ==
    /\ live = FALSE
    /\ live' = TRUE
    /\ UNCHANGED <<mem, durable>>

Next ==
    \/ \E c \in Write : Execute(c)
    \/ WriteOut
    \/ Kill
    \/ Stop
    \/ Restart

Spec == Init /\ [][Next]_dvars
=============================================================================
