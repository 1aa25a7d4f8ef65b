----------------------------- MODULE DirtyKeys -----------------------------
(***************************************************************************)
(* What WATCH, MULTI and EXEC promise, with no versions and no counters: a *)
(* change of a key makes it dirty for everyone who watches it, and EXEC    *)
(* runs a transaction exactly when nothing its client watches is dirty;    *)
(* nobody else changes a key until it ends.  Module Transactions           *)
(* implements this by comparing versions it only keeps while it must.      *)
(***************************************************************************)
EXTENDS Naturals

CONSTANTS Client, Key, NoClient

VARIABLES
    rev,        \* how often a key was changed
    watching,   \* <<client, key>>
    dirty,      \* those changed since the client watched the key
    running,    \* whose transaction runs
    reply       \* what the client's last EXEC said

dvars == <<rev, watching, dirty, running, reply>>

Of(c) == {c} \X Key

Init ==
    /\ rev = [k \in Key |-> 0]
    /\ watching = {}
    /\ dirty = {}
    /\ running = NoClient
    /\ reply = [c \in Client |-> "none"]

Change(K) ==
    /\ rev' = [k \in Key |-> IF k \in K THEN rev[k] + 1 ELSE rev[k]]
    /\ dirty' = dirty \cup {w \in watching : w[2] \in K}
    /\ UNCHANGED <<watching, running, reply>>

Watch(c, k) ==
    /\ running = NoClient
    /\ watching' = watching \cup {<<c, k>>}
    /\ dirty' = dirty \ {<<c, k>>}
    /\ UNCHANGED <<rev, running, reply>>

Forget(c) ==
    /\ running = NoClient
    /\ watching' = watching \ Of(c)
    /\ dirty' = dirty \ Of(c)
    /\ UNCHANGED <<rev, running, reply>>

Begin(c) ==
    /\ running = NoClient
    /\ dirty \cap Of(c) = {}
    /\ running' = c
    /\ reply' = [reply EXCEPT ![c] = "array"]
    /\ UNCHANGED <<rev, watching, dirty>>

End(c) ==
    /\ running = c
    /\ running' = NoClient
    /\ watching' = watching \ Of(c)
    /\ dirty' = dirty \ Of(c)
    /\ UNCHANGED <<rev, reply>>

Abort(c) ==
    /\ running = NoClient
    /\ dirty \cap Of(c) # {}
    /\ watching' = watching \ Of(c)
    /\ dirty' = dirty \ Of(c)
    /\ reply' = [reply EXCEPT ![c] = "null"]
    /\ UNCHANGED <<rev, running>>

Next ==
    \/ \E K \in SUBSET Key : Change(K)
    \/ \E c \in Client :
          \/ \E k \in Key : Watch(c, k)
          \/ Forget(c)
          \/ Begin(c)
          \/ End(c)
          \/ Abort(c)

Spec == Init /\ [][Next]_dvars
=============================================================================
