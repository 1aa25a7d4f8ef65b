---------------------------- MODULE CommandMeta ----------------------------
(***************************************************************************)
(* What scripts/generate_command_catalog.py derives from the page of one   *)
(* command, and how scripts/verify_command_scope.py judges the outcome.    *)
(*                                                                         *)
(* A title, and the name made of it, is the sequence of its words:         *)
(* "CONFIG GET" and "config|get" are <<"config", "get">>.  A page is a     *)
(* record of the metadata fields that are read; a field the page lacks is  *)
(* Missing.  An argument is a node with its nested arguments:              *)
(*   [type, token (it is introduced by a word), optional, multiple, args]  *)
(* What is said of a node with all that is nested in it is a recursive     *)
(* function over the nodes there are.                                      *)
(***************************************************************************)
EXTENDS Integers, Sequences, FiniteSets, SequencesExt

CONSTANTS
    Missing,                \* a field that is not in the metadata
    Argument,               \* the argument nodes of the pages
    Depth,                  \* node -> the levels that are nested in it
    ALIAS_NAMES,            \* the hand-kept lists of names
    PARTIAL_NAMES,
    FULL_NAMES,
    STANDALONE_ERROR_NAMES

(* The metadata of a page is a JSON document: nested, but finitely deep. *)
ASSUME ArgumentAssumption ==
    \A arg \in Argument :
        /\ {arg.token, arg.optional, arg.multiple} \subseteq BOOLEAN
        /\ arg.args \in Seq(Argument)
        /\ Depth[arg] \in Nat
        /\ \A i \in DOMAIN arg.args : Depth[arg.args[i]] < Depth[arg]

TIER_A_GROUPS == {"bitmap", "connection", "generic", "geo", "hash", "hyperloglog", "list",
    "pubsub", "scripting", "server", "set", "sorted-set", "stream", "string", "transactions"}
TIER_B_GROUPS == {"cluster", "sentinel"}
TIER_C_GROUPS == {"array", "bf", "cf", "cms", "json", "search", "suggestion", "tdigest",
    "timeseries", "topk", "vector_set"}
ADVANCED_GROUPS == TIER_C_GROUPS \cup {"bitmap", "geo", "hyperloglog"}
OPS_TARGET_NAMES == {"acl", "latency", "memory", "module", "monitor", "slowlog"}

Tiered(group) == group \in TIER_A_GROUPS \cup TIER_B_GROUPS \cup TIER_C_GROUPS

-----------------------------------------------------------------------------
(* Arguments.                                                              *)

SumOf(s) == FoldSeq(LAMBDA n, m : n + m, 0, s)
Each(f, s) == [i \in DOMAIN s |-> f[s[i]]]

(* A node and all that is nested in it; the nodes of a list of arguments. *)
Nested[arg \in Argument] == {arg} \cup UNION {Nested[arg.args[i]] : i \in DOMAIN arg.args}
ArgumentNodes(args) == UNION {Nested[args[i]] : i \in DOMAIN args}

IsPattern(args) == \E node \in ArgumentNodes(args) : node.type = "pattern"

Prefix(arg) == IF arg.token THEN 1 ELSE 0

(* The fewest words an argument takes, as the generator counts them. *)
MinTokens[arg \in Argument] ==
    CASE arg.optional \/ arg.multiple -> 0
      [] ~(arg.optional \/ arg.multiple) /\ arg.type = "oneof" ->
            IF arg.args = <<>> THEN 0 ELSE Prefix(arg) + Min(ToSet(Each(MinTokens, arg.args)))
      [] ~(arg.optional \/ arg.multiple) /\ arg.type = "block" ->
            Prefix(arg) + SumOf(Each(MinTokens, arg.args))
      [] OTHER -> 1

IsVariable[arg \in Argument] ==
    \/ arg.optional \/ arg.multiple
    \/ arg.type \in {"oneof", "block"}
    \/ \E i \in DOMAIN arg.args : IsVariable[arg.args[i]]

(* Mutation: every argument is one word. *)
InferArityByCount(page) ==
    IF page.arity # Missing THEN page.arity
    ELSE IF page.arguments = Missing THEN 0
    ELSE LET minimum == 1 + Len(page.arguments)
         IN  IF \E i \in DOMAIN page.arguments : IsVariable[page.arguments[i]]
             THEN -minimum ELSE minimum

InferArity(page) ==
    IF page.arity # Missing THEN page.arity
    ELSE IF page.arguments = Missing THEN 0
    ELSE LET minimum == 1 + SumOf(Each(MinTokens, page.arguments))
         IN  IF \E i \in DOMAIN page.arguments : IsVariable[page.arguments[i]]
             THEN -minimum ELSE minimum

(* Reference: how many words an argument can take in a call, from what its *)
(* fields mean to Redis, `multiple' standing for one or two occurrences.   *)
Sums(A, B) == {a + b : a \in A, b \in B}

Lengths[arg \in Argument] ==
    LET below == Each(Lengths, arg.args)
        once  == Sums({Prefix(arg)},
                      CASE arg.type = "oneof" -> UNION ToSet(below)
                        [] arg.type = "block" -> FoldSeq(Sums, {0}, below)
                        [] OTHER -> {1})
        times == once \cup (IF arg.multiple THEN Sums(once, once) ELSE {})
    IN  times \cup (IF arg.optional THEN {0} ELSE {})

CallLengths(page) == FoldSeq(Sums, {Len(page.title)}, Each(Lengths, page.arguments))

-----------------------------------------------------------------------------
(* Flags and key positions.                                                *)

InferFlags(page) ==
    IF page.command_flags \notin {Missing, {}} THEN page.command_flags
    ELSE (IF "@write" \in page.acl THEN {"write"}
          ELSE IF "@read" \in page.acl THEN {"readonly"} ELSE {})
         \cup (IF "@fast" \in page.acl THEN {"fast"} ELSE {})

KeySpec(search, index, find, lastkey, keystep, flags) ==
    [search |-> search, index |-> index, find |-> find, lastkey |-> lastkey,
     keystep |-> keystep, flags |-> flags]

InferKeySpecs(page, flags) ==
    LET keys == IF page.arguments = Missing THEN {}
                ELSE {node \in ArgumentNodes(page.arguments) : node.type = "key"}
        last == IF \E key \in keys : key.multiple THEN -1 ELSE 0
        access == IF "readonly" \in flags /\ "write" \notin flags
                  THEN {"access", "RO"} ELSE {"access", "RW", "update"}
    IN  IF page.key_specs \notin {Missing, <<>>} THEN page.key_specs
        ELSE IF keys = {} THEN <<>>
        ELSE <<KeySpec("index", 1, "range", last, 1, access)>>

(* first_key, last_key and key_step: those of the first specification that *)
(* has them.                                                               *)
LegacyKeyTriplet(specs) ==
    LET plain == SelectSeq(specs, LAMBDA s : s.search = "index" /\ s.find = "range")
    IN  IF plain = <<>> THEN <<0, 0, 0>>
        ELSE <<plain[1].index, plain[1].lastkey, plain[1].keystep>>

-----------------------------------------------------------------------------
(* The status of a command.                                                *)

Untargeted == {"full", "partial", "alias"}
Status == Untargeted \cup {"standalone-error", "deferred"}

(* Mutation: only what is deferred has a target. *)
TargetOfDeferred(name, group, status) ==
    CASE status # "deferred" -> ""
      [] status = "deferred" /\ group \in ADVANCED_GROUPS -> "v0.9.2"
      [] OTHER -> "v0.9.1"

TargetVersion(name, group, status) ==
    CASE status \in Untargeted -> ""
      [] status = "standalone-error" -> "v1.1.0"
      [] status = "deferred" /\ group \in ADVANCED_GROUPS -> "v0.9.2"
      [] status = "deferred" /\ group \notin ADVANCED_GROUPS
            /\ (name[1] \in OPS_TARGET_NAMES \/ group = "acl") -> "v0.9.3"
      [] OTHER -> "v0.9.1"

(* The lists overlap: PARTIAL_NAMES is asked before FULL_NAMES. *)
ClassifyStatus(name, group) ==
    CASE name \in ALIAS_NAMES -> "alias"
      [] name \in PARTIAL_NAMES \ ALIAS_NAMES -> "partial"
      [] name \in FULL_NAMES \ (ALIAS_NAMES \cup PARTIAL_NAMES) -> "full"
      [] OTHER -> IF name \in STANDALONE_ERROR_NAMES \/ group \in {"cluster", "sentinel"}
                  THEN "standalone-error" ELSE "deferred"

(* CommandEntry, as parse_entry builds it: named after the page's title,   *)
(* not the link's.                                                         *)
ParseEntry(page) ==
    LET flags  == InferFlags(page)
        status == ClassifyStatus(page.title, page.group)
        specs  == InferKeySpecs(page, flags)
    IN  [name |-> page.title, group |-> page.group, status |-> status,
         target |-> TargetVersion(page.title, page.group, status),
         arity |-> InferArity(page), flags |-> flags, key_specs |-> specs,
         keys |-> LegacyKeyTriplet(specs),
         is_pattern |-> page.arguments # Missing /\ IsPattern(page.arguments),
         is_top_level |-> Len(page.title) = 1]

-----------------------------------------------------------------------------
(* verify_command_scope.py: what parse_matrix and validate_entries object  *)
(* to, given the rows of the matrix ("-" is the target of an entry that    *)
(* has none).                                                              *)

ScopeErrors(rows) ==
    LET of(what, at) == {<<what, rows[i].name>> : i \in at}
        tiered == {i \in DOMAIN rows : Tiered(rows[i].group)}
        judged == {i \in tiered : rows[i].status \in Status}
        open   == {i \in judged : rows[i].status \in {"deferred", "standalone-error"}}
    IN  (IF DOMAIN rows = {} THEN {<<"no entries", "-">>} ELSE {})
        \cup of("duplicate", {i \in DOMAIN rows : \E j \in 1 .. i - 1 : rows[j].name = rows[i].name})
        \cup of("unclassified", DOMAIN rows \ tiered)
        \cup of("status", tiered \ judged)
        \cup of("no target", {i \in open : rows[i].target = "-"})
        \cup of("keeps target", {i \in judged \ open : rows[i].target # "-"})
        \cup of("deferred", {i \in open : /\ rows[i].status = "deferred"
                                          /\ rows[i].group \notin TIER_C_GROUPS})
=============================================================================
