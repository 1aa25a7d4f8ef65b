---------------------------- MODULE MCCatalogue ----------------------------
(* Sites for TLC.  Names are taken from the lists of the generator so that *)
(* every status occurs; "config get" is in two lists, as 19 names of the   *)
(* generator are.                                                          *)
EXTENDS CommandCatalogue

Get == <<"get">>
Config == <<"config">>
ConfigGet == <<"config", "get">>
Slaveof == <<"slaveof">>
Ft == <<"ft.search">>
Cluster == <<"cluster">>

MCAlias == {Slaveof}
MCPartial == {Config, ConfigGet}
MCFull == {Get, ConfigGet}
MCError == {<<"shutdown">>}

Page(title, group) ==
    [title |-> title, group |-> group, arity |-> Missing, command_flags |-> Missing,
     acl |-> {"@read"}, arguments |-> Missing, key_specs |-> Missing]
Item(title, page) == [title |-> title, command |-> TRUE, page |-> page]
Own(title, group) == Item(title, Page(title, group))
Overview == [title |-> <<"Redis 8.6 Commands">>, command |-> FALSE, page |-> NoMetadata]

MCSites == {
    <<Overview>>,
    <<Own(Get, "string"), Own(Config, "server"), Own(ConfigGet, "server")>>,
    <<Own(ConfigGet, "server"), Overview, Own(Slaveof, "server")>>,
    \* a group in no tier, a sentinel or cluster command, a module command
    <<Own(<<"acl">>, "acl"), Own(Cluster, "cluster")>>,
    <<Own(Ft, "search"), Own(Cluster, "cluster")>>,
    \* a command of tier A in no list
    <<Own(<<"latency">>, "server"), Own(Get, "string")>>,
    \* two links of one title, and pages under a title that is not theirs
    <<Own(Get, "string"), Item(Get, Page(Get, "generic"))>>,
    <<Item(Config, Page(Get, "string")), Own(Get, "string")>>,
    <<Item(<<"renamed">>, Page(Config, "server"))>>,
    \* no metadata on the page
    <<Own(Config, "server"), Item(Get, NoMetadata)>>}

Leaf(type, optional, multiple) ==
    [type |-> type, token |-> FALSE, optional |-> optional, multiple |-> multiple, args |-> <<>>]
Leaves == {Leaf(t, o, m) : t \in {"key", "integer"}, o, m \in BOOLEAN}
        \cup {[Leaf("pattern", FALSE, FALSE) EXCEPT !.token = TRUE]}
Node(type, token, multiple, args) ==
    [type |-> type, token |-> token, optional |-> FALSE, multiple |-> multiple, args |-> args]
Few == {Leaf("key", FALSE, FALSE), Leaf("integer", TRUE, FALSE), Leaf("key", FALSE, TRUE)}
Inner == {Node(t, k, FALSE, <<a, b>>) : t \in {"block", "oneof"}, k \in BOOLEAN, a, b \in Few}
Outer == {Node(t, TRUE, m, <<a, n>>) : t \in {"block", "oneof"}, m \in BOOLEAN,
                                       a \in Few, n \in Inner}
MCArgument == Leaves \cup Inner \cup Outer
MCDepth[arg \in MCArgument] ==
    IF arg.args = <<>> THEN 0 ELSE 1 + Max(ToSet(Each(MCDepth, arg.args)))
ArgumentLists == {<<a>> : a \in Leaves \cup Inner \cup Outer}
        \cup {<<a, b>> : a \in Leaves, b \in Leaves \cup Inner}

Categories == {{"@read"}, {"@write", "@fast"}, {"@read", "@write"}}
MCProbes == {<<Item(title, [Page(title, "string") EXCEPT !.arguments = args, !.acl = acl])>> :
                title \in {Get}, args \in ArgumentLists, acl \in Categories}
        \cup {<<Item(Get, [Page(Get, "string") EXCEPT !.arguments = <<a>>, !.command_flags = f,
                                !.arity = n, !.key_specs = s])>> :
                a \in Leaves, f \in {{"readonly"}, {"readonly", "write"}}, n \in {2, Missing},
                s \in {Missing, <<KeySpec("keyword", 0, "range", -1, 1, {"RW"}),
                                  KeySpec("index", 2, "range", 0, 1, {"RO"})>>}}
=============================================================================
