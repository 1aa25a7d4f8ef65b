-------------------------- MODULE CommandCatalogue --------------------------
(***************************************************************************)
(* The generator whole: the pool and the files of module Catalogue over    *)
(* the entries of module CommandMeta, and the scope gate over its output.  *)
(***************************************************************************)
EXTENDS Catalogue, CommandMeta

(* The parameters of Catalogue are the operators of CommandMeta, and a     *)
(* page has a title of one word at least and, if it has arguments, a list  *)
(* of argument nodes.                                                      *)
ASSUME PagesAssumption ==
    \A site \in Sites \cup Probes : \A i \in DOMAIN site :
        LET page == site[i].page
        IN  page # NoMetadata =>
                /\ Parse(page) = ParseEntry(page)
                /\ Classified(page.group) <=> Tiered(page.group)
                /\ Len(page.title) \in Nat \ {0}
                /\ page.arguments = Missing \/ page.arguments \in Seq(Argument)

HandKept == ALIAS_NAMES \cup PARTIAL_NAMES \cup FULL_NAMES \cup STANDALONE_ERROR_NAMES
HasCommands == DOMAIN links # {}
PagesDiffer == \A i, j \in DOMAIN links : links[i].page.title = links[j].page.title => i = j
TierAIsListed ==
    \A i \in DOMAIN links :
        links[i].page.group \in TIER_A_GROUPS => links[i].page.title \in HandKept

(* A matrix the generator wrote can fail the scope gate for three reasons  *)
(* only: no page at all, two pages of one name, or a command of tier A     *)
(* whose name is in none of the lists; and after a run that ended well the *)
(* gate lets it pass if and only if the index has none of the three.       *)
ScopeGateAgrees ==
    /\ matrix # Absent =>
          \A e \in ScopeErrors(matrix.rows) : e[1] \in {"no entries", "duplicate", "deferred"}
    /\ outcome = "ok" =>
          (ScopeErrors(matrix.rows) = {} <=> HasCommands /\ PagesDiffer /\ TierAIsListed)

(* An arity made from the arguments never asks for more words than the     *)
(* shortest call has, and is exact (positive) only if calls have one       *)
(* length (infer_arity, lines 813-861); and a command that writes has no   *)
(* key that is marked as read only.                                        *)
InferredMetaIsSafe ==
    pc = "base" => \A i \in DOMAIN links :
        LET page  == links[i].page
            arity == InferArity(page)
            specs == InferKeySpecs(page, InferFlags(page))
        IN  /\ page.arity = Missing /\ page.arguments # Missing =>
                 /\ \A words \in CallLengths(page) : arity <= words /\ -arity <= words
                 /\ arity > 0 => \A words, more \in CallLengths(page) : words = more
            /\ page.key_specs = Missing /\ "write" \in InferFlags(page) =>
                 \A k \in DOMAIN specs : "RO" \notin specs[k].flags
=============================================================================
