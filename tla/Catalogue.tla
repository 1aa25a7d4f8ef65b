----------------------------- MODULE Catalogue -----------------------------
(***************************************************************************)
(* scripts/generate_command_catalog.py: the index of redis.io is read, the *)
(* page of every command is fetched by a pool of workers, the entries are  *)
(* put in the order of the index, and the sources the server is built from *)
(* (a base module, a wrapper and parts of PART_SIZE entries) and then the  *)
(* command matrix of the docs are written, one file at a time.  The        *)
(* program may be interrupted between any two steps and run again.         *)
(*                                                                         *)
(* Files hold the number of the run that wrote them (`gen', history) and   *)
(* their entries.  What an entry is made of is module CommandMeta's.       *)
(***************************************************************************)
EXTENDS Integers, Sequences, FiniteSets, SequencesExt

CONSTANTS
    Parse(_),       \* the entry made of a page: CommandMeta's ParseEntry
    Classified(_),  \* a group is in some tier: CommandMeta's Tiered
    NoMetadata,     \* a page without metadata
    Sites,          \* what the index and the pages may be when a run starts
    Probes,         \* further sites, each the one run of its behaviour
    FETCH_WORKERS,
    FETCH_RETRIES,
    PART_SIZE,
    Letters,        \* letters of the alphabet part files are named in
    MaxParts,       \* bound: parts whose names are compared
    Absent,         \* a file that does not exist
    MaxRuns         \* bound: runs of the generator

ASSUME CatalogueAssumption ==
    /\ {FETCH_WORKERS, FETCH_RETRIES, PART_SIZE, Letters, MaxParts} \subseteq Nat \ {0}
    /\ MaxRuns \in Nat \ {0}

(* An entry has the name of its page. *)
ASSUME SitesAssumption ==
    \A site \in Sites \cup Probes :
        /\ site \in Seq(ToSet(site))
        /\ \A i \in DOMAIN site :
              site[i].page # NoMetadata => Parse(site[i].page).name = site[i].page.title

VARIABLES
    pc,         \* what main does next
    links,      \* the links of the index, with the pages behind them
    task,       \* link -> its future: queued, running, done or failed
    tries,      \* link -> attempts to fetch its page that failed
    waiting,    \* futures that as_completed has not handed over
    entries,
    part_index, \* the part that is written next
    base, wrapper, parts, matrix,   \* the files
    runs, outcome                   \* runs so far, how the last one ended

pool == <<task, tries, waiting>>
files == <<base, wrapper, parts, matrix>>
vars == <<pc, links, pool, entries, part_index, files, runs, outcome>>

-----------------------------------------------------------------------------
(* Names of the part files: a, b, ..., z, aa, ab, ...; digits for letters. *)
PartLabel[n \in Nat] ==
    IF n < Letters THEN <<n>> ELSE Append(PartLabel[(n \div Letters) - 1], n % Letters)

(* Mutation: the last, smaller part is forgotten. *)
PartCountOfFull(total) == total \div PART_SIZE

PartCount(total) == (total + PART_SIZE - 1) \div PART_SIZE
PartRange(p, total) == {i \in 0 .. total - 1 : p * PART_SIZE <= i /\ i < (p + 1) * PART_SIZE}

(* What is at the positions S of s, by increasing key; what has the same   *)
(* key stays in the order of s (filters and sorts of Python are stable).   *)
Place(S, key, i) == Cardinality({j \in S : key[j] < key[i] \/ (key[j] = key[i] /\ j <= i)})
Arranged(s, S, key) == [n \in 1 .. Cardinality(S) |-> s[CHOOSE i \in S : Place(S, key, i) = n]]

(* What a part returns for an index: flags and the like only for commands  *)
(* whose status is full.                                                   *)
Rendered(e) ==
    [name |-> e.name, group |-> e.group, status |-> e.status, target |-> e.target,
     arity |-> e.arity, keys |-> e.keys,
     is_pattern |-> e.is_pattern, is_top_level |-> e.is_top_level,
     flags |-> IF e.status = "full" THEN e.flags ELSE {}]

RenderPart(p) ==
    [gen |-> runs, rows |-> [i \in PartRange(p, Len(entries)) |-> Rendered(entries[i + 1])]]

RenderWrapper ==
    [gen |-> runs, total |-> Len(entries),
     top_level |-> Cardinality({i \in DOMAIN entries : entries[i].is_top_level})]

MatrixRow(e) ==
    [name |-> e.name, group |-> e.group, status |-> e.status,
     target |-> IF e.target = "" THEN "-" ELSE e.target]

RenderMatrix ==
    [gen |-> runs,
     rows |-> [i \in DOMAIN entries |-> MatrixRow(entries[i])]]

(* The parts the wrapper imports. *)
Imported == {PartLabel[p] : p \in 0 .. PartCount(wrapper.total) - 1}

CommandUnknown == [error |-> "CommandUnknown"]
EmptyEntry == [name |-> <<>>]

(* command_catalog_generated_entry of the sources as they are on disk. *)
Served(index) ==
    LET p == index \div PART_SIZE IN
    IF index \notin PartRange(p, wrapper.total) \/ PartLabel[p] \notin Imported
    THEN CommandUnknown
    ELSE IF index \in DOMAIN parts[PartLabel[p]].rows THEN parts[PartLabel[p]].rows[index]
    ELSE EmptyEntry

-----------------------------------------------------------------------------
Init ==
    /\ pc = "idle"
    /\ links = <<>> /\ task = <<>> /\ tries = <<>> /\ waiting = {}
    /\ entries = <<>> /\ part_index = 0
    /\ base = Absent /\ wrapper = Absent /\ matrix = Absent /\ parts = <<>>
    /\ runs = 0 /\ outcome = "none"

End(how) == pc' = "idle" /\ outcome' = how

(* collect_command_links, and a future submitted for every link.  Links    *)
(* that are not commands (release overviews) are left out.                 *)
Start(site, cost) ==
    /\ pc = "idle" /\ runs + cost <= MaxRuns
    /\ pc' = "fetch"
    /\ links' = Arranged(site, {i \in DOMAIN site : site[i].command}, [i \in DOMAIN site |-> i])
    /\ task' = [i \in DOMAIN links' |-> "queued"]
    /\ tries' = [i \in DOMAIN links' |-> 0]
    /\ waiting' = DOMAIN links'
    /\ entries' = <<>> /\ part_index' = 0
    /\ runs' = runs + cost /\ outcome' = "none"
    /\ UNCHANGED files

IndexUnavailable ==
    /\ pc = "idle" /\ runs < MaxRuns
    /\ runs' = runs + 1
    /\ End("failed")
    /\ UNCHANGED <<links, pool, entries, part_index, files>>

(* The pool goes on with what is queued after a failure, too: leaving the  *)
(* `with' block of the executor waits for every future.                    *)
Working == pc \in {"fetch", "drain"}

(* Mutation: the pool takes nothing from its queue after a failure. *)
TakeTaskWhileCollecting(i) ==
    /\ pc = "fetch" /\ task[i] = "queued"
    /\ Cardinality({j \in DOMAIN task : task[j] = "running"}) < FETCH_WORKERS
    /\ task' = [task EXCEPT ![i] = "running"]
    /\ UNCHANGED <<pc, links, tries, waiting, entries, part_index, files, runs, outcome>>

TakeTask(i) ==
    /\ Working /\ task[i] = "queued"
    /\ Cardinality({j \in DOMAIN task : task[j] = "running"}) < FETCH_WORKERS
    /\ task' = [task EXCEPT ![i] = "running"]
    /\ UNCHANGED <<pc, links, tries, waiting, entries, part_index, files, runs, outcome>>

(* Mutation: a page is asked for until it comes. *)
FetchFailsForEver(i) ==
    /\ Working /\ task[i] = "running"
    /\ tries' = [tries EXCEPT ![i] = @ + 1]
    /\ UNCHANGED <<pc, links, task, waiting, entries, part_index, files, runs, outcome>>

FetchFails(i) ==
    /\ Working /\ task[i] = "running"
    /\ tries' = [tries EXCEPT ![i] = @ + 1]
    /\ task' = [task EXCEPT ![i] = IF tries'[i] = FETCH_RETRIES THEN "failed" ELSE @]
    /\ UNCHANGED <<pc, links, waiting, entries, part_index, files, runs, outcome>>

(* A page that cannot be parsed, or a connection that breaks while it is   *)
(* read: an exception fetch_text does not catch, and so does not retry.    *)
FetchRaises(i) ==
    /\ Working /\ task[i] = "running"
    /\ task' = [task EXCEPT ![i] = "failed"]
    /\ UNCHANGED <<pc, links, tries, waiting, entries, part_index, files, runs, outcome>>

FetchSucceeds(i) ==
    /\ Working /\ task[i] = "running"
    /\ task' = [task EXCEPT ![i] = IF links[i].page = NoMetadata THEN "failed" ELSE "done"]
    /\ UNCHANGED <<pc, links, tries, waiting, entries, part_index, files, runs, outcome>>

(* as_completed hands over the futures as they end. *)
Collect(i) ==
    /\ pc = "fetch" /\ i \in waiting /\ task[i] = "done"
    /\ waiting' = waiting \ {i}
    /\ entries' = Append(entries, Parse(links[i].page))
    /\ UNCHANGED <<pc, links, task, tries, part_index, files, runs, outcome>>

CollectFailure(i) ==
    /\ pc = "fetch" /\ i \in waiting /\ task[i] = "failed"
    /\ pc' = "drain"
    /\ UNCHANGED <<links, pool, entries, part_index, files, runs, outcome>>

Drained ==
    /\ pc = "drain" /\ ToSet(task) \subseteq {"done", "failed"}
    /\ End("failed")
    /\ UNCHANGED <<links, pool, entries, part_index, files, runs>>

(* The sort is stable, and its key is the last place of the name in the    *)
(* index; an entry whose name is no title of the index is a KeyError.      *)
Order(name) == Max({i \in DOMAIN links : links[i].title = name})
Known(e) == \E i \in DOMAIN links : links[i].title = e.name
(* Mutation: the entries stay in the order the workers were done. *)
InOrderOfArrival(es) == es

InIndexOrder(es) ==
    Arranged(es, DOMAIN es, [i \in DOMAIN es |-> Order(es[i].name)])

SortEntries ==
    /\ pc = "fetch" /\ waiting = {}
    /\ IF \A i \in DOMAIN entries : Known(entries[i])
       THEN pc' = "base" /\ entries' = InIndexOrder(entries) /\ UNCHANGED outcome
       ELSE End("failed") /\ UNCHANGED entries
    /\ UNCHANGED <<links, pool, part_index, files, runs>>

WriteBase ==
    /\ pc = "base" /\ pc' = "wrapper"
    /\ base' = [gen |-> runs]
    /\ UNCHANGED <<links, pool, entries, part_index, wrapper, parts, matrix, runs, outcome>>

WriteWrapper ==
    /\ pc = "wrapper" /\ pc' = "unlink"
    /\ wrapper' = RenderWrapper
    /\ UNCHANGED <<links, pool, entries, part_index, base, parts, matrix, runs, outcome>>

UnlinkPart(label) ==
    /\ pc = "unlink" /\ label \in DOMAIN parts
    /\ parts' = [l \in DOMAIN parts \ {label} |-> parts[l]]
    /\ UNCHANGED <<pc, links, pool, entries, part_index, base, wrapper, matrix, runs, outcome>>

(* Mutation: old parts are overwritten, not removed. *)
KeepsOldParts ==
    /\ pc = "unlink"
    /\ pc' = "parts" /\ part_index' = 0
    /\ UNCHANGED <<links, pool, entries, files, runs, outcome>>

Unlinked ==
    /\ pc = "unlink" /\ parts = <<>>
    /\ pc' = "parts" /\ part_index' = 0
    /\ UNCHANGED <<links, pool, entries, files, runs, outcome>>

WritePart ==
    /\ pc = "parts" /\ part_index < PartCount(Len(entries))
    /\ part_index' = part_index + 1
    /\ LET label == PartLabel[part_index]
       IN  parts' = [l \in DOMAIN parts \cup {label} |->
                        IF l = label THEN RenderPart(part_index) ELSE parts[l]]
    /\ UNCHANGED <<pc, links, pool, entries, base, wrapper, matrix, runs, outcome>>

PartsWritten ==
    /\ pc = "parts" /\ part_index = PartCount(Len(entries))
    /\ pc' = "docs"
    /\ UNCHANGED <<links, pool, entries, part_index, files, runs, outcome>>

(* render_docs raises on a group that is in no tier: by then the sources   *)
(* are written.                                                            *)
WriteDocs ==
    /\ pc = "docs"
    /\ IF \A i \in DOMAIN entries : Classified(entries[i].group)
       THEN matrix' = RenderMatrix /\ End("ok")
       ELSE UNCHANGED matrix /\ End("failed")
    /\ UNCHANGED <<links, pool, entries, part_index, base, wrapper, parts, runs>>

Interrupt ==
    /\ pc # "idle"
    /\ End("interrupted")
    /\ UNCHANGED <<links, pool, entries, part_index, files, runs>>

FetchStep ==
    \/ \E i \in DOMAIN task : TakeTask(i) \/ FetchFails(i) \/ FetchRaises(i) \/ FetchSucceeds(i)
    \/ \E i \in waiting : Collect(i) \/ CollectFailure(i)
    \/ Drained \/ SortEntries

WriteStep ==
    \/ WriteBase \/ WriteWrapper
    \/ \E label \in DOMAIN parts : UnlinkPart(label)
    \/ Unlinked
    \/ WritePart \/ PartsWritten \/ WriteDocs

Next ==
    \/ \E site \in Sites : Start(site, 1)
    \/ \E site \in Probes : Start(site, MaxRuns)
    \/ IndexUnavailable
    \/ FetchStep \/ WriteStep
    \/ Interrupt

Spec == Init /\ [][Next]_vars

(* The workers and main run on; nobody has to start or interrupt a run. *)
FairSpec == Spec /\ WF_vars(FetchStep \/ WriteStep)

-----------------------------------------------------------------------------
TypeOK ==
    /\ pc \in {"idle", "fetch", "drain", "base", "wrapper", "unlink", "parts", "docs"}
    /\ task \in [DOMAIN links -> {"queued", "running", "done", "failed"}]
    /\ tries \in [DOMAIN links -> 0 .. FETCH_RETRIES]
    /\ waiting \subseteq DOMAIN links
    /\ base = Absent \/ base.gen \in 1 .. runs
    /\ wrapper = Absent \/ wrapper.gen \in 1 .. runs
    /\ matrix = Absent \/ matrix.gen \in 1 .. runs
    /\ \A l \in DOMAIN parts : parts[l].gen \in 1 .. runs
    /\ runs \in 0 .. MaxRuns
    /\ outcome \in {"none", "ok", "failed", "interrupted"}

Writing == pc \in {"base", "wrapper", "unlink", "parts", "docs"}
OneLinkPerName ==
    /\ \A i \in DOMAIN links : links[i].page # NoMetadata /\ links[i].page.title = links[i].title
    /\ \A i, j \in DOMAIN links : links[i].title = links[j].title => i = j

(* What is written is the whole index and depends on it alone: whichever   *)
(* worker was first, whatever had to be fetched again, entry i is that of  *)
(* link i (build_catalog, lines 1186-1209).                                *)
CatalogueFollowsIndex ==
    Writing =>
        /\ Len(entries) = Len(links)
        /\ ToSet(entries) = {Parse(links[i].page) : i \in DOMAIN links}
        /\ OneLinkPerName => \A i \in DOMAIN links : entries[i] = Parse(links[i].page)

(* When all sources are written, and when a run has ended well, the files  *)
(* there are are those of this run.                                        *)
FilesOfOneRun ==
    /\ base.gen = wrapper.gen /\ \A l \in DOMAIN parts : parts[l].gen = wrapper.gen
    /\ outcome = "ok" => matrix.gen = wrapper.gen

(* The part files never are a mixture of two runs, wherever a run ended.   *)
PartsOfOneRun == \A l, m \in DOMAIN parts : parts[l].gen = parts[m].gen

(* Once the parts are written, every index is served by the one part that  *)
(* has it with the entry of that index, whatever parts an earlier, larger  *)
(* or interrupted run left, and no part file is left over; all files are   *)
(* of one run then, and the matrix has a row for every entry.              *)
ServedByItsPart ==
    pc = "docs" \/ outcome = "ok" =>
        /\ wrapper.total = Len(entries)
        /\ DOMAIN parts = Imported
        /\ \A i \in DOMAIN entries : Served(i - 1) = Rendered(entries[i])
        /\ Served(Len(entries)) = CommandUnknown
        /\ \A p, q \in 0 .. MaxParts : PartLabel[p] = PartLabel[q] => p = q
        /\ FilesOfOneRun
        /\ outcome = "ok" => Len(matrix.rows) = wrapper.total

(* At any moment, also after an interruption: sources that can be built,   *)
(* since every part the wrapper imports is there, have parts of one run;   *)
(* and while the parts are being written nothing can be built before the   *)
(* last of them is there.                                                  *)
BuildableIsOneGeneration ==
    wrapper # Absent /\ Imported \subseteq DOMAIN parts =>
        /\ PartsOfOneRun
        /\ pc = "parts" => part_index = PartCount(wrapper.total)

(* A run ends: retries are bounded and a failed future stops nothing. *)
RunsEnd == pc # "idle" ~> pc = "idle"
=============================================================================
