---------------------------- MODULE PerfReports ----------------------------
(***************************************************************************)
(* How a measurement becomes a claim of the documents:                     *)
(* scripts/benchmark_v0_1_0.py and benchmark_v0_8_0.py measure redis-uya   *)
(* and, where it is installed, Redis, and write a report with statuses and *)
(* a guard against the report of an earlier run; report_v0_8_0_gaps.py     *)
(* reads a report and writes a gap report with a queue of follow-ups;      *)
(* people bring documents up to date; verify_doc_truth.py compares         *)
(* documents with sources and with the report they cite.  Each is run when *)
(* somebody runs it.                                                       *)
(*                                                                         *)
(* Ratios are compared by cross multiplication; 0.90 * 0.98 is 882/1000.   *)
(* The thresholds of the guard are the defaults of the program, which its  *)
(* environment may replace (benchmark_v0_8_0.py, lines 544-548).           *)
(***************************************************************************)
EXTENDS Integers, Sequences, FiniteSets, SequencesExt

CONSTANTS
    Absent,
    CASE_NAMES,         \* the cases, in order
    Paths,              \* where reports are written and read
    Profiles,           \* what a host may measure: case -> impl -> run
    Probes,             \* further profiles, each the one run of its behaviour
    Baselines,          \* profiles of the report that is there at the start
    StatusDocs,         \* README, TODO, DoD
    OtherDocs,          \* Quickstart, API, Architecture, Design
    MaxWork             \* bound: how often somebody runs or edits something

ASSUME PerfReportsAssumption ==
    /\ MaxWork \in Nat
    /\ "default" \in Paths /\ StatusDocs # {} /\ "Quickstart" \in OtherDocs
    /\ ToSet(CASE_NAMES) \subseteq {"ping", "set_16b", "get_16b", "set_1024b", "get_1024b"}

VARIABLES
    pc, bench,      \* the benchmark: what it does next, with what
    reports,        \* path -> report or Absent
    gap,            \* the gap report, with the report it was made of
    facts,          \* version, command counts, tests: bumped by a change
    docs,           \* document -> what it records
    verdict,        \* doc truth: its errors, and the report it looked at
    work            \* how often somebody ran or edited something

vars == <<pc, bench, reports, gap, facts, docs, verdict, work>>

CaseSet == ToSet(CASE_NAMES)
(* The cases a driver measures under a name the others know: of ping, set  *)
(* and get of v0.1.0 it is ping.                                           *)
CasesOf(version) == IF version = "v0.1.0" THEN CaseSet \cap {"ping"} ELSE CaseSet
Idle == [version |-> "none"]

-----------------------------------------------------------------------------
(* Measuring. *)
Percentile(samples, pct) ==
    IF samples = <<>> THEN 0
    ELSE SortSeq(samples, <)[(((Len(samples) - 1) * pct) \div 100) + 1]

(* A run of a case: latencies in us, and the time they took with the rest. *)
Metrics(run) ==
    [rps |-> IF run.elapsed > 0 THEN (Len(run.samples) * 1000000) \div run.elapsed ELSE 0,
     p99 |-> Percentile(run.samples, 99),
     rss |-> run.rss]

Figures == [rps : Nat, p99 : Nat, rss : Nat]

(* redis-uya is always measured, and what is measured are naturals. *)
ASSUME FiguresAssumption ==
    /\ Absent \notin Figures
    /\ \A profile \in Profiles \cup Probes \cup Baselines : \A c \in CaseSet :
          /\ profile[c].uya # Absent /\ Metrics(profile[c].uya) \in Figures
          /\ profile[c].redis # Absent => Metrics(profile[c].redis) \in Figures

(* floor, target, stretch: 25, 100 and 110 percent of Redis. *)
ClassifyStatus(rps, redis, pct) ==
    IF redis = Absent \/ redis.rps <= 0 THEN "skip"
    ELSE IF rps >= (redis.rps * pct) \div 100 THEN "pass" ELSE "miss"

RedisPkStatus(uya, redis) ==
    IF redis = Absent \/ redis.rps <= 0 \/ redis.p99 <= 0 THEN "skip"
    ELSE IF uya.rps >= redis.rps /\ uya.p99 <= redis.p99 THEN "target"
    ELSE IF 4 * uya.rps < redis.rps \/ uya.p99 > 4 * redis.p99 THEN "critical"
    ELSE "watch"

(* The guard of one case. *)
Skipped == [throughput |-> "skip", normalized |-> "skip", p99 |-> "skip", ok |-> TRUE]

AbsolutePass(uya, base) == uya.rps >= (base.rps * 882) \div 1000
NormalizedPass(uya, redis, base, base_redis) ==
    uya.rps * base_redis.rps * 100 >= base.rps * redis.rps * 94
P99Pass(uya, base) == uya.p99 <= Max({(base.p99 * 115) \div 100, base.p99 + 100})
Outcome(pass) == IF pass THEN "pass" ELSE "miss"

(* Mutation: a case without a baseline passes. *)
GuardTrusting(uya, redis, base, base_redis) ==
    IF base = Absent \/ base.rps <= 0 \/ base.p99 <= 0
    THEN [throughput |-> "pass", normalized |-> "skip", p99 |-> "pass", ok |-> TRUE]
    ELSE [throughput |-> Outcome(AbsolutePass(uya, base)), normalized |-> "skip",
          p99 |-> Outcome(P99Pass(uya, base)),
          ok |-> AbsolutePass(uya, base) /\ P99Pass(uya, base)]

Guard(uya, redis, base, base_redis) ==
    IF base = Absent \/ base.rps <= 0 \/ base.p99 <= 0 THEN Skipped
    ELSE LET comparable == /\ base_redis # Absent /\ redis # Absent
                           /\ base_redis.rps > 0 /\ redis.rps > 0
             relative == comparable /\ NormalizedPass(uya, redis, base, base_redis)
             throughput == AbsolutePass(uya, base) \/ relative
         IN  [throughput |-> Outcome(throughput),
              normalized |-> IF comparable THEN Outcome(relative) ELSE "skip",
              p99 |-> Outcome(P99Pass(uya, base)),
              ok |-> throughput /\ P99Pass(uya, base)]

(* The figures of a report: case -> impl -> figures. *)
LoadResults(report) ==
    [c \in CaseSet |-> IF c \in DOMAIN report.rows
                       THEN [uya |-> report.rows[c].uya, redis |-> report.rows[c].redis]
                       ELSE [uya |-> Absent, redis |-> Absent]]

(* What the guard compares with: nothing without a file. *)
NoBaseline == [c \in CaseSet |-> [uya |-> Absent, redis |-> Absent]]
LoadBaseline(path) ==
    IF path = Absent \/ reports[path] = Absent THEN NoBaseline ELSE LoadResults(reports[path])

(* A report: what its lines say of each case.  The driver of v0.1.0 has no *)
(* case matrix and no guard.                                               *)
Statuses(uya, redis) ==
    [floor |-> ClassifyStatus(uya.rps, redis, 25),
     target |-> ClassifyStatus(uya.rps, redis, 100),
     stretch |-> ClassifyStatus(uya.rps, redis, 110)]

Row(uya, redis, base, version) ==
    [uya |-> uya, redis |-> redis, statuses |-> Statuses(uya, redis),
     matrix |-> IF version = "v0.1.0" THEN "none" ELSE RedisPkStatus(uya, redis),
     guard |-> IF version = "v0.1.0" THEN Skipped
               ELSE Guard(uya, redis, base.uya, base.redis)]

(* `exit' is the exit code of the run that writes it. *)
Report(b) ==
    LET rows == [c \in CasesOf(b.version) |->
                    Row(b.uya[c], b.redis[c], b.base[c], b.version)]
    IN  [size |-> b.size, base |-> b.base, rows |-> rows,
         exit |-> IF \A c \in DOMAIN rows : rows[c].guard.ok THEN 0 ELSE 2]

-----------------------------------------------------------------------------
(* The gap report. *)
(* Mutation: four times the latency of Redis is critical already. *)
StatusForFourTimes(uya, redis) ==
    IF redis = Absent \/ redis.rps <= 0 \/ redis.p99 <= 0 THEN "skip"
    ELSE IF 4 * uya.rps < redis.rps \/ uya.p99 >= 4 * redis.p99 THEN "critical"
    ELSE IF 4 * uya.rps < 3 * redis.rps \/ uya.p99 > 2 * redis.p99 THEN "high"
    ELSE IF uya.rps < redis.rps \/ 100 * uya.p99 > 115 * redis.p99 THEN "watch"
    ELSE "pass"

StatusFor(uya, redis) ==
    IF redis = Absent \/ redis.rps <= 0 \/ redis.p99 <= 0 THEN "skip"
    ELSE IF 4 * uya.rps < redis.rps \/ uya.p99 > 4 * redis.p99 THEN "critical"
    ELSE IF 4 * uya.rps < 3 * redis.rps \/ uya.p99 > 2 * redis.p99 THEN "high"
    ELSE IF uya.rps < redis.rps \/ 100 * uya.p99 > 115 * redis.p99 THEN "watch"
    ELSE "pass"

Heavy(row) == row.redis # Absent /\ row.redis.rss > 0 /\ row.uya.rss > 3 * row.redis.rss

GapRows(results) ==
    [c \in {d \in CaseSet : results[d].uya # Absent} |->
                       [uya |-> results[c].uya, redis |-> results[c].redis,
                        status |-> StatusFor(results[c].uya, results[c].redis)]]

SetCases(rows) == DOMAIN rows \cap {"set_16b", "set_1024b"}
GetCases(rows) == DOMAIN rows \cap {"get_16b", "get_1024b"}

(* The row with the smallest throughput ratio stands for its area; one     *)
(* without a ratio counts as 999.                                          *)
Slower(a, b) ==
    /\ a.redis # Absent /\ a.redis.rps > 0
    /\ b.redis # Absent /\ b.redis.rps > 0 => a.uya.rps * b.redis.rps < b.uya.rps * a.redis.rps
Worst(rows, cases) == CHOOSE c \in cases : \A d \in cases : ~Slower(rows[d], rows[c])

Item(priority, area, cases, evidence) ==
    [priority |-> priority, area |-> area, cases |-> cases, evidence |-> evidence]
SomeRow(rows, cases, statuses) == \E c \in cases : rows[c].status \in statuses

(* Mutation: a set that is slow but not critical is forgotten. *)
DebtQueueCriticalSets(rows) ==
    (IF SomeRow(rows, SetCases(rows), {"critical"})
     THEN {Item("P0", "set_write_path", SetCases(rows), Worst(rows, SetCases(rows)))} ELSE {})
    \cup (IF SomeRow(rows, GetCases(rows), {"critical", "high", "watch"})
     THEN {Item("P1", "get_response_path", GetCases(rows), Worst(rows, GetCases(rows)))} ELSE {})
    \cup {Item("P2", "pipeline_and_batching", DOMAIN rows, "client_pipeline=1")}

DebtQueue(rows) ==
    (IF SomeRow(rows, SetCases(rows), {"critical", "high"})
     THEN {Item("P0", "set_write_path", SetCases(rows), Worst(rows, SetCases(rows)))} ELSE {})
    \cup (IF SomeRow(rows, GetCases(rows), {"critical", "high", "watch"})
     THEN {Item("P1", "get_response_path", GetCases(rows), Worst(rows, GetCases(rows)))} ELSE {})
    \cup (IF \E c \in DOMAIN rows : Heavy(rows[c])
     THEN {Item("P1", "rss_residency", DOMAIN rows, "rss_ratio")} ELSE {})
    \cup (IF SomeRow(rows, DOMAIN rows \cap {"ping"}, {"high", "watch"})
     THEN {Item("P2", "round_trip_overhead", {"ping"}, "ping")} ELSE {})
    \cup {Item("P2", "pipeline_and_batching", DOMAIN rows, "client_pipeline=1")}

-----------------------------------------------------------------------------
(* The document checks. *)
(* Two decimals, rounded. *)
NoRatio == -1
RatioText(a, b) == IF b <= 0 THEN NoRatio ELSE (200 * a + b) \div (2 * b)

(* report_ratios finds the rows of the matrix that have all their numbers. *)
HasRow(row) ==
    /\ row.matrix \in {"target", "watch", "critical"}
    /\ row.redis # Absent /\ row.redis.rps > 0 /\ row.redis.rss > 0
Complete(report) == \A c \in CaseSet : c \in DOMAIN report.rows /\ HasRow(report.rows[c])
Ratios(report) ==
    [c \in CaseSet |->
        IF c \notin DOMAIN report.rows \/ report.rows[c].redis = Absent THEN NoRatio
        ELSE RatioText(report.rows[c].uya.rps, report.rows[c].redis.rps)]

Documents == StatusDocs \cup OtherDocs
CommonReports == {p \in Paths : \A d \in StatusDocs : docs[d].cites = p}

ReportErrors(report) ==
    (IF report.size # "formal" THEN {"size"} ELSE {})
    \cup (IF \A c \in CaseSet : /\ c \in DOMAIN report.rows
                                 /\ report.rows[c].guard.throughput = "pass"
                                 /\ report.rows[c].guard.p99 = "pass"
           THEN {} ELSE {"guard"})
    \cup (IF Complete(report) THEN {} ELSE {"matrix"})

DocErrors ==
    {<<d, "facts">> : d \in {x \in Documents : docs[x].facts # facts}}
    \cup IF Cardinality(CommonReports) # 1 THEN {<<"report", "not one">>}
         ELSE LET path == CHOOSE p \in CommonReports : TRUE
                  report == reports[path] IN
              IF report = Absent THEN {<<"report", "missing">>}
              ELSE {<<"report", e>> : e \in ReportErrors(report)}
                   \cup {<<d, "ratios">> : d \in {x \in StatusDocs :
                                                   docs[x].ratios # Ratios(report)}}
                   \cup (IF docs["Quickstart"].cites # path
                         THEN {<<"Quickstart", "reference">>} ELSE {})

-----------------------------------------------------------------------------
Unwritten == [facts |-> 0, cites |-> Absent, ratios |-> Absent]

Init ==
    /\ pc = "idle" /\ bench = Idle /\ gap = Absent
    /\ \E profile \in Baselines :
          LET b == [version |-> "v0.8.0", size |-> "formal", base |-> NoBaseline,
                    uya |-> [c \in CaseSet |-> Metrics(profile[c].uya)],
                    redis |-> [c \in CaseSet |-> IF profile[c].redis = Absent THEN Absent
                                                 ELSE Metrics(profile[c].redis)]]
          IN  reports = [p \in Paths |-> IF p = "default" THEN Report(b) ELSE Absent]
    /\ facts = 0 /\ docs = [d \in Documents |-> Unwritten]
    /\ verdict = Absent /\ work = 0

Work(cost) == work + cost <= MaxWork /\ work' = work + cost

(* main: the baseline is read before anything is measured, so that a       *)
(* report may replace the one it is compared with.                         *)
StartBench(version, size, path, baseline, profile, cost) ==
    /\ pc = "idle" /\ Work(cost)
    /\ bench' = [version |-> version, size |-> size, path |-> path, profile |-> profile,
                 base |-> IF version = "v0.1.0" THEN NoBaseline ELSE LoadBaseline(baseline),
                 uya |-> Absent, redis |-> Absent]
    /\ pc' = "uya"
    /\ UNCHANGED <<reports, gap, facts, docs, verdict>>

Measured(impl) ==
    [c \in CasesOf(bench.version) |->
        IF bench.profile[c][impl] = Absent THEN Absent ELSE Metrics(bench.profile[c][impl])]

MeasureUya ==
    /\ pc = "uya" /\ pc' = "redis"
    /\ bench' = [bench EXCEPT !.uya = Measured("uya")]
    /\ UNCHANGED <<reports, gap, facts, docs, verdict, work>>

MeasureRedis ==
    /\ pc = "redis" /\ pc' = "write"
    /\ bench' = [bench EXCEPT !.redis = Measured("redis")]
    /\ UNCHANGED <<reports, gap, facts, docs, verdict, work>>

(* A guard that is missed does not keep the report from being written. *)
WriteReport ==
    /\ pc = "write" /\ pc' = "idle"
    /\ reports' = [reports EXCEPT ![bench.path] = Report(bench)]
    /\ bench' = Idle
    /\ UNCHANGED <<gap, facts, docs, verdict, work>>

(* A server that does not answer: nothing is written. *)
BenchFails ==
    /\ pc \in {"uya", "redis"} /\ pc' = "idle"
    /\ bench' = Idle
    /\ UNCHANGED <<reports, gap, facts, docs, verdict, work>>

(* A report without a row that can be read ends the program unwritten.     *)
WriteGap(path) ==
    /\ reports[path] # Absent /\ Work(1)
    /\ LET rows == GapRows(LoadResults(reports[path]))
       IN  DOMAIN rows # {} /\ gap' = [source |-> reports[path], rows |-> rows, queue |-> DebtQueue(rows)]
    /\ UNCHANGED <<pc, bench, reports, facts, docs, verdict>>

SourcesChange ==
    /\ Work(1) /\ facts' = facts + 1
    /\ UNCHANGED <<pc, bench, reports, gap, docs, verdict>>

EditDocs(edited, path) ==
    /\ reports[path] # Absent /\ Work(1)
    /\ docs' = [d \in Documents |->
                  IF d \in edited
                  THEN [facts |-> facts, cites |-> path, ratios |-> Ratios(reports[path])]
                  ELSE docs[d]]
    /\ UNCHANGED <<pc, bench, reports, gap, facts, verdict>>

VerifyDocTruth ==
    /\ Work(1)
    /\ verdict' = [errors |-> DocErrors,
                   report |-> IF Cardinality(CommonReports) = 1
                              THEN reports[CHOOSE p \in CommonReports : TRUE] ELSE Absent]
    /\ UNCHANGED <<pc, bench, reports, gap, facts, docs>>

Next ==
    \/ \E size \in {"quick", "formal"}, path \in Paths,
          baseline \in {Absent, "default"}, profile \in Profiles :
             StartBench("v0.8.0", size, path, baseline, profile, 1)
    \/ \E profile \in Profiles : StartBench("v0.1.0", "quick", "default", Absent, profile, 1)
    \/ /\ work = 0
       /\ \E profile \in Probes :
             StartBench("v0.8.0", "formal", "default", "default", profile, MaxWork - 1)
    \/ MeasureUya \/ MeasureRedis \/ WriteReport \/ BenchFails
    \/ \E path \in Paths : WriteGap(path)
    \/ SourcesChange
    \/ \E edited \in (SUBSET Documents) \ {{}}, path \in Paths : EditDocs(edited, path)
    \/ VerifyDocTruth

Spec == Init /\ [][Next]_vars

-----------------------------------------------------------------------------
(* The three judgements of one measurement agree: the line of the result,  *)
(* the matrix of the report and the gap report made of it.  (A floor that  *)
(* is passed may still be critical: int(0.25 * rps) is rounded down.)      *)
StatusesAgree ==
    gap # Absent => \A c \in DOMAIN gap.rows :
        LET status == gap.rows[c].status
            row == gap.source.rows[c]
        IN  /\ row.matrix # "none" =>
                 /\ (row.matrix = "critical") = (status = "critical")
                 /\ (row.matrix = "skip") = (status = "skip")
                 /\ row.matrix = "target" => status = "pass"
            /\ status # "skip" =>
                 /\ row.statuses.floor = "miss" => status = "critical"
                 /\ status = "pass" => row.statuses.target = "pass"
            /\ row.statuses.stretch = "pass" => row.statuses.target = "pass"
            /\ row.statuses.target = "pass" => row.statuses.floor = "pass"

(* A case that is critical, high or to be watched has an item of its area  *)
(* in the queue, except a critical PING and a SET to be watched, for which *)
(* the queue has none; and the evidence of an item is a case for which no  *)
(* other of its area is slower.                                            *)
DebtIsQueued ==
    gap # Absent => \A c \in DOMAIN gap.rows :
        LET status == gap.rows[c].status
            items == {i \in gap.queue : c \in i.cases /\ i.area \in
                        {"set_write_path", "get_response_path", "round_trip_overhead"}}
        IN  /\ status \in {"critical", "high"} /\ ~(c = "ping" /\ status = "critical") => items # {}
            /\ status = "watch" /\ c \notin SetCases(gap.rows) => items # {}
            /\ \A i \in items : c # "ping" => ~Slower(gap.rows[c], gap.rows[i.evidence])

(* Documents are found true only of a formal run that was really compared: *)
(* each case has a baseline and a Redis of its own, and is neither slower  *)
(* than the guard allows, both in itself and relative to Redis, nor later. *)
GreenMeansCompared ==
    verdict # Absent /\ verdict.errors = {} =>
        /\ verdict.report.size = "formal" /\ verdict.report.exit = 0
        /\ \A c \in CaseSet :
             LET row == verdict.report.rows[c]
                 base == verdict.report.base[c]
             IN  /\ base.uya # Absent /\ row.redis # Absent
                 /\ 1000 * row.uya.rps + 1000 > 882 * base.uya.rps
                    \/ /\ base.redis # Absent
                       /\ row.uya.rps * base.redis.rps * 100 >= base.uya.rps * row.redis.rps * 94
                 /\ row.uya.p99 <= base.uya.p99 + 100 \/ 100 * row.uya.p99 <= 115 * base.uya.p99

(* What the error of the document check says: "absolute throughput guard". *)
GreenMeansAbsolute ==
    verdict # Absent /\ verdict.errors = {} =>
        \A c \in CaseSet :
            AbsolutePass(verdict.report.rows[c].uya, verdict.report.base[c].uya)
=============================================================================
