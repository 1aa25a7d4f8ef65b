------------------------- MODULE PerfReports_proofs -------------------------
(***************************************************************************)
(* That the judgements of a measurement agree, and that documents are only *)
(* found true of a run that was compared, is proved here for all figures a *)
(* host may measure, any cases, report files and documents, and any number *)
(* of runs and edits.                                                      *)
(***************************************************************************)
EXTENDS PerfReports, FiniteSetTheorems, TLAPS

Maybe == Figures \cup {Absent}
Pairs == [uya : Maybe, redis : Maybe]

(* A row is what Row makes of figures. *)
GoodRow(row, base) ==
    /\ row.uya \in Figures /\ row.redis \in Maybe /\ base \in Pairs
    /\ \E version : row = Row(row.uya, row.redis, base, version)

GoodReport(report) ==
    /\ DOMAIN report.rows \subseteq CaseSet
    /\ \A c \in DOMAIN report.rows : GoodRow(report.rows[c], report.base[c])
    /\ (\A c \in DOMAIN report.rows : report.rows[c].guard.ok) => report.exit = 0

(* What a benchmark has so far. *)
BenchInv ==
    /\ pc # "idle" =>
          /\ DOMAIN bench = {"version", "size", "path", "profile", "base", "uya", "redis"}
          /\ bench.profile \in Profiles \cup Probes
          /\ \A c \in CaseSet : bench.base[c] \in Pairs
    /\ pc \in {"redis", "write"} => \A c \in CasesOf(bench.version) : bench.uya[c] \in Figures
    /\ pc = "write" => \A c \in CasesOf(bench.version) : bench.redis[c] \in Maybe

ReportsInv ==
    /\ DOMAIN reports = Paths
    /\ \A p \in Paths : reports[p] # Absent => GoodReport(reports[p])

GapInv ==
    gap # Absent => /\ GoodReport(gap.source)
                    /\ gap.rows = GapRows(LoadResults(gap.source))
                    /\ gap.queue = DebtQueue(gap.rows)

(* Without errors the check has looked at one report and found it good. *)
VerdictInv ==
    verdict # Absent /\ verdict.errors = {} =>
        GoodReport(verdict.report) /\ ReportErrors(verdict.report) = {}

PerfInv == BenchInv /\ ReportsInv /\ GapInv /\ VerdictInv

-----------------------------------------------------------------------------
(* Reports. *)
LEMMA MeasuredFigures ==
    ASSUME NEW profile \in Profiles \cup Probes \cup Baselines, NEW c \in CaseSet
    PROVE  /\ profile[c].uya # Absent
           /\ Metrics(profile[c].uya) \in Figures
           /\ profile[c].redis # Absent => Metrics(profile[c].redis) \in Figures
BY FiguresAssumption

LEMMA NoBaselinePairs == \A c \in CaseSet : NoBaseline[c] \in Pairs
BY DEF NoBaseline, Pairs, Maybe

LEMMA RowFields ==
    ASSUME NEW uya, NEW redis, NEW base, NEW version
    PROVE  /\ Row(uya, redis, base, version).uya = uya
           /\ Row(uya, redis, base, version).redis = redis
BY DEF Row

LEMMA ReportIsGood ==
    ASSUME NEW b,
           \A c \in CasesOf(b.version) : /\ b.uya[c] \in Figures /\ b.redis[c] \in Maybe
                                         /\ b.base[c] \in Pairs
    PROVE  GoodReport(Report(b))
<1> DEFINE rows == [c \in CasesOf(b.version) |-> Row(b.uya[c], b.redis[c], b.base[c], b.version)]
<1>1. /\ Report(b).rows = rows
      /\ Report(b).base = b.base
      /\ Report(b).exit = IF \A c \in DOMAIN rows : rows[c].guard.ok THEN 0 ELSE 2
      /\ DOMAIN rows \subseteq CaseSet
    BY DEF Report, CasesOf
<1>2. ASSUME NEW c \in DOMAIN rows
      PROVE  GoodRow(rows[c], b.base[c])
    <2>1. rows[c] = Row(b.uya[c], b.redis[c], b.base[c], b.version)
        OBVIOUS
    <2>2. rows[c].uya = b.uya[c] /\ rows[c].redis = b.redis[c]
        BY <2>1, RowFields
    <2> QED
        BY <2>1, <2>2 DEF GoodRow
<1> HIDE DEF rows
<1> QED
    BY <1>1, <1>2 DEF GoodReport

LEMMA ResultsAreFigures ==
    ASSUME NEW report, GoodReport(report), NEW c \in CaseSet
    PROVE  LoadResults(report)[c] \in Pairs
BY DEF GoodReport, GoodRow, LoadResults, Pairs, Maybe

(* The rows of a gap report are those of its report.                       *)
LEMMA RowsOfGap ==
    ASSUME NEW report, GoodReport(report)
    PROVE  LET rows == GapRows(LoadResults(report))
           IN  /\ DOMAIN rows = DOMAIN report.rows
               /\ \A c \in DOMAIN rows :
                     /\ rows[c].uya = report.rows[c].uya /\ rows[c].redis = report.rows[c].redis
                     /\ rows[c].status = StatusFor(report.rows[c].uya, report.rows[c].redis)
                     /\ rows[c].uya \in Figures /\ rows[c].redis \in Maybe
<1> DEFINE results == LoadResults(report)
           read == {d \in CaseSet : results[d].uya # Absent}
<1>1. \A c \in DOMAIN report.rows :
        /\ c \in CaseSet /\ report.rows[c].uya \in Figures /\ report.rows[c].redis \in Maybe
    BY DEF GoodReport, GoodRow
<1>2. \A c \in CaseSet :
        /\ c \in DOMAIN report.rows => /\ results[c].uya = report.rows[c].uya
                                       /\ results[c].redis = report.rows[c].redis
        /\ c \notin DOMAIN report.rows => results[c].uya = Absent
    BY DEF LoadResults
<1>3. read = DOMAIN report.rows
    BY <1>1, <1>2, FiguresAssumption
<1>4. GapRows(results) = [c \in read |->
                            [uya |-> results[c].uya, redis |-> results[c].redis,
                             status |-> StatusFor(results[c].uya, results[c].redis)]]
    BY DEF GapRows
<1> HIDE DEF read, results
<1> QED
    BY <1>1, <1>2, <1>3, <1>4 DEF results

-----------------------------------------------------------------------------
(* The invariant. *)
LEMMA PerfInit == Init => PerfInv
<1> SUFFICES ASSUME Init PROVE PerfInv
    OBVIOUS
<1>1. PICK profile \in Baselines :
          LET b == [version |-> "v0.8.0", size |-> "formal", base |-> NoBaseline,
                    uya |-> [c \in CaseSet |-> Metrics(profile[c].uya)],
                    redis |-> [c \in CaseSet |-> IF profile[c].redis = Absent THEN Absent
                                                 ELSE Metrics(profile[c].redis)]]
          IN  reports = [p \in Paths |-> IF p = "default" THEN Report(b) ELSE Absent]
    BY DEF Init
<1> DEFINE b == [version |-> "v0.8.0", size |-> "formal", base |-> NoBaseline,
                 uya |-> [c \in CaseSet |-> Metrics(profile[c].uya)],
                 redis |-> [c \in CaseSet |-> IF profile[c].redis = Absent THEN Absent
                                              ELSE Metrics(profile[c].redis)]]
<1>2. \A c \in CaseSet : /\ b.uya[c] \in Figures /\ b.redis[c] \in Maybe
                         /\ b.base[c] \in Pairs
    BY MeasuredFigures, NoBaselinePairs DEF Maybe
<1>3. GoodReport(Report(b))
    BY <1>2, ReportIsGood DEF CasesOf
<1>4. reports = [p \in Paths |-> IF p = "default" THEN Report(b) ELSE Absent]
    BY <1>1
<1>5. ReportsInv
    <2> HIDE DEF b
    <2> QED BY <1>3, <1>4 DEF ReportsInv
<1> QED
    BY <1>5 DEF Init, PerfInv, BenchInv, GapInv, VerdictInv

LEMMA StartKeeps ==
    ASSUME PerfInv,
           NEW version, NEW size, NEW path \in Paths, NEW baseline \in {Absent, "default"},
           NEW profile \in Profiles \cup Probes, NEW cost,
           StartBench(version, size, path, baseline, profile, cost)
    PROVE  PerfInv'
<1>1. \A c \in CaseSet : LoadBaseline(baseline)[c] \in Pairs
    BY ResultsAreFigures, NoBaselinePairs, PerfReportsAssumption
       DEF LoadBaseline, PerfInv, ReportsInv
<1>2. BenchInv'
    BY <1>1, NoBaselinePairs DEF StartBench, BenchInv
<1> QED
    BY <1>2 DEF StartBench, PerfInv, ReportsInv, GapInv, VerdictInv

LEMMA MeasureKeeps ==
    ASSUME PerfInv, MeasureUya \/ MeasureRedis
    PROVE  PerfInv'
<1>1. CASE MeasureUya
    <2>1. \A c \in CasesOf(bench.version) : Measured("uya")[c] \in Figures
        BY <1>1, MeasuredFigures DEF MeasureUya, Measured, CasesOf, PerfInv, BenchInv
    <2>2. BenchInv'
        BY <1>1, <2>1 DEF MeasureUya, PerfInv, BenchInv
    <2> QED
        BY <1>1, <2>2 DEF MeasureUya, PerfInv, ReportsInv, GapInv, VerdictInv
<1>2. CASE MeasureRedis
    <2>1. \A c \in CasesOf(bench.version) : Measured("redis")[c] \in Maybe
        BY <1>2, MeasuredFigures DEF MeasureRedis, Measured, CasesOf, Maybe, PerfInv, BenchInv
    <2>2. BenchInv'
        BY <1>2, <2>1 DEF MeasureRedis, PerfInv, BenchInv
    <2> QED
        BY <1>2, <2>2 DEF MeasureRedis, PerfInv, ReportsInv, GapInv, VerdictInv
<1> QED
    BY <1>1, <1>2

LEMMA WriteKeeps ==
    ASSUME PerfInv, WriteReport \/ BenchFails
    PROVE  PerfInv'
<1>1. CASE WriteReport
    <2>1. GoodReport(Report(bench))
        BY <1>1, ReportIsGood DEF WriteReport, CasesOf, PerfInv, BenchInv
    <2>2. ReportsInv'
        BY <1>1, <2>1 DEF WriteReport, PerfInv, ReportsInv
    <2> QED
        BY <1>1, <2>2 DEF WriteReport, PerfInv, BenchInv, GapInv, VerdictInv
<1>2. CASE BenchFails
    BY <1>2 DEF BenchFails, PerfInv, BenchInv, ReportsInv, GapInv, VerdictInv
<1> QED
    BY <1>1, <1>2

(* No errors: there is one report that all documents cite, and nothing is  *)
(* wrong with it.                                                          *)
LEMMA VerdictOfCheck ==
    ASSUME ReportsInv, DocErrors = {}
    PROVE  LET report == IF Cardinality(CommonReports) = 1
                         THEN reports[CHOOSE p \in CommonReports : TRUE] ELSE Absent
           IN  GoodReport(report) /\ ReportErrors(report) = {}
<1> DEFINE path == CHOOSE p \in CommonReports : TRUE
<1>1. Cardinality(CommonReports) = 1
    BY DEF DocErrors
<1>2. CommonReports # {}
    BY <1>1, FS_EmptySet
<1>3. path \in CommonReports /\ path \in Paths
    BY <1>2 DEF CommonReports
<1>4. reports[path] # Absent
    BY <1>1 DEF DocErrors
<1>5. ASSUME NEW e \in ReportErrors(reports[path])
      PROVE  <<"report", e>> \in DocErrors
    <2>1. <<"report", e>> \in {<<"report", x>> : x \in ReportErrors(reports[path])}
        BY <1>5
    <2> QED
        BY <1>1, <1>4, <2>1, Zenon DEF DocErrors
<1>6. ReportErrors(reports[path]) = {}
    BY <1>5
<1>7. GoodReport(reports[path])
    BY <1>3, <1>4 DEF ReportsInv
<1> QED
    BY <1>1, <1>6, <1>7

LEMMA PerfStep == PerfInv /\ [Next]_vars => PerfInv'
<1> SUFFICES ASSUME PerfInv, [Next]_vars PROVE PerfInv'
    OBVIOUS
<1>1. CASE UNCHANGED vars
    BY <1>1 DEF vars, PerfInv, BenchInv, ReportsInv, GapInv, VerdictInv
<1>2. ASSUME NEW version, NEW size, NEW path \in Paths, NEW baseline \in {Absent, "default"},
             NEW profile \in Profiles \cup Probes, NEW cost,
             StartBench(version, size, path, baseline, profile, cost)
      PROVE  PerfInv'
    BY <1>2, StartKeeps
<1>3. CASE MeasureUya \/ MeasureRedis
    BY <1>3, MeasureKeeps
<1>4. CASE WriteReport \/ BenchFails
    BY <1>4, WriteKeeps
<1>5. ASSUME NEW path \in Paths, WriteGap(path)
      PROVE  PerfInv'
    <2>1. GoodReport(reports[path])
        BY <1>5 DEF WriteGap, PerfInv, ReportsInv
    <2>2. GapInv'
        BY <1>5, <2>1 DEF WriteGap, GapInv
    <2> QED
        BY <1>5, <2>2 DEF WriteGap, PerfInv, BenchInv, ReportsInv, VerdictInv
<1>6. CASE SourcesChange
    BY <1>6 DEF SourcesChange, PerfInv, BenchInv, ReportsInv, GapInv, VerdictInv
<1>7. ASSUME NEW edited, NEW path \in Paths, EditDocs(edited, path)
      PROVE  PerfInv'
    BY <1>7 DEF EditDocs, PerfInv, BenchInv, ReportsInv, GapInv, VerdictInv
<1>8. CASE VerifyDocTruth
    <2>1. VerdictInv'
        BY <1>8, VerdictOfCheck DEF VerifyDocTruth, VerdictInv, PerfInv
    <2> QED
        BY <1>8, <2>1 DEF VerifyDocTruth, PerfInv, BenchInv, ReportsInv, GapInv
<1> QED
    BY <1>1, <1>2, <1>3, <1>4, <1>5, <1>6, <1>7, <1>8, PerfReportsAssumption DEF Next

-----------------------------------------------------------------------------
(* The judgements. *)
LEMMA StatusOfRow ==
    ASSUME NEW uya \in Figures, NEW redis \in Maybe, NEW base, NEW version
    PROVE  LET row == Row(uya, redis, base, version)
               status == StatusFor(uya, redis)
           IN  /\ row.matrix # "none" =>
                    /\ (row.matrix = "critical") = (status = "critical")
                    /\ (row.matrix = "skip") = (status = "skip")
                    /\ row.matrix = "target" => status = "pass"
               /\ status # "skip" =>
                    /\ row.statuses.floor = "miss" => status = "critical"
                    /\ status = "pass" => row.statuses.target = "pass"
               /\ row.statuses.stretch = "pass" => row.statuses.target = "pass"
               /\ row.statuses.target = "pass" => row.statuses.floor = "pass"
<1> DEFINE row == Row(uya, redis, base, version)
<1>1. /\ row.matrix = IF version = "v0.1.0" THEN "none" ELSE RedisPkStatus(uya, redis)
      /\ row.statuses.floor = ClassifyStatus(uya.rps, redis, 25)
      /\ row.statuses.target = ClassifyStatus(uya.rps, redis, 100)
      /\ row.statuses.stretch = ClassifyStatus(uya.rps, redis, 110)
    BY DEF Row, Statuses
<1>2. uya.rps \in Nat /\ uya.p99 \in Nat
    BY DEF Figures
<1>3. CASE redis = Absent \/ redis.rps <= 0
    BY <1>1, <1>3 DEF RedisPkStatus, StatusFor, ClassifyStatus
<1>4. CASE ~(redis = Absent \/ redis.rps <= 0)
    <2>1. redis.rps \in Nat /\ redis.p99 \in Nat /\ redis.rps > 0
        BY <1>4 DEF Figures, Maybe
    <2>2. /\ (redis.rps * 100) \div 100 = redis.rps
          /\ (redis.rps * 25) \div 100 <= (redis.rps * 100) \div 100
          /\ (redis.rps * 100) \div 100 <= (redis.rps * 110) \div 100
          /\ 4 * ((redis.rps * 25) \div 100) <= redis.rps
        BY <2>1
    <2>3. /\ (redis.rps * 25) \div 100 \in Int
          /\ (redis.rps * 110) \div 100 \in Int
        BY <2>1
    <2> QED
        BY <1>1, <1>2, <1>4, <2>1, <2>2, <2>3 DEF RedisPkStatus, StatusFor, ClassifyStatus
<1> QED
    BY <1>3, <1>4

(* The result line, the matrix of the report and the gap report made of it *)
(* judge a measurement alike, whatever was measured (benchmark_v0_8_0.py   *)
(* lines 233-291, report_v0_8_0_gaps.py lines 81-94).                      *)
THEOREM JudgementsAgree == Spec => []StatusesAgree
<1>1. PerfInv => StatusesAgree
    <2> SUFFICES ASSUME PerfInv, gap # Absent, NEW c \in DOMAIN gap.rows
                 PROVE  LET status == gap.rows[c].status
                            row == gap.source.rows[c]
                        IN  /\ row.matrix # "none" =>
                                 /\ (row.matrix = "critical") = (status = "critical")
                                 /\ (row.matrix = "skip") = (status = "skip")
                                 /\ row.matrix = "target" => status = "pass"
                            /\ status # "skip" =>
                                 /\ row.statuses.floor = "miss" => status = "critical"
                                 /\ status = "pass" => row.statuses.target = "pass"
                            /\ row.statuses.stretch = "pass" => row.statuses.target = "pass"
                            /\ row.statuses.target = "pass" => row.statuses.floor = "pass"
        BY DEF StatusesAgree
    <2> DEFINE row == gap.source.rows[c]
    <2>0. /\ GoodReport(gap.source) /\ gap.rows = GapRows(LoadResults(gap.source))
          /\ c \in DOMAIN gap.source.rows
        BY RowsOfGap DEF PerfInv, GapInv
    <2>1. row.uya \in Figures /\ row.redis \in Maybe
        BY <2>0 DEF GoodReport, GoodRow
    <2>2. PICK base, version : row = Row(row.uya, row.redis, base, version)
        BY <2>0 DEF GoodReport, GoodRow
    <2>3. gap.rows[c].status = StatusFor(row.uya, row.redis)
        BY <2>0, RowsOfGap
    <2> HIDE DEF row
    <2>4. /\ row.matrix # "none" =>
               /\ (row.matrix = "critical") = (gap.rows[c].status = "critical")
               /\ (row.matrix = "skip") = (gap.rows[c].status = "skip")
               /\ row.matrix = "target" => gap.rows[c].status = "pass"
          /\ gap.rows[c].status # "skip" =>
               /\ row.statuses.floor = "miss" => gap.rows[c].status = "critical"
               /\ gap.rows[c].status = "pass" => row.statuses.target = "pass"
          /\ row.statuses.stretch = "pass" => row.statuses.target = "pass"
          /\ row.statuses.target = "pass" => row.statuses.floor = "pass"
        BY <2>1, <2>2, <2>3, StatusOfRow
    <2> QED
        BY <2>4 DEF row
<1> QED
    BY <1>1, PerfInit, PerfStep, PTL DEF Spec

-----------------------------------------------------------------------------
(* The queue of follow-ups. *)
LEMMA SlowerIsAsymmetric ==
    ASSUME NEW a, NEW b, a.uya \in Figures, b.uya \in Figures,
           a.redis \in Maybe, b.redis \in Maybe, Slower(a, b)
    PROVE  ~Slower(b, a)
<1>1. SUFFICES ASSUME Slower(b, a) PROVE FALSE
    OBVIOUS
<1>2. /\ a.redis \in Figures /\ a.redis.rps > 0
      /\ b.redis \in Figures /\ b.redis.rps > 0
    BY <1>1 DEF Slower, Maybe
<1>3. /\ a.uya.rps \in Nat /\ a.redis.rps \in Nat
      /\ b.uya.rps \in Nat /\ b.redis.rps \in Nat
    BY <1>2 DEF Figures
<1>4. /\ a.uya.rps * b.redis.rps < b.uya.rps * a.redis.rps
      /\ b.uya.rps * a.redis.rps < a.uya.rps * b.redis.rps
    BY <1>1, <1>2 DEF Slower, Maybe
<1>5. a.uya.rps * b.redis.rps \in Nat /\ b.uya.rps * a.redis.rps \in Nat
    BY <1>3
<1> QED
    BY <1>4, <1>5

(* An area has at most two cases, so one of them is not beaten. *)
LEMMA WorstIsSlowest ==
    ASSUME NEW rows, NEW x, NEW y, NEW cases \in SUBSET {x, y}, NEW c \in cases,
           \A d \in cases : rows[d].uya \in Figures /\ rows[d].redis \in Maybe
    PROVE  ~Slower(rows[c], rows[Worst(rows, cases)])
<1>1. \A d \in cases : ~Slower(rows[d], rows[d])
    BY SlowerIsAsymmetric
<1>2. \E w \in cases : \A d \in cases : ~Slower(rows[d], rows[w])
    <2>1. CASE \E d \in cases : Slower(rows[d], rows[c])
        <3>1. PICK d \in cases : Slower(rows[d], rows[c])
            BY <2>1
        <3>2. ~Slower(rows[c], rows[d])
            BY <3>1, SlowerIsAsymmetric
        <3>3. c # d
            BY <3>1, <3>2
        <3>4. \A e \in cases : e = c \/ e = d
            BY <3>3
        <3> QED
            BY <1>1, <3>2, <3>4
    <2>2. CASE ~\E d \in cases : Slower(rows[d], rows[c])
        BY <2>2
    <2> QED
        BY <2>1, <2>2
<1> QED
    BY <1>2 DEF Worst

(* But for a critical PING and a SET to be watched, of which the queue     *)
(* knows nothing, a case that is not as it should be has an item, and the  *)
(* evidence of an item is the worst case of its area                       *)
(* (report_v0_8_0_gaps.py lines 147-217).                                  *)
THEOREM QueueKnowsTheWorst == Spec => []DebtIsQueued
<1>1. PerfInv => DebtIsQueued
    <2> SUFFICES ASSUME PerfInv, gap # Absent, NEW c \in DOMAIN gap.rows
                 PROVE  LET status == gap.rows[c].status
                            items == {i \in gap.queue : c \in i.cases /\ i.area \in
                               {"set_write_path", "get_response_path", "round_trip_overhead"}}
                        IN  /\ status \in {"critical", "high"}
                                  /\ ~(c = "ping" /\ status = "critical") => items # {}
                            /\ status = "watch" /\ c \notin SetCases(gap.rows) => items # {}
                            /\ \A i \in items : c # "ping" =>
                                  ~Slower(gap.rows[c], gap.rows[i.evidence])
        BY SMTT(30) DEF DebtIsQueued
    <2> DEFINE rows == gap.rows
               items == {i \in gap.queue : c \in i.cases /\ i.area \in
                            {"set_write_path", "get_response_path", "round_trip_overhead"}}
    <2>1. /\ gap.queue = DebtQueue(rows)
          /\ \A d \in DOMAIN rows : rows[d].uya \in Figures /\ rows[d].redis \in Maybe
          /\ DOMAIN rows \subseteq CaseSet /\ c \in DOMAIN rows
        BY RowsOfGap DEF PerfInv, GapInv, GoodReport
    <2> HIDE DEF rows
    <2>2. c \in SetCases(rows) \/ c \in GetCases(rows) \/ c = "ping"
        BY <2>1, PerfReportsAssumption DEF CaseSet, SetCases, GetCases
    <2>3. ASSUME c \in SetCases(rows), rows[c].status \in {"critical", "high"}
          PROVE  items # {}
        <3>1. Item("P0", "set_write_path", SetCases(rows), Worst(rows, SetCases(rows))) \in gap.queue
            BY <2>1, <2>3 DEF DebtQueue, SomeRow
        <3> QED
            BY <2>3, <3>1 DEF Item
    <2>4. ASSUME c \in GetCases(rows), rows[c].status \in {"critical", "high", "watch"}
          PROVE  items # {}
        <3>1. Item("P1", "get_response_path", GetCases(rows), Worst(rows, GetCases(rows))) \in gap.queue
            BY <2>1, <2>4 DEF DebtQueue, SomeRow
        <3> QED
            BY <2>4, <3>1 DEF Item
    <2>5. ASSUME c = "ping", rows[c].status \in {"high", "watch"}
          PROVE  items # {}
        <3>1. Item("P2", "round_trip_overhead", {"ping"}, "ping") \in gap.queue
            BY <2>1, <2>5 DEF DebtQueue, SomeRow
        <3> QED
            BY <2>5, <3>1 DEF Item
    <2>6. ASSUME NEW i \in items, c # "ping"
          PROVE  ~Slower(rows[c], rows[i.evidence])
        <3>1. \/ i = Item("P0", "set_write_path", SetCases(rows), Worst(rows, SetCases(rows)))
              \/ i = Item("P1", "get_response_path", GetCases(rows), Worst(rows, GetCases(rows)))
              \/ i = Item("P2", "round_trip_overhead", {"ping"}, "ping")
            BY <2>1, <2>6 DEF DebtQueue, Item
        <3>2. CASE i = Item("P0", "set_write_path", SetCases(rows), Worst(rows, SetCases(rows)))
            <4>1. c \in SetCases(rows) /\ i.evidence = Worst(rows, SetCases(rows))
                BY <2>6, <3>2 DEF Item
            <4>2. SetCases(rows) \in SUBSET {"set_16b", "set_1024b"} /\ SetCases(rows) \subseteq DOMAIN rows
                BY DEF SetCases
            <4> QED
                BY <2>1, <4>1, <4>2, WorstIsSlowest
        <3>3. CASE i = Item("P1", "get_response_path", GetCases(rows), Worst(rows, GetCases(rows)))
            <4>1. c \in GetCases(rows) /\ i.evidence = Worst(rows, GetCases(rows))
                BY <2>6, <3>3 DEF Item
            <4>2. GetCases(rows) \in SUBSET {"get_16b", "get_1024b"} /\ GetCases(rows) \subseteq DOMAIN rows
                BY DEF GetCases
            <4> QED
                BY <2>1, <4>1, <4>2, WorstIsSlowest
        <3>4. CASE i = Item("P2", "round_trip_overhead", {"ping"}, "ping")
            BY <2>6, <3>4 DEF Item
        <3> QED
            BY <3>1, <3>2, <3>3, <3>4
    <2> QED
        BY <2>2, <2>3, <2>4, <2>5, <2>6 DEF rows, SetCases, GetCases
<1> QED
    BY <1>1, PerfInit, PerfStep, PTL DEF Spec

-----------------------------------------------------------------------------
(* The guard. *)
LEMMA MaxOfTwo ==
    ASSUME NEW a \in Int, NEW b \in Int
    PROVE  Max({a, b}) = a \/ Max({a, b}) = b
<1>1. \E x \in {a, b} : \A y \in {a, b} : x >= y
    <2>1. CASE a >= b
        BY <2>1
    <2>2. CASE ~(a >= b)
        BY <2>2
    <2> QED
        BY <2>1, <2>2
<1> QED
    BY <1>1 DEF Max

(* A case whose guard says pass was compared, and is not much worse.       *)
LEMMA PassMeansCompared ==
    ASSUME NEW uya \in Figures, NEW redis \in Maybe, NEW base \in Pairs, NEW version,
           Row(uya, redis, base, version).guard.throughput = "pass",
           Row(uya, redis, base, version).guard.p99 = "pass"
    PROVE  /\ Row(uya, redis, base, version).guard.ok
           /\ base.uya # Absent
           /\ \/ 1000 * uya.rps + 1000 > 882 * base.uya.rps
              \/ /\ base.redis # Absent
                 /\ uya.rps * base.redis.rps * 100 >= base.uya.rps * redis.rps * 94
           /\ uya.p99 <= base.uya.p99 + 100 \/ 100 * uya.p99 <= 115 * base.uya.p99
<1> DEFINE guard == Guard(uya, redis, base.uya, base.redis)
<1>1. /\ version # "v0.1.0"
      /\ Row(uya, redis, base, version).guard = guard
      /\ guard.throughput = "pass" /\ guard.p99 = "pass"
    BY DEF Row, Skipped
<1>2. ~(base.uya = Absent \/ base.uya.rps <= 0 \/ base.uya.p99 <= 0)
    BY <1>1 DEF Guard, Skipped
<1>3. base.uya \in Figures
    BY <1>2 DEF Pairs, Maybe
<1>4. /\ uya.rps \in Nat /\ uya.p99 \in Nat
      /\ base.uya.rps \in Nat /\ base.uya.p99 \in Nat
    BY <1>3 DEF Figures
<1> DEFINE comparable == /\ base.redis # Absent /\ redis # Absent
                         /\ base.redis.rps > 0 /\ redis.rps > 0
           relative == comparable /\ NormalizedPass(uya, redis, base.uya, base.redis)
           throughput == AbsolutePass(uya, base.uya) \/ relative
<1>5. /\ guard.throughput = Outcome(throughput)
      /\ guard.p99 = Outcome(P99Pass(uya, base.uya))
      /\ guard.ok = (throughput /\ P99Pass(uya, base.uya))
    BY <1>2 DEF Guard
<1>6. throughput /\ P99Pass(uya, base.uya)
    BY <1>1, <1>5 DEF Outcome
<1>7. ASSUME AbsolutePass(uya, base.uya)
      PROVE  1000 * uya.rps + 1000 > 882 * base.uya.rps
    <2>1. 1000 * ((base.uya.rps * 882) \div 1000) + 1000 > 882 * base.uya.rps
        BY <1>4
    <2>2. (base.uya.rps * 882) \div 1000 \in Int
        BY <1>4
    <2> QED
        BY <1>4, <1>7, <2>1, <2>2 DEF AbsolutePass
<1>8. ASSUME relative
      PROVE  /\ base.redis # Absent
             /\ uya.rps * base.redis.rps * 100 >= base.uya.rps * redis.rps * 94
    BY <1>8 DEF NormalizedPass
<1>9. uya.p99 <= base.uya.p99 + 100 \/ 100 * uya.p99 <= 115 * base.uya.p99
    <2>1. /\ (base.uya.p99 * 115) \div 100 \in Int
          /\ 100 * ((base.uya.p99 * 115) \div 100) <= 115 * base.uya.p99
          /\ base.uya.p99 + 100 \in Int
        BY <1>4
    <2>2. uya.p99 <= (base.uya.p99 * 115) \div 100 \/ uya.p99 <= base.uya.p99 + 100
        BY <1>6, <2>1, MaxOfTwo DEF P99Pass
    <2> QED
        BY <1>4, <2>1, <2>2
<1>10. \/ 1000 * uya.rps + 1000 > 882 * base.uya.rps
       \/ /\ base.redis # Absent
          /\ uya.rps * base.redis.rps * 100 >= base.uya.rps * redis.rps * 94
    <2>1. AbsolutePass(uya, base.uya) \/ relative
        BY <1>6
    <2> HIDE DEF relative
    <2> QED
        BY <2>1, <1>7, <1>8
<1>11. guard.ok
    BY <1>5, <1>6
<1> HIDE DEF guard
<1> QED
    BY <1>1, <1>2, <1>9, <1>10, <1>11

(* Whoever finds the documents true (verify_doc_truth.py lines 150-172)    *)
(* has looked at a formal run in which every case was compared with a      *)
(* baseline and with Redis, whatever was run, edited or replaced before.   *)
THEOREM GreenWasCompared == Spec => []GreenMeansCompared
<1>1. PerfInv => GreenMeansCompared
    <2> SUFFICES ASSUME PerfInv, verdict # Absent, verdict.errors = {}
                 PROVE  /\ verdict.report.size = "formal" /\ verdict.report.exit = 0
                        /\ \A c \in CaseSet :
                             LET row == verdict.report.rows[c]
                                 base == verdict.report.base[c]
                             IN  /\ base.uya # Absent /\ row.redis # Absent
                                 /\ 1000 * row.uya.rps + 1000 > 882 * base.uya.rps
                                    \/ /\ base.redis # Absent
                                       /\ row.uya.rps * base.redis.rps * 100
                                            >= base.uya.rps * row.redis.rps * 94
                                 /\ \/ row.uya.p99 <= base.uya.p99 + 100
                                    \/ 100 * row.uya.p99 <= 115 * base.uya.p99
        BY DEF GreenMeansCompared
    <2> DEFINE report == verdict.report
    <2>1. GoodReport(report) /\ ReportErrors(report) = {}
        BY DEF PerfInv, VerdictInv
    <2>2. /\ report.size = "formal"
          /\ Complete(report)
          /\ \A c \in CaseSet : /\ c \in DOMAIN report.rows
                                /\ report.rows[c].guard.throughput = "pass"
                                /\ report.rows[c].guard.p99 = "pass"
        BY <2>1 DEF ReportErrors
    <2>3. ASSUME NEW c \in CaseSet
          PROVE  /\ report.rows[c].guard.ok
                 /\ report.base[c].uya # Absent /\ report.rows[c].redis # Absent
                 /\ \/ 1000 * report.rows[c].uya.rps + 1000 > 882 * report.base[c].uya.rps
                    \/ /\ report.base[c].redis # Absent
                       /\ report.rows[c].uya.rps * report.base[c].redis.rps * 100
                            >= report.base[c].uya.rps * report.rows[c].redis.rps * 94
                 /\ \/ report.rows[c].uya.p99 <= report.base[c].uya.p99 + 100
                    \/ 100 * report.rows[c].uya.p99 <= 115 * report.base[c].uya.p99
        <3> DEFINE row == report.rows[c]
                   base == report.base[c]
        <3>1. row.uya \in Figures /\ row.redis \in Maybe /\ base \in Pairs
            BY <2>1, <2>2 DEF GoodReport, GoodRow
        <3>2. PICK version : row = Row(row.uya, row.redis, base, version)
            BY <2>1, <2>2 DEF GoodReport, GoodRow
        <3>3. row.guard.throughput = "pass" /\ row.guard.p99 = "pass"
            BY <2>2
        <3>4. row.redis # Absent
            BY <2>2 DEF Complete, HasRow
        <3> HIDE DEF row, base
        <3>5. /\ row.guard.ok
              /\ base.uya # Absent
              /\ \/ 1000 * row.uya.rps + 1000 > 882 * base.uya.rps
                 \/ /\ base.redis # Absent
                    /\ row.uya.rps * base.redis.rps * 100 >= base.uya.rps * row.redis.rps * 94
              /\ row.uya.p99 <= base.uya.p99 + 100 \/ 100 * row.uya.p99 <= 115 * base.uya.p99
            BY <3>1, <3>2, <3>3, PassMeansCompared
        <3> QED
            BY <3>4, <3>5 DEF row, base
    <2>4. report.exit = 0
        BY <2>1, <2>3 DEF GoodReport
    <2> QED
        BY <2>2, <2>3, <2>4
<1> QED
    BY <1>1, PerfInit, PerfStep, PTL DEF Spec
=============================================================================
