--------------------------- MODULE MCPerfReports ---------------------------
(* Hosts for TLC.  A profile gives every case one pair of runs; the probes *)
(* give every case any pair, so that each status meets each other.         *)
EXTENDS PerfReports

MCCases == <<"ping", "set_16b", "get_16b", "set_1024b">>

(* Three requests: the 99th percentile of three is the one in the middle. *)
Run(elapsed, p99, rss) == [samples |-> <<p99, 10 * p99, 1>>, elapsed |-> elapsed, rss |-> rss]
(* Requests per second and latency of redis-uya; Redis has 1000 and 100. *)
Uya(rps, p99) == Run(3000000 \div rps, p99, 100)
Redis == Run(3000, 100, 30)
Pair(rps, p99) == [uya |-> Uya(rps, p99), redis |-> Redis]

Equal == Pair(1000, 100)
Pairs == {Pair(2000, 110), Pair(900, 100), Pair(1000, 400), Pair(240, 100), Pair(250, 401),
          [Equal EXCEPT !.redis = Absent], [Equal EXCEPT !.redis.elapsed = 0]}

All(pair) == [c \in CaseSet |-> pair]
(* The host is half as fast: redis-uya and Redis alike. *)
SlowHost == [uya |-> Uya(500, 150), redis |-> Run(6000, 150, 30)]
MCProfiles == {All(Equal), All(SlowHost), [All(Equal) EXCEPT !["get_16b"] = Pair(1000, 400)],
               All([Equal EXCEPT !.redis = Absent])}
MCBaselines == {All(Equal), All([Equal EXCEPT !.redis = Absent])}
MCProbes == [CaseSet -> Pairs]
=============================================================================
