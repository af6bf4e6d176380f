------------------------------ MODULE Verdicts ------------------------------
(***************************************************************************)
(* evals/: the functions that turn what a board printed into verdicts:      *)
(* latency traces, model diffs, accuracy, CUDA sanitizer reports, golden    *)
(* scores and reviews, profiles.                                            *)
(*                                                                          *)
(* A box is an interval (boxes of one height); its label is its class.      *)
(* Percentiles are in hundredths of a ms, precisions in 1/Sixth of one, for *)
(* up to three predictions.  None is a figure nobody measured.              *)
(***************************************************************************)
EXTENDS Integers, Sequences, FiniteSets, FiniteSetsExt, SequencesExt

None == -1
Total(s) == FoldLeft(LAMBDA a, b : a + b, 0, s)
LeastOf(S) == CHOOSE x \in S : \A y \in S : x <= y

-----------------------------------------------------------------------------
\* latency_trace.  A line is a stage, its ms and its frame, None if not given:
\* then a stage met again starts the next frame.
Timed(lines) ==
  FoldLeft(LAMBDA p, l :
      LET next == l.stage \in p.seen
          frame == IF l.frame # None THEN l.frame ELSE IF next THEN p.frame + 1 ELSE p.frame
          line == [stage |-> l.stage, ms |-> l.ms, frame |-> frame]
      IN  IF l.frame # None THEN [p EXCEPT !.out = Append(@, line)]
          ELSE [seen |-> {l.stage} \cup IF next THEN {} ELSE p.seen, frame |-> frame,
                out |-> Append(p.out, line)],
    [seen |-> {}, frame |-> 0, out |-> <<>>], lines).out

\* percentile: interpolated between two of the values in ascending order; the
\* values are those of a dictionary.
Nth(values, k) ==
  LeastOf({v \in Range(values) : Cardinality({x \in DOMAIN values : values[x] <= v}) >= k})
Percentile(values, q) ==
  LET n == Cardinality(DOMAIN values) rank == q * (n - 1) low == (rank \div 100) + 1
      high == LeastOf({low + 1, n})
  IN  IF n = 1 THEN 100 * Nth(values, 1)
      ELSE 100 * Nth(values, low) + (Nth(values, high) - Nth(values, low)) * (rank % 100)

\* analyze_trace: the total of each frame.
Frames(t) == {t[i].frame : i \in DOMAIN t}
FrameTotals_LastStageOnly(lines) ==
  LET t == Timed(lines) IN [f \in Frames(t) |-> t[Max({i \in DOMAIN t : t[i].frame = f})].ms]
FrameTotals(lines) ==
  LET t == Timed(lines)
  IN  [f \in Frames(t) |-> Total([i \in DOMAIN t |-> IF t[i].frame = f THEN t[i].ms ELSE 0])]
P99(lines) == Percentile(FrameTotals(lines), 99)
\* passed: neither without a budget nor without a trace.
LatencyPassed(lines, budget) ==
  IF budget = None \/ lines = <<>> THEN "none"
  ELSE IF P99(lines) <= 100 * budget THEN "pass" ELSE "fail"

\* Besides one frame, fewer than one in a hundred are over the budget.
FewOver(totals, budget) ==
  100 * Cardinality({f \in DOMAIN totals : totals[f] > budget}) < Cardinality(DOMAIN totals) + 99

\* Every ms a stage took is in one frame's total, the percentiles are in order,
\* a passed budget is kept by all frames but few, and a trace in which every
\* frame has the same stages is cut where its frames end.
LatencyIsAccounted(lines, budget, perFrame) ==
  lines # <<>> =>
    LET totals == FrameTotals(lines)
        cut(k) == Total([j \in 1..perFrame |-> lines[k * perFrame + j].ms])
        uniform == /\ perFrame > 0 /\ Len(lines) % perFrame = 0
                   /\ \A i \in DOMAIN lines : lines[i].frame = None
                   /\ \A i, j \in DOMAIN lines :
                        lines[i].stage = lines[j].stage <=> i % perFrame = j % perFrame
    IN  /\ SumFunction(totals) = Total([i \in DOMAIN lines |-> lines[i].ms])
        /\ Percentile(totals, 50) <= Percentile(totals, 95)
        /\ Percentile(totals, 95) <= P99(lines)
        /\ LatencyPassed(lines, budget) = "pass" => FewOver(totals, budget)
        /\ uniform => totals = [k \in 0..(Len(lines) \div perFrame - 1) |-> cut(k)]

-----------------------------------------------------------------------------
\* metrics: the overlap of two boxes as a fraction.
Overlap(p, q) ==
  LET lo == IF p.lo >= q.lo THEN p.lo ELSE q.lo hi == IF p.hi <= q.hi THEN p.hi ELSE q.hi
      inter == IF hi > lo THEN hi - lo ELSE 0
  IN  [num |-> inter, den |-> (p.hi - p.lo) + (q.hi - q.lo) - inter]
Better(x, y) == x.num * y.den > y.num * x.den
Half(x) == 2 * x.num >= x.den

\* Each prediction, best score first, takes the free truth it overlaps most.
TakeTruth(p, taken, truths) ==
  LET free == {j \in DOMAIN truths \ taken : Overlap(p, truths[j]).num > 0}
      best == {j \in free : \A k \in free : ~Better(Overlap(p, truths[k]), Overlap(p, truths[j]))}
  IN  IF best = {} THEN 0 ELSE IF Half(Overlap(p, truths[LeastOf(best)])) THEN LeastOf(best) ELSE 0
Hits(preds, truths) ==
  FoldLeft(LAMBDA m, p : LET j == TakeTruth(p, m.taken, truths)
                         IN  [taken |-> IF j = 0 THEN m.taken ELSE m.taken \cup {j},
                              hits |-> Append(m.hits, j # 0)],
           [taken |-> {}, hits |-> <<>>], preds).hits

Sixth == 6
\* average_precision, times the number of truths: each hit counts the best
\* precision reached at or after it.
Precision(hits, k) == (Sixth * Cardinality({i \in 1..k : hits[i]})) \div k
AveragePrecision(preds, truths) ==
  LET hits == Hits(preds, truths)
      worth(i) == Max({Precision(hits, k) : k \in i..Len(hits)})
  IN  MapThenSumSet(worth, {i \in DOMAIN hits : hits[i]})
\* The gate: without a baseline there is nothing to fail.
AccuracyPassed(measured, baseline, tolerance) == baseline = None \/ measured - baseline >= 0 - tolerance

\* Precision never exceeds recall's share, is full exactly when every truth is
\* found before anything false, and a false alarm at the end changes nothing.
PrecisionIsRanked(preds, truths) ==
  LET hits == Hits(preds, truths)
      found == Cardinality({i \in DOMAIN hits : hits[i]})
      ap == AveragePrecision(preds, truths)
      n == Len(preds)
  IN  /\ ap <= Sixth * found /\ found <= Len(truths)
      /\ ap = Sixth * found <=> \A i \in 1..found : hits[i]
      /\ n > 0 /\ ~hits[n] => AveragePrecision(Front(preds), truths) = ap

-----------------------------------------------------------------------------
\* shadow: each box of the incumbent takes the candidate's free box it overlaps
\* most, by half or more, the last among equals.
TakeBox(p, taken, boxes) ==
  LET free == {j \in DOMAIN boxes \ taken : Half(Overlap(p, boxes[j]))}
      best == {j \in free : \A k \in free : ~Better(Overlap(p, boxes[k]), Overlap(p, boxes[j]))}
  IN  IF best = {} THEN 0 ELSE Max(best)
DiffDetections(a, b) ==
  LET step(d, p) ==
        LET j == TakeBox(p, d.taken, b) IN
          IF j = 0 THEN [d EXCEPT !.removed = @ + 1]
          ELSE IF b[j].label = p.label
               THEN [d EXCEPT !.taken = @ \cup {j}, !.agreements = @ + 1]
               ELSE [d EXCEPT !.taken = @ \cup {j}, !.changed = @ + 1]
      d == FoldLeft(step, [taken |-> {}, agreements |-> 0, changed |-> 0, removed |-> 0], a)
  IN  [agreements |-> d.agreements, changed |-> d.changed, removed |-> d.removed,
       added |-> Len(b) - Cardinality(d.taken)]

\* Every box of either model is accounted for once, and a model whose boxes
\* differ agrees with itself.
DiffIsAccounted(a, b) ==
  LET d == DiffDetections(a, b)
      distinct == \A i, j \in DOMAIN a : i # j => <<a[i].lo, a[i].hi>> # <<a[j].lo, a[j].hi>>
  IN  /\ d.agreements + d.changed + d.removed = Len(a)
      /\ d.agreements + d.changed + d.added = Len(b)
      /\ distinct => DiffDetections(a, a).agreements = Len(a)

-----------------------------------------------------------------------------
\* cuda_check: of each tool's report the recognised error lines and the first
\* summary; a report without either counts no error.
SummaryCount(report) == IF report.summaries = <<>> THEN report.headers ELSE report.summaries[1]
CudaClean(reports) ==
  \A r \in ToSet(reports) : r.headers = 0 /\ SummaryCount(r) = 0

\* A clean report of tools that each ran one process to its end means that
\* none of them counted an error.
CudaCleanIsEarned(reports) ==
  CudaClean(reports) /\ (\A r \in ToSet(reports) : Len(r.summaries) = 1) =>
    Total([i \in DOMAIN reports |-> Total(reports[i].summaries) + reports[i].headers]) = 0

-----------------------------------------------------------------------------
\* schema.score and diff_against_baseline: criteria map a metric to the most it
\* may be (one operator stands for the six); missing metrics fail, metrics that
\* are missing or 0 are not compared.
Scored(metrics, criteria) ==
  \A k \in DOMAIN criteria : k \in DOMAIN metrics /\ metrics[k] <= criteria[k]
Costs == {"wall_s", "loop_count"}
NoBaseline == [none |-> TRUE]
DiffAgainst(baseline, passed, metrics) ==
  IF baseline = NoBaseline THEN {"no baseline"}
  ELSE (IF baseline.passed /\ ~passed THEN {"now fails"} ELSE {})
         \cup {k \in Costs \cap DOMAIN metrics \cap DOMAIN baseline.metrics :
                 baseline.metrics[k] > 0
                   /\ 100 * (metrics[k] - baseline.metrics[k]) > 15 * baseline.metrics[k]}
\* pr_review: a missing baseline is no regression on a PR.
ChangesRequested(results) ==
  \E r \in results : ~r.passed \/ DiffAgainst(r.baseline, r.passed, r.metrics) \ {"no baseline"} # {}

\* A review that passes saw every golden pass and no cost that both runs have
\* grow by half.
ReviewIsHonest(results) ==
  ~ChangesRequested(results) => \A r \in results :
    /\ r.passed
    /\ r.baseline # NoBaseline => \A k \in Costs \cap DOMAIN r.metrics \cap DOMAIN r.baseline.metrics :
         r.baseline.metrics[k] > 0 => 2 * r.metrics[k] <= 3 * r.baseline.metrics[k]

\* nsight: the slice that takes half of the time, in the order of the report.
Slices == <<"kernel", "memcpy", "sync", "cpu">>
Bottleneck(ns) ==
  LET sum == ns[1] + ns[2] + ns[3] + ns[4]
      top == LeastOf({i \in 1..4 : \A j \in 1..4 : ns[j] <= ns[i]})
  IN  IF sum = 0 THEN "unknown" ELSE IF 2 * ns[top] >= sum THEN Slices[top] ELSE "balanced"

\* A slice is blamed when it takes no less than the rest together, and then only.
BlameIsFair(ns) ==
  LET others(i) == (ns[1] + ns[2] + ns[3] + ns[4]) - ns[i] blamed == Bottleneck(ns) IN
    /\ \A i \in 1..4 : Slices[i] = blamed => ns[i] >= others(i)
    /\ blamed = "balanced" => \A i \in 1..4 : ns[i] < others(i)
=============================================================================
