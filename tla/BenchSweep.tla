----------------------------- MODULE BenchSweep -----------------------------
(***************************************************************************)
(* evals/: the campaigns that run one benchmark after another and compare   *)
(* them: model selection, the quantization sweep, the fleet matrix and the  *)
(* differential run (bench.py, model_selector.py, quant_sweep.py, fleet.py, *)
(* differential.py).                                                        *)
(*                                                                          *)
(* A bench is what one run on a board gave: whether it exited with 0, and   *)
(* its figures, each None if not measured.  Lost is a run that raised a     *)
(* BoardError instead, Unregistered one whose board is not in the registry. *)
(***************************************************************************)
EXTENDS Integers, Sequences, FiniteSets, FiniteSetsExt, SequencesExt

NoFigure == -1
Bench(ok, latency, fps, energy, power, accuracy) ==
  [ok |-> ok, latency |-> latency, fps |-> fps, energy |-> energy, power |-> power,
   accuracy |-> accuracy]
Lost == [raised |-> "BoardError"]
Unregistered == [raised |-> "no such board"]
Raised(b) == "raised" \in DOMAIN b

\* What a campaign leaves: a result with a row per item, or no result at all.
\* The fleet takes a lost board for one that failed.
Failed == Bench(FALSE, NoFigure, NoFigure, NoFigure, NoFigure, NoFigure)
Rows(kind, benches) ==
  IF \E b \in ToSet(benches) : b = Unregistered \/ (b = Lost /\ kind # "fleet")
  THEN [persisted |-> FALSE, rows |-> <<>>]
  ELSE [persisted |-> TRUE, rows |-> [i \in DOMAIN benches |->
         IF Raised(benches[i]) THEN Failed ELSE benches[i]]]

First(is) == CHOOSE i \in is : \A j \in is : i <= j
\* max and min of Python: the first of equals.
Best(is, key(_)) == First({i \in is : \A j \in is : key(j) <= key(i)})

-----------------------------------------------------------------------------
\* model_selector: a limit that is set is kept only by a figure that was taken.
Limit(power, fps, latency, accuracy) ==
  [power |-> power, fps |-> fps, latency |-> latency, accuracy |-> accuracy]
AtMost == {"power", "latency"}
AtLeastK == {"fps", "accuracy"}
Violations(b, limit) ==
  {k \in AtMost \cup AtLeastK : limit[k] # NoFigure /\
     (b[k] = NoFigure \/ (k \in AtMost /\ b[k] > limit[k]) \/ (k \in AtLeastK /\ b[k] < limit[k]))}
Meets(b, limit) == b.ok /\ Violations(b, limit) = {}
Fps(b) == IF b.fps = NoFigure THEN 0 ELSE b.fps
SelectWinner(rows, limit) ==
  LET meeting == {i \in DOMAIN rows : Meets(rows[i], limit)}
      fps(i) == Fps(rows[i])
  IN  IF meeting = {} THEN 0 ELSE Best(meeting, fps)

\* quant_sweep: a dominates b on what both report.
Shared(a, b) == {k \in {"latency", "energy", "accuracy"} : a[k] # NoFigure /\ b[k] # NoFigure}
Gain(a, b, k) == IF k = "accuracy" THEN a[k] - b[k] ELSE b[k] - a[k]
Dominates(a, b) ==
  /\ "latency" \in Shared(a, b)
  /\ \A k \in Shared(a, b) : Gain(a, b, k) >= 0
  /\ \E k \in Shared(a, b) : Gain(a, b, k) > 0
TimedRows(rows) == {i \in DOMAIN rows : rows[i].ok /\ rows[i].latency # NoFigure}
Frontier(rows) == {i \in TimedRows(rows) : ~\E j \in TimedRows(rows) : Dominates(rows[j], rows[i])}
\* knee: the most frames per watt, or per second where no power was taken.
Knee(rows) ==
  LET eligible == {i \in Frontier(rows) : rows[i].fps # NoFigure}
      powered(i) == rows[i].power > 0
      rate(i) == (12 * rows[i].fps) \div (IF powered(i) THEN rows[i].power ELSE 1)
  IN  IF eligible = {} THEN 0 ELSE Best(eligible, rate)
\* select_best: the fastest of the frontier within the limits.
SelectBest(rows, limit) ==
  LET within == {i \in Frontier(rows) : Violations(rows[i], limit) = {}}
      speed(i) == 0 - rows[i].latency
  IN  IF within = {} THEN 0 ELSE Best(within, speed)

\* fleet: all boards passed, the fastest of those that did, and a claim of
\* confidence 1 for every board, by its type and release.
AllOk(rows) == rows # <<>> /\ \A i \in DOMAIN rows : rows[i].ok
FleetWinner(rows) ==
  LET passing == {i \in DOMAIN rows : rows[i].ok /\ rows[i].fps # NoFigure}
      fps(i) == rows[i].fps
  IN  IF passing = {} THEN 0 ELSE Best(passing, fps)
FleetClaims(rows, stacks) ==
  [i \in DOMAIN rows |-> [stack |-> stacks[i], works |-> rows[i].ok]]

\* differential: the board with the least of a figure among those that exited 0.
BestBy(rows, k) ==
  LET eligible == {i \in DOMAIN rows : rows[i].ok /\ rows[i][k] # NoFigure}
      less(i) == 0 - rows[i][k]
  IN  IF eligible = {} THEN 0 ELSE Best(eligible, less)

-----------------------------------------------------------------------------
\* No row is missing from a result: what was persisted has one for every item.
NothingIsDropped(kind, benches) ==
  LET r == Rows(kind, benches) IN
    /\ r.persisted => Len(r.rows) = Len(benches)
    /\ r.persisted => \A i \in DOMAIN benches : r.rows[i].ok => benches[i] = r.rows[i]

\* The winner met every limit that was set with figures it really took, and no
\* candidate that does too is faster.
WinnerMeetsLimits(rows, limit) ==
  LET w == SelectWinner(rows, limit)
      within(i) == /\ rows[i].ok
                   /\ \A k \in DOMAIN limit : limit[k] # NoFigure => rows[i][k] # NoFigure
                   /\ \A k \in AtMost : limit[k] # NoFigure => rows[i][k] <= limit[k]
                   /\ \A k \in AtLeastK : limit[k] # NoFigure => rows[i][k] >= limit[k]
  IN  /\ w = 0 <=> \A i \in DOMAIN rows : ~within(i)
      /\ w # 0 => within(w) /\ \A i \in DOMAIN rows : within(i) => rows[i].fps <= Fps(rows[w])

\* Of configs that report the same figures, the frontier holds one as soon as
\* any was timed, every other is dominated by one that is on it, and the fastest
\* of all is never passed over when no limit is set.
FrontierIsSound(rows) ==
  LET front == Frontier(rows) unlimited == Limit(NoFigure, NoFigure, NoFigure, NoFigure)
      alike == \A i, j \in TimedRows(rows) : \A k \in {"energy", "accuracy"} :
                 rows[i][k] = NoFigure <=> rows[j][k] = NoFigure
  IN  alike =>
        /\ TimedRows(rows) # {} <=> front # {}
        /\ \A i \in TimedRows(rows) \ front : \E j \in front : Dominates(rows[j], rows[i])
        /\ TimedRows(rows) # {} =>
             LET w == SelectBest(rows, unlimited) IN
               \A i \in TimedRows(rows) : rows[w].latency <= rows[i].latency
        /\ Knee(rows) \in front \cup {0}

\* A board claimed to work ran the benchmark to exit 0; the fleet is all right
\* exactly when every board is claimed to work, and its winner is one of them.
ClaimsAreMeasured(benches, stacks) ==
  LET r == Rows("fleet", benches) claims == FleetClaims(r.rows, stacks) w == FleetWinner(r.rows) IN
    r.persisted =>
      /\ \A i \in DOMAIN claims : claims[i].works => ~Raised(benches[i]) /\ benches[i].ok
      /\ claims # <<>> => (AllOk(r.rows) <=> \A i \in DOMAIN claims : claims[i].works)
      /\ w # 0 => claims[w].works
      /\ w # 0 => BestBy(r.rows, "latency") = 0 \/ claims[BestBy(r.rows, "latency")].works
=============================================================================
