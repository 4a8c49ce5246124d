----------------------------- MODULE TrendModel -----------------------------
(***************************************************************************)
(* The bounded sample histories and the curves drawn from them: TrendModel   *)
(* (src/models/trendmodel.cpp), fed by recordTrendSample() of the facade and *)
(* drawn by qml/Base/BsTrendPanel.qml.                                       *)
(*                                                                           *)
(* A point of a curve is a time and a value; scaling them to pixels is left  *)
(* out.  Values are even, so that the padding of one half is the integer 1.  *)
(***************************************************************************)
EXTENDS Integers, Sequences, SequencesExt, FiniteSetsExt

CONSTANTS
  Plotted,         \* the nodes of the selected rows
  Levels,          \* even numbers a node may report
  MaximumSamples,  \* m_maximumSamples
  Window,          \* m_windowMs
  MaxClock         \* bound: the wall clock's last instant

ASSUME TrendAssumption ==
  /\ Levels \subseteq Int /\ IsFiniteSet(Levels)   \* they stand for doubles
  /\ MaximumSamples \in Nat /\ Window \in Nat /\ MaxClock \in Nat

VARIABLES
  clock,    \* the wall clock
  series,   \* m_series
  frozen,   \* m_frozenNowMs, or -1 when the axis moves
  reported, \* history: what each node reported last, by each instant
  setBack   \* history: the wall clock was set back

trendVars == <<clock, series, frozen, reported, setBack>>

Unheard == -1

-----------------------------------------------------------------------------
(* A full series drops a tenth of its capacity, the oldest first; a sample   *)
(* older than the newest is refused.                                        *)
AppendSample(samples, t, v) ==
  IF samples # <<>> /\ t < Last(samples).t THEN samples
  ELSE LET drop == IF Len(samples) < MaximumSamples THEN 0 ELSE Max({1, MaximumSamples \div 10})
       IN Append(SubSeq(samples, drop + 1, Len(samples)), [t |-> t, v |-> v])

ReferenceTime == IF frozen = -1 THEN clock ELSE frozen
Start         == ReferenceTime - Window

InWindow(n) == {i \in DOMAIN series[n] : series[n][i].t >= Start}

(* rangeFor(): of all plotted nodes together, widened when it is one value. *)
RangeFor ==
  LET seen == UNION {{series[n][i].v : i \in InWindow(n)} : n \in Plotted}
  IN IF seen = {} THEN [min |-> 0, max |-> 0, hasData |-> FALSE]
     ELSE IF Cardinality(seen) = 1
          THEN [min |-> Min(seen) - 1, max |-> Max(seen) + 1, hasData |-> TRUE]
          ELSE [min |-> Min(seen), max |-> Max(seen), hasData |-> TRUE]

FirstIndex_InWindow(n) ==   \* mutant: the curve starts at the first sample of the window
  IF InWindow(n) = {} THEN Len(series[n]) ELSE Min(InWindow(n))

(* The last sample before the window, so that the curve enters from the left. *)
FirstIndex(n) ==
  IF InWindow(n) = {} THEN Len(series[n]) ELSE Max({1, Min(InWindow(n)) - 1})

(* The corners of a square wave: a level is held until the next one's time.  *)
SquareWave(samples) ==
  [i \in 1..2 * Len(samples) - 1 |->
     [t |-> samples[i \div 2 + 1].t, v |-> samples[(i + 1) \div 2].v]]

(* polylineFor(): a boolean's curve is stepped, any other's runs straight    *)
(* from sample to sample, and the last level holds to the right edge.        *)
(* Nothing is drawn while no plotted node has a sample in the window.        *)
PolylineFor(n, stepped) ==
  IF series[n] = <<>> \/ ~RangeFor.hasData THEN <<>>
  ELSE LET samples == SubSeq(series[n], FirstIndex(n), Len(series[n]))
           points  == IF stepped THEN SquareWave(samples) ELSE samples
       IN points \o (IF Last(points).t < ReferenceTime
                     THEN <<[t |-> ReferenceTime, v |-> Last(points).v]>> ELSE <<>>)

-----------------------------------------------------------------------------
Heard(n, v) == reported' = [reported EXCEPT ![n][clock] = v]

(* recordTrendSample(): also while the axis is frozen or the table paused.   *)
RecordTrendSample(n, v) ==
  /\ series' = [series EXCEPT ![n] = AppendSample(@, clock, v)]
  /\ Heard(n, v)
  /\ UNCHANGED <<clock, frozen, setBack>>

DropNode(n) ==
  /\ series[n] # <<>>
  /\ series' = [series EXCEPT ![n] = <<>>]
  /\ UNCHANGED <<clock, frozen, reported, setBack>>

ClearTrend ==
  /\ series' = [n \in Plotted |-> <<>>]
  /\ UNCHANGED <<clock, frozen, reported, setBack>>

SetPaused ==
  /\ frozen' = IF frozen = -1 THEN clock ELSE -1
  /\ UNCHANGED <<clock, series, reported, setBack>>

(* Time passes, and what was reported last still holds.                    *)
ClockTicks ==
  /\ clock < MaxClock
  /\ clock' = clock + 1
  /\ reported' = [n \in Plotted |-> [reported[n] EXCEPT ![clock'] = reported[n][clock]]]
  /\ UNCHANGED <<series, frozen, setBack>>

ClockSetBack ==
  /\ ~setBack /\ clock > 0
  /\ clock' = clock - 1 /\ setBack' = TRUE
  /\ UNCHANGED <<series, frozen, reported>>

TrendInit ==
  /\ clock = 0 /\ frozen = -1 /\ setBack = FALSE
  /\ series = [n \in Plotted |-> <<>>]
  /\ reported = [n \in Plotted |-> [t \in 0..MaxClock |-> Unheard]]

TrendNext ==
  \/ \E n \in Plotted, v \in Levels : RecordTrendSample(n, v)
  \/ \E n \in Plotted : DropNode(n)
  \/ ClearTrend
  \/ SetPaused
  \/ ClockTicks
  \/ ClockSetBack

TrendSpec == TrendInit /\ [][TrendNext]_trendVars

-----------------------------------------------------------------------------
(* The point of a curve at an instant, or the last one before it.           *)
PointAt(points, t) == points[Max({i \in DOMAIN points : points[i].t <= t})]

(* What is drawn is what was, paused or not, trimmed or dropped before: a    *)
(* curve never runs back in time, its samples in the window fit the plot's   *)
(* range, and it reaches the right edge.  From the oldest sample kept on,    *)
(* its last point at or before an instant of the window has the level the    *)
(* node reported then (unless the wall clock was set back), so every change  *)
(* in the window is a point of it.  Between its points a stepped curve is    *)
(* level but for its jumps: it shows just what the node reported.  The       *)
(* others run straight to the next report, through values in between.        *)
CurvesAreTrue ==
  \A n \in Plotted, stepped \in BOOLEAN :
    LET points == PolylineFor(n, stepped)
    IN points # <<>> =>
         /\ \A i \in 2..Len(points) :
              /\ points[i-1].t <= points[i].t
              /\ stepped => points[i-1].t = points[i].t \/ points[i-1].v = points[i].v
         /\ RangeFor.min < RangeFor.max
         /\ \A i \in InWindow(n) : series[n][i].v \in RangeFor.min..RangeFor.max
         /\ ReferenceTime <= Last(points).t
         /\ \A t \in Max({Start, series[n][1].t})..ReferenceTime :
              \/ setBack
              \/ /\ \E i \in DOMAIN points : points[i].t <= t
                 /\ PointAt(points, t).v = reported[n][t]
=============================================================================
