----------------------------- MODULE CrowdRisk -----------------------------
(* The numbers behind one ghat's crowd level: risk_engine.py, the rounds of *)
(* crowd_broadcast_loop that feed it and decide on CROWD_ALERT and          *)
(* SURGE_ALERT, the list of past results in Redis they read back, and the   *)
(* forecast made from that list.  CrowdControl has the election, the clock  *)
(* of the overrides and the messages on their way; here a round of          *)
(* whichever instance leads is one step that all see at once, and the       *)
(* instances keep scores and counts of their own.                           *)
(* Densities, scores and counts are integers, in thousandths of the ghat's  *)
(* capacity, rounded down.                                                  *)
EXTENDS Integers, Sequences, FiniteSets, Functions

CONSTANTS
    Replica,        \* API instances
    Vision,         \* densities the camera may report, 1000 at the most
    Telecom,        \* and the telecom sensor
    Reported,       \* counts that a sensor's call may leave in memory
    Stale,          \* a sensor with no reading or one that is too old
    InitCount,      \* the count in the data an instance starts with
    FirstLevel,     \* and the level
    Wanted,         \* the levels an operator may set
    MaxHist,        \* GhatState.MAX_HIST, and the entries a round reads
    ForecastHist,   \* the entries a forecast reads
    ListMax,        \* CROWD_HIST_MAXLEN
    SpikeWindow,    \* SurgeDetector.SPIKE_WINDOW
    Horizon,        \* the forecast's horizon, in rounds
    MaxRounds,      \* bound on the entries ever made in the list
    MaxFailures     \* bound on failing Redis calls and restarts

Full == 1000
Levels == {"low", "medium", "high", "critical"}
Warning == {"high", "critical"}

ASSUME ReadingAssumption ==
    Vision \cup Telecom \subseteq 0..Full /\ Stale \notin Vision \cup Telecom
ASSUME StartAssumption == ({InitCount} \cup Reported) \subseteq Nat /\ FirstLevel \in Levels /\ Wanted \subseteq Levels
ASSUME SizeAssumption ==
    /\ {MaxHist, ForecastHist, ListMax, SpikeWindow, Horizon} \subseteq Nat \ {0}
    /\ MaxHist > 2
ASSUME BoundAssumption == MaxRounds \in Nat /\ MaxFailures \in Nat

VARIABLES
    busy,       \* whether the date is one of HIGH_TRAFFIC_DATES
    peak,       \* whether the hour is one of PEAK_HOURS; neither turns meanwhile
    hist,       \* hist:crowd:<ghat_id> in Redis, newest first
    count,      \* ghat["current_count"] of each instance
    prev,       \* _prev_scores of each instance
    window,     \* _surge_detector._histories of each instance
    round,      \* the results of the last round
    shown,      \* the level of the last CROWD_UPDATE
    setBy,      \* ghost: the instance whose round found it, or the operator
    held,       \* the instances where an operator's override is in force
    alerted,    \* ghost: those that sent CROWD_ALERT since they found no warning
    sinceJump,  \* ghost: rounds of each instance since it saw a jump
    now,        \* entries made so far
    failures

riskVars ==
    <<busy, peak, hist, count, prev, window, round, shown, setBy, held, alerted, sinceJump,
      now, failures>>

NoReplica == "nobody"
Operator == "operator"
ASSUME ReplicaAssumption == {NoReplica, Operator} \cap Replica = {}

NoRound == [by |-> NoReplica, density |-> 0, score |-> 0, surge |-> FALSE, sinceJump |-> 0]

Least(x, y) == IF x < y THEN x ELSE y
Clamp(low, high, x) == IF x < low THEN low ELSE Least(x, high)

RiskInit ==
    /\ busy \in BOOLEAN /\ peak \in BOOLEAN
    /\ hist = <<>>
    /\ count = [i \in Replica |-> InitCount]
    /\ prev = [i \in Replica |-> 0]
    /\ window = [i \in Replica |-> <<>>]
    /\ round = NoRound
    /\ shown = FirstLevel /\ setBy = NoReplica
    /\ held = {} /\ alerted = {}
    /\ sinceJump = [i \in Replica |-> SpikeWindow]
    /\ now = 0 /\ failures = 0

----------------------------------------------------------------------------
(* risk_engine.py                                                           *)

\* fuse_density(): what is missing is made up for by what is not.
FuseDensity(vision, telecom, db) ==
    CASE vision # Stale /\ telecom # Stale -> (3 * vision + telecom) \div 4
      [] vision # Stale /\ telecom = Stale -> vision
      [] vision = Stale /\ telecom # Stale -> (2 * telecom + 3 * db) \div 5
      [] OTHER                             -> db

\* The ring buffer of GhatState after a replay of history and a push: what is
\* dropped is the first entry, which is the newest of the list.
Buffer(history, density) ==
    LET h == Append(history, density)
    IN  IF Len(h) > MaxHist THEN Tail(h) ELSE h

\* Mutant: a sum instead of a difference.
TrendOfSum(h) == IF Len(h) < 2 THEN 0 ELSE (h[Len(h)] + h[1]) \div (Len(h) - 1)

\* trend: the mean of the first differences, whose sum telescopes.
Trend(h) == IF Len(h) < 2 THEN 0 ELSE (h[Len(h)] - h[1]) \div (Len(h) - 1)

\* time_multiplier()
Peak(x) == IF peak THEN (11 * x) \div 10 ELSE x

\* compute_risk_score()
RiskScore(density, trend, counted) ==
    LET base == (8 * Least(counted, Full) + 2 * Least(density, Full)) \div 10
    IN  Clamp(0, Full, Peak(base + Clamp(-150, 150, (15 * trend) \div 100)))

Band(score, low, medium, high) ==
    CASE score < low                         -> "low"
      [] score >= low /\ score < medium      -> "medium"
      [] score >= medium /\ score < high     -> "high"
      [] OTHER                               -> "critical"

\* score_to_level()
ScoreToLevel(score) == Band(score, 200, 650, 850)

\* score_to_level_adaptive(): earlier on the days of high traffic.
ScoreToLevelAdaptive(score) ==
    IF busy THEN Band(score, 100, 500, 700) ELSE ScoreToLevel(score)

\* should_alert(): by the fixed thresholds, whatever the date.
ShouldAlert(score, previous) ==
    \/ ScoreToLevel(score) \in Warning /\ ScoreToLevel(previous) \notin Warning
    \/ score - previous >= 150

\* Mutant: the buffer is one reading too long.
PushedLong(w, density) ==
    LET h == Append(w, density) IN IF Len(h) > SpikeWindow + 2 THEN Tail(h) ELSE h

\* SurgeDetector.update(): the readings it keeps, and whether one of their
\* steps is a jump.
Pushed(w, density) ==
    LET h == Append(w, density) IN IF Len(h) > SpikeWindow + 1 THEN Tail(h) ELSE h

Jump(from, to) == to - from >= 200

Surge(w) == \E k \in 2..Len(w) : Jump(w[k - 1], w[k])

----------------------------------------------------------------------------
(* Rounds.                                                                  *)

\* LPUSH and LTRIM of set_crowd_data(), and LRANGE of get_crowd_history().
Stored(entry) == SubSeq(<<entry>> \o hist, 1, Least(Len(hist) + 1, ListMax))
Latest(n) == SubSeq(hist, 1, Least(Len(hist), n))

SinceJump(i, density) ==
    IF window[i] # <<>> /\ Jump(window[i][Len(window[i])], density) THEN 0
    ELSE Least(sinceJump[i] + 1, SpikeWindow)

\* The sensors' readings are any, fresh or stale.
Densities(i) ==
    {FuseDensity(v, t, count[i]) : v \in Vision \cup {Stale}, t \in Telecom \cup {Stale}}

\* _process_one(): evaluate, remember the count and the score, and broadcast.
\* The estimated count is the density times the capacity.
Evaluated(i, density, history) ==
    LET h == Buffer([k \in DOMAIN history |-> history[k].density], density)
        score == RiskScore(density, Trend(h), density)
        w == Pushed(window[i], density)
    IN  /\ count' = [count EXCEPT ![i] = density]
        /\ prev' = [prev EXCEPT ![i] = score]
        /\ window' = [window EXCEPT ![i] = w]
        /\ round' = [by |-> i, density |-> density, score |-> score, surge |-> Surge(w),
                     sinceJump |-> SinceJump(i, density)]
        /\ shown' = ScoreToLevelAdaptive(score) /\ setBy' = i
        /\ alerted' = IF shown' \notin Warning         THEN alerted \ {i}
                      ELSE IF ShouldAlert(score, prev[i]) THEN alerted \cup {i} ELSE alerted
        /\ sinceJump' = [sinceJump EXCEPT ![i] = SinceJump(i, density)]

Entry(density, counted) == [density |-> density, count |-> counted, at |-> now + 1]

Keep(entry) == now < MaxRounds /\ now' = now + 1 /\ hist' = Stored(entry)

Failing == failures < MaxFailures /\ failures' = failures + 1

\* A round of the leader.  Where an override is in force, it only broadcasts the
\* level again.
RiskRound(i) ==
    /\ i \notin held
    /\ \E density \in Densities(i) : Evaluated(i, density, Latest(MaxHist))
    /\ Keep(Entry(round'.density, round'.density))
    /\ UNCHANGED <<busy, peak, held, failures>>

\* Some of its Redis calls fail, or all: a sensor or the list reads as none, or the
\* result is not stored.
FailingRound(i) ==
    /\ i \notin held
    /\ Failing
    /\ \E density \in Densities(i), history \in {Latest(MaxHist), <<>>} :
         Evaluated(i, density, history)
    /\ Keep(Entry(round'.density, round'.density)) \/ UNCHANGED <<hist, now>>
    /\ UNCHANGED <<busy, peak, held>>

\* Mutant: the operator's score counts as the previous one.
OverrideRemembered(i) ==
    /\ Keep(Entry(0, count[i]))
    /\ \E l \in Wanted :
         /\ shown' = l
         /\ prev' = [prev EXCEPT ![i] = CASE l = "low"  -> 200 [] l = "medium"   -> 500
                                          [] l = "high" -> 750 [] l = "critical" -> 950]
    /\ setBy' = Operator /\ held' = held \cup {i}
    /\ UNCHANGED <<busy, peak, count, window, round, alerted, sinceJump, failures>>

\* update_crowd(): the operator's level is broadcast with no CROWD_ALERT, and the
\* record has a count and no density, which the replay reads as 0.  The scores and
\* counts in memory stay.  The record is lost if Redis fails.
Override(i) ==
    /\ \/ Keep(Entry(0, count[i])) /\ UNCHANGED failures
       \/ Failing /\ UNCHANGED <<hist, now>>
    /\ shown' \in Wanted /\ setBy' = Operator
    /\ held' = held \cup {i}
    /\ UNCHANGED <<busy, peak, count, prev, window, round, alerted, sinceJump>>

\* Its five minutes are over, or it is cleared.
OverrideEnds(i) ==
    /\ i \in held /\ held' = held \ {i}
    /\ UNCHANGED <<busy, peak, hist, count, prev, window, round, shown, setBy, alerted, sinceJump,
                   now, failures>>

\* ingest_cctv() and ingest_telecom(): the count is known at once to the instance
\* that took the report, where it ends the override too.
SensorReports(i) ==
    /\ \E reported \in Reported : count' = [count EXCEPT ![i] = reported]
    /\ held' = held \ {i}
    /\ UNCHANGED <<busy, peak, hist, prev, window, round, shown, setBy, alerted, sinceJump,
                   now, failures>>

\* An instance starts again, from the sample data.
StartAgain(i) ==
    /\ Failing
    /\ count' = [count EXCEPT ![i] = InitCount]
    /\ prev' = [prev EXCEPT ![i] = 0]
    /\ window' = [window EXCEPT ![i] = <<>>]
    /\ sinceJump' = [sinceJump EXCEPT ![i] = SpikeWindow]
    /\ held' = held \ {i}
    /\ UNCHANGED <<busy, peak, hist, round, shown, setBy, alerted, now>>

RiskNext ==
    \E i \in Replica :
        \/ RiskRound(i) \/ FailingRound(i)
        \/ Override(i) \/ OverrideEnds(i) \/ SensorReports(i) \/ StartAgain(i)

RiskSpec == RiskInit /\ [][RiskNext]_riskVars

----------------------------------------------------------------------------
(* _forecast_one_ghat()                                                     *)

\* Its points, newest first: a count of 0 reads as none.
Points(history) == SelectSeq(history, LAMBDA e : e.count # 0)

Total(f) == FoldFunction(+, 0, f)

\* Mutant: the line goes through the origin.
ExtrapolateFromZero(p) ==
    LET n == Len(p)
        den == Total([k \in 1..n |-> p[k].at * p[k].at])
        num == Total([k \in 1..n |-> p[k].at * p[k].count])
    IN  Clamp(0, 1200, (num * (p[1].at + Horizon)) \div den)

\* The least squares line through the points, Horizon after the newest, between
\* 0 and 1.2 times the capacity.
Extrapolate(p) ==
    LET n == Len(p)
        t == Total([k \in 1..n |-> p[k].at])
        c == Total([k \in 1..n |-> p[k].count])
        num == n * Total([k \in 1..n |-> p[k].at * p[k].count]) - t * c
        den == n * Total([k \in 1..n |-> p[k].at * p[k].at]) - t * t
    IN  Clamp(0, 1200, (c * den + num * (n * (p[1].at + Horizon) - t)) \div (n * den))

\* With less than three points: a crowd tends to an extreme it is near to.
Drift(current) ==
    CASE current >= 700                   -> Least(1050, (108 * current) \div 100)
      [] current <= 300                   -> (95 * current) \div 100
      [] current > 300 /\ current < 700   -> current

Forecast(i) ==
    LET p == Points(Latest(ForecastHist))
    IN  IF Len(p) >= 3 THEN Extrapolate(p) ELSE Drift(count[i])

----------------------------------------------------------------------------
(* Properties.                                                              *)

\* The types of the variables; every score is between 0 and 1.
RiskTypeOK ==
    /\ busy \in BOOLEAN /\ peak \in BOOLEAN
    /\ \A k \in DOMAIN hist : hist[k].density \in Nat /\ hist[k].count \in Nat
    /\ Len(hist) <= ListMax
    /\ count \in [Replica -> Nat]
    /\ prev \in [Replica -> 0..Full]
    /\ \A i \in Replica : Len(window[i]) <= SpikeWindow + 1
    /\ round.score \in 0..Full
    /\ shown \in Levels /\ setBy \in Replica \cup {NoReplica, Operator}
    /\ held \subseteq Replica /\ alerted \subseteq Replica
    /\ sinceJump \in [Replica -> 0..SpikeWindow]
    /\ now \in 0..MaxRounds /\ failures \in 0..MaxFailures

\* No warning of the engine is silent: when the level that clients see is one that
\* a round found, "critical" or on a normal day "high", the instance of that round
\* has sent a CROWD_ALERT since it last found no warning - whatever an operator set
\* in between, whoever else led, and although the level is found with one set of
\* thresholds, the alert with another and with a score each process keeps itself.
WarningIsAlerted ==
    setBy \in Replica /\ (shown = "critical" \/ (shown = "high" /\ ~ busy)) => setBy \in alerted

\* Types; and SURGE_ALERT is sent in the round that saw the jump and in those after it
\* until SPIKE_WINDOW steps have passed, neither longer nor shorter.
SurgeLastsItsWindow ==
    /\ RiskTypeOK
    /\ round.by # NoReplica => (round.surge <=> round.sinceJump < SpikeWindow)

\* The trend fades: when all results a round reads show the density of now, the
\* score is that density with the uplift of the hour, whoever evaluated them
\* and although the list is replayed newest first.
SteadyCrowdHasNoTrend ==
    /\ round.by # NoReplica
    /\ Len(hist) >= MaxHist
    /\ \A k \in 1..MaxHist : hist[k].density = round.density
    => round.score = Least(Full, Peak(round.density))

\* A forecast from the list follows it: a steady crowd stays, a growing one is
\* not predicted to shrink nor a shrinking one to grow.
ForecastFollowsTrend ==
    LET p == Points(Latest(ForecastHist)) IN
    Len(p) >= 3 =>
        /\ (\A k \in 1..Len(p) - 1 : p[k].count = p[k + 1].count)
              => Extrapolate(p) = p[1].count
        /\ (\A k \in 1..Len(p) - 1 : p[k].count > p[k + 1].count)
              => Extrapolate(p) >= p[1].count
        /\ (\A k \in 1..Len(p) - 1 : p[k].count < p[k + 1].count)
              => Extrapolate(p) <= p[1].count
=============================================================================
