--------------------------- MODULE RuleEvaluation ---------------------------
(***************************************************************************)
(* One rule, evaluated twice: by RuleService.evaluate, which an            *)
(* administrator calls with sample data, and by the simulator engine,      *)
(* which holds the simplified bundle and scans the telemetry of a device.  *)
(* The bundle names neither the metric of the rule nor its operator.       *)
(*                                                                         *)
(* Left out: the fields of a configuration that neither of the two looks   *)
(* at (duration, hysteresis, aggregation, offset and schedule), and the    *)
(* escalation levels, which evaluate answers with one constant.            *)
(***************************************************************************)
EXTENDS Integers

CONSTANTS
  Metric,
  Reading,   \* the values of a metric
  Config,    \* bound: the configurations that rules are given
  Hours      \* bound: the clock

VARIABLES
  config,
  enabled,
  hour,
  bundled,   \* of the rule, what the simulator's bundle says of it
  sample,    \* the telemetry, by metric
  verdict,   \* history: what evaluate has answered for this rule and sample
  scanned,   \* history: the simulator has scanned this sample with this bundle
  raised     \* history: the metrics that it raised an alarm for

evaluation == <<config, enabled, hour, bundled, sample, verdict, scanned, raised>>

Operator == {"GT", "GTE", "LT", "LTE", "EQ", "NEQ", "BETWEEN", "OUTSIDE"}
Method == {"AVAILABILITY", "RESPONSE_TIME", "ERROR_RATE", "THROUGHPUT", "CUSTOM"}

\* An optional number is a set of at most one.
Optional == {{}} \cup {{n} : n \in Int}

AlarmThresholdConfig ==
  [type : {"ALARM_THRESHOLD"}, metric : Metric, operator : Operator, value : Int, high : Optional]

\* warning: in percent of the target, none is 0.
SLAConfig == [type : {"SLA"}, metric : Metric, method : Method, target : Int, warning : 0 .. 100]

\* Of a window that comes once, end; the ones that recur, or have no end, have none here.
MaintenanceWindowConfig == [type : {"MAINTENANCE_WINDOW"}, start : Int, end : Optional]

EscalationConfig == [type : {"ESCALATION"}]

AnyConfig == AlarmThresholdConfig \cup SLAConfig \cup MaintenanceWindowConfig \cup EscalationConfig

SimpleRule == [value : Int, high : Optional]

\* sampleData need not have the metric of the rule.
Sample == UNION {[ms -> Reading] : ms \in SUBSET Metric}

EvaluationTypeOK ==
  /\ config \in Config
  /\ enabled \in BOOLEAN
  /\ hour \in 0 .. Hours
  /\ \A b \in bundled : b.value \in Int /\ \A h \in b.high : h \in Int
  /\ DOMAIN sample \subseteq Metric /\ \A x \in DOMAIN sample : sample[x] \in Reading
  /\ verdict \in {"none", "quiet", "warning", "triggered"}
  /\ scanned \in BOOLEAN
  /\ raised \subseteq DOMAIN sample

EvaluationInit ==
  /\ config \in Config
  /\ enabled = TRUE
  /\ hour = 0
  /\ bundled = {}
  /\ sample \in Sample
  /\ verdict = "none"
  /\ scanned = FALSE
  /\ raised = {}

-----------------------------------------------------------------------------
\* RuleService

\* evaluateAlarmRule: how a reading stands to the threshold.
Triggered(c, x) ==
  CASE c.operator = "GT"      -> x > c.value
    [] c.operator = "GTE"     -> x >= c.value
    [] c.operator = "LT"      -> x < c.value
    [] c.operator = "LTE"     -> x <= c.value
    [] c.operator = "EQ"      -> x = c.value
    [] c.operator = "NEQ"     -> x # c.value
    [] c.operator = "BETWEEN" -> \E h \in c.high : x >= c.value /\ x <= h
    [] c.operator = "OUTSIDE" -> \E h \in c.high : x < c.value \/ x > h

\* evaluateSLARule: of these two more is better.
HigherIsBetter(c) == c.method \in {"AVAILABILITY", "THROUGHPUT"}

Breached(c, x) == IF HigherIsBetter(c) THEN x < c.target ELSE x > c.target

\* Within warning percent of the target.
NearTarget(c, x) ==
  LET margin == c.target * c.warning
  IN /\ c.warning # 0
     /\ IF HigherIsBetter(c) THEN 100 * x < 100 * c.target + margin ELSE 100 * x > 100 * c.target - margin

Graded(c, x) == IF Breached(c, x) THEN "triggered" ELSE IF NearTarget(c, x) THEN "warning" ELSE "quiet"

\* evaluateMaintenanceRule: a window without an end is always open.
InWindow(c, now) == \A e \in c.end : c.start <= now /\ now <= e

\* A rule that is disabled is quiet, and so is one whose metric the sample lacks.
Evaluation(c, on, s, now) ==
  IF ~on THEN "quiet"
  ELSE CASE c.type = "ALARM_THRESHOLD"    -> IF c.metric \in DOMAIN s /\ Triggered(c, s[c.metric])
                                             THEN "triggered" ELSE "quiet"
         [] c.type = "SLA"                -> IF c.metric \in DOMAIN s THEN Graded(c, s[c.metric]) ELSE "quiet"
         [] c.type = "MAINTENANCE_WINDOW" -> IF InWindow(c, now) THEN "triggered" ELSE "quiet"
         [] c.type = "ESCALATION"         -> "quiet"

Evaluate ==
  /\ verdict' = Evaluation(config, enabled, sample, hour)
  /\ UNCHANGED <<config, enabled, hour, bundled, sample, scanned, raised>>

\* The type of a rule never changes.
UpdateRule(c) ==
  /\ c.type = config.type
  /\ config' = c
  /\ verdict' = "none"
  /\ UNCHANGED <<enabled, hour, bundled, sample, scanned, raised>>

ToggleRule ==
  /\ enabled' = ~enabled
  /\ verdict' = "none"
  /\ UNCHANGED <<config, hour, bundled, sample, scanned, raised>>

-----------------------------------------------------------------------------
\* The simulator

\* buildSimplifiedBundle: the alarm rules that are enabled.
Simplified(c, on) ==
  IF c.type = "ALARM_THRESHOLD" /\ on THEN {[value |-> c.value, high |-> c.high]} ELSE {}

FetchBundle ==
  /\ bundled' = Simplified(config, enabled)
  /\ scanned' = FALSE /\ raised' = {}
  /\ UNCHANGED <<config, enabled, hour, sample, verdict>>

\* Outside the range, if there is one, and above the value if there is none.
CheckThreshold(b, x) ==
  IF b.high = {} THEN x > b.value ELSE \E h \in b.high : x < b.value \/ x > h

Exceeding(bs, s) == {x \in DOMAIN s : \E b \in bs : CheckThreshold(b, s[x])}

\* evaluateRule: every metric is held against the rule, and the first that exceeds
\* it raises the alarm.
ScanDevice ==
  /\ scanned' = TRUE
  /\ \/ Exceeding(bundled, sample) = {} /\ raised' = {}
     \/ \E x \in Exceeding(bundled, sample) : raised' = {x}
  /\ UNCHANGED <<config, enabled, hour, bundled, sample, verdict>>

-----------------------------------------------------------------------------
GenerateTelemetry(s) ==
  /\ sample' = s
  /\ verdict' = "none" /\ scanned' = FALSE /\ raised' = {}
  /\ UNCHANGED <<config, enabled, hour, bundled>>

Tick ==
  /\ hour < Hours
  /\ hour' = hour + 1
  /\ verdict' = "none"
  /\ UNCHANGED <<config, enabled, bundled, sample, scanned, raised>>

EvaluationNext ==
  \/ Evaluate \/ ToggleRule \/ FetchBundle \/ ScanDevice \/ Tick
  \/ \E c \in Config : UpdateRule(c)
  \/ \E s \in Sample : GenerateTelemetry(s)

EvaluationSpec == EvaluationInit /\ [][EvaluationNext]_evaluation

-----------------------------------------------------------------------------
\* Correctness

Alarm(c) == c.type = "ALARM_THRESHOLD"

\* What the bundle, which does not name the operator, still tells of a rule.
Told(c) == Alarm(c) /\ (IF c.high = {} THEN c.operator = "GT" ELSE c.operator = "OUTSIDE")

\* Both have looked at one sample, the simulator with the bundle of the rule as it is.
BothJudged == verdict # "none" /\ scanned /\ bundled = Simplified(config, enabled)

\* The two implementations agree on rules above a value and outside a range: what
\* evaluate triggers the simulator raises, and it raises nothing for the metric of
\* the rule that evaluate does not trigger.
EvaluatorsAgree ==
  BothJudged /\ Told(config) =>
    /\ verdict = "triggered" => raised # {}
    /\ raised = {config.metric} => verdict = "triggered"

Opposite(o) ==
  CASE o = "GT" -> "LTE" [] o = "LTE" -> "GT" [] o = "LT" -> "GTE" [] o = "GTE" -> "LT"
    [] o = "EQ" -> "NEQ" [] o = "NEQ" -> "EQ" [] o = "BETWEEN" -> "OUTSIDE" [] o = "OUTSIDE" -> "BETWEEN"

\* Every reading triggers a rule or the rule with the opposite operator, and never
\* both, if the range has its upper end.
OppositesExclude ==
  Alarm(config) /\ (config.operator \in {"BETWEEN", "OUTSIDE"} => config.high # {}) =>
    \A x \in Reading :
      Triggered(config, x) <=> ~Triggered([config EXCEPT !.operator = Opposite(config.operator)], x)

Grade(g) == CASE g = "triggered" -> 0 [] g = "warning" -> 1 [] g = "quiet" -> 2

\* Of two readings, a service level is graded no worse for the better one.
GradesOrdered ==
  config.type = "SLA" =>
    \A x, y \in Reading :
      (IF HigherIsBetter(config) THEN x <= y ELSE x >= y) => Grade(Graded(config, x)) <= Grade(Graded(config, y))

\* Refuted: the simulator raises an alarm for the metric of a rule only where
\* evaluate triggers.  The operator is lost in the bundle.
SimulatorFollowsRule == BothJudged /\ raised # {} /\ raised = {config.metric} => verdict = "triggered"

\* Refuted: an alarm is raised for the metric of its rule.
RaisedForItsMetric == bundled = Simplified(config, enabled) /\ raised # {} => raised = {config.metric}
=============================================================================
