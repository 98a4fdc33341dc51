------------------------------- MODULE Matching -------------------------------
(***************************************************************************)
(* The way of a log line to its rule: the classifier gives it a severity,  *)
(* ingest_event drops it if that is INFO, and the engine looks for the     *)
(* first active rule that its event matches.  The author of the rules may  *)
(* have tried each of them in the simulation.                              *)
(***************************************************************************)
EXTENDS LogClassifier, RuleEngine

CONSTANTS
  ServiceName,   \* names that may occur in the service and the labels of a line
  MaxNames,      \* bound: names of one line
  MaxMarks,      \* bound: patterns in a line
  RuleList       \* lists of conditions, in the order of priority and name

MatchingAssumption == \A list \in RuleList : list \in Seq({list[i] : i \in DOMAIN list})

VARIABLES
  stage,         \* "pulled", "named", "read", "classified", "raised", "dropped" or
                 \* "matched"
  names,         \* what occurs in the service and the labels of a line
  service, line, \* the normalized service, and the line
  severity,
  event,         \* the event of the line
  rules, rule    \* the active rules, and the place of the matched one, 0 for none

matchingVars == <<stage, names, service, line, severity, event, rules, rule>>

\* The patterns that the classifier of a service looks for, and the words.
MarksOf(of) ==
  {Patterns(of)[i][1] : i \in 1 .. Len(Patterns(of))} \cup {Words[i][1] : i \in 1 .. Len(Words)}

\* Only veredas looks into an object that does not begin the line.
LogLine(of) ==
  UNION {[form : {form},
          level : IF form = "text" THEN {"none"} ELSE Level \cup {"none"},
          prefix : IF form = "bare" THEN {"none"} ELSE Prefix \cup {"none"},
          marks : {marks},
          inner : IF form = "wrapped" THEN SUBSET marks ELSE {{}}] :
    form \in {"text", "json", "bare", "tail"} \cup (IF of = "veredas" THEN {"wrapped"} ELSE {}),
    marks \in {S \in SUBSET MarksOf(of) : Cardinality(S) <= MaxMarks}}

EmptyLine == [form |-> "text", level |-> "none", prefix |-> "none", marks |-> {}, inner |-> {}]

MatchingTypeOK ==
  /\ stage \in {"pulled", "named", "read", "classified", "raised", "dropped", "matched"}
  /\ names \subseteq ServiceName
  /\ DOMAIN line = DOMAIN EmptyLine
  /\ severity \in Severity \cup {"none"}
  /\ stage \in {"raised", "matched"} => severity # "INFO" /\ event # << >>
  /\ rule \in 0 .. Len(rules)

MatchingInit ==
  /\ stage = "pulled"
  /\ names \in {S \in SUBSET ServiceName : Cardinality(S) <= MaxNames}
  /\ service = "other" /\ line = EmptyLine
  /\ severity = "none"
  /\ event = << >> /\ rules = << >> /\ rule = 0

-----------------------------------------------------------------------------
\* classify_log_line finds out whose line it is, ...
Normalize ==
  /\ stage = "pulled"
  /\ service' = NormalizedService(names)
  /\ names' = {}
  /\ stage' = "named"
  /\ UNCHANGED <<line, severity, event, rules, rule>>

\* ... looks for an object in it, ...
ReadLine ==
  /\ stage = "named"
  /\ line' \in LogLine(service)
  /\ stage' = "read"
  /\ UNCHANGED <<names, service, severity, event, rules, rule>>

\* ... and how grave it is.
ClassifyLine ==
  /\ stage = "read"
  /\ severity' = Classify(service, line)
  /\ stage' = "classified"
  /\ UNCHANGED <<names, service, line, event, rules, rule>>

\* ingest_event answers "ignored"; nothing of the line is stored.
DropInfo ==
  /\ stage = "classified"
  /\ severity = "INFO"
  /\ stage' = "dropped"
  /\ line' = EmptyLine
  /\ UNCHANGED <<names, service, severity, event, rules, rule>>

\* The event of a line has the service of its labels, which need not be the one
\* that the classifier went by, and no schedule; a rule may ask for a field that no
\* event has.
RaiseEvent(label) ==
  /\ stage = "classified"
  /\ severity # "INFO"
  /\ event' = [source |-> "oasis-radar", service |-> label, severity |-> severity,
               schedule_at |-> Null, team |-> Absent]
  /\ stage' = "raised"
  /\ service' = "other" /\ line' = EmptyLine
  /\ UNCHANGED <<names, severity, rules, rule>>

\* evaluate_rules runs over the rules that are active at that moment.
MatchRules ==
  /\ stage = "raised"
  /\ rules' \in RuleList
  /\ rule' = Evaluate(rules', event)
  /\ stage' = "matched"
  /\ UNCHANGED <<names, service, line, severity, event>>

MatchingNext ==
  \/ Normalize \/ ReadLine \/ ClassifyLine \/ DropInfo \/ MatchRules
  \/ \E label \in ServiceName \cup {"oasis-radar"} : RaiseEvent(label)

(***************************************************************************)
(* Properties                                                              *)
(***************************************************************************)
\* A line that raises an alarm is not taken for information or a warning,
\* except for the reasons that Muffled names: none of them is the order of the
\* patterns, a missing level, or a service that is not known.
AlarmIsHeard ==
  stage = "classified" /\ Alarms(service, line) /\ ~ Muffled(service, line) =>
    severity \in Alarming

\* The simulation of a rule promises no more than the engine gives: an event for
\* which it matches goes to that rule or to one before it.  Among rules without
\* patterns it predicts the engine: the event gets the first it matches for.
SimulationPredicts ==
  stage = "matched" =>
    LET plain == \A i \in 1 .. Len(rules) : \A entry \in rules[i] : ~ entry.regex IN
    /\ \A i \in 1 .. Len(rules) : Simulate(rules[i], event) => rule \in 1 .. i
    /\ plain /\ rule > 0 => Simulate(rules[rule], event)
==============================================================================
