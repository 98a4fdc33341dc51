----------------------------- MODULE LogClassifier -----------------------------
(***************************************************************************)
(* classify_log_line: the severity of a log line, from the service it      *)
(* belongs to, the level it declares and the patterns its text contains.   *)
(*                                                                         *)
(* A line is abstracted to what the classifier tells apart:                *)
(*   form    "text"; "json", an object with a message; "bare", an object   *)
(*           without one, whose text is then the message; "tail", a text   *)
(*           that ends in an object without a message; "wrapped", a text   *)
(*           that ends in an object with one                               *)
(*   level   the level that the object declares, or "none"                 *)
(*   prefix  the level word and colon that the text begins with            *)
(*   marks   the patterns that occur in the text, or in the message of an  *)
(*           object that is the whole line                                 *)
(*   inner   for a wrapped object, those that its message contains         *)
(* Only the severity is modelled, not the title, and a message is taken    *)
(* not to contain an object itself.                                        *)
(***************************************************************************)
EXTENDS Naturals, Sequences

Severity == {"INFO", "WARN", "ERROR", "CRITICAL", "FATAL"}
Alarming == {"ERROR", "CRITICAL", "FATAL"}

\* _normalize_service: the first of these that occurs in the service or in one
\* of its labels.
ServiceOrder == << "postgres", "redis", "sargaco", "seriema", "loki", "celery", "veredas" >>

FirstIn(order, names, otherwise) ==
  LET hits == {i \in 1 .. Len(order) : order[i] \in names} IN
  IF hits = {} THEN otherwise ELSE order[CHOOSE i \in hits : \A j \in hits : i <= j]

NormalizedService(names) == FirstIn(ServiceOrder, names, "other")

\* The patterns of each service, in the order they are tried.
Patterns(service) ==
  CASE service = "postgres" ->
         << <<"authentication failed", "ERROR">>, <<"too many connections", "ERROR">>,
            <<"lock timeout", "ERROR">>, <<"duration over 5 s", "ERROR">>,
            <<"not yet accepting", "CRITICAL">>, <<"could not write to file", "CRITICAL">>,
            <<"invalid page", "FATAL">>, <<"relation mapping", "FATAL">>,
            <<"is shut down", "FATAL">>, <<"panic:", "FATAL">> >>
    [] service = "redis" ->
         << <<"server initialized", "INFO">>, <<"maxmemory", "ERROR">>, <<"latency latest", "ERROR">>,
            <<"aof rewrite failed", "CRITICAL">>, <<"redis is down", "FATAL">>, <<"oom", "FATAL">> >>
    [] service = "celery" ->
         << <<"retry in", "ERROR">>, <<"max retries", "ERROR">>, <<"time limit exceeded", "ERROR">>,
            <<"broker unreachable", "CRITICAL">>, <<"restart loop", "CRITICAL">>,
            <<"no consumer", "CRITICAL">> >>
    [] service = "sargaco" ->
         << <<"s3error", "ERROR">>, <<"slow request", "ERROR">>, <<"disk full", "CRITICAL">>,
            <<"connection refused", "CRITICAL">>, <<"weed server exit", "FATAL">> >>
    [] service = "seriema" ->
         << <<"telegram error", "ERROR">>, <<"dlq replay failure", "ERROR">>,
            <<"three pull failures", "CRITICAL">>, <<"pull failure", "ERROR">>,
            <<"broker unreachable", "CRITICAL">>, <<"heartbeat overdue", "CRITICAL">>,
            <<"all roles down", "FATAL">> >>
    [] service = "loki" -> << <<"batch noise", "INFO">> >>
    [] service = "veredas" ->
         << <<"database refused", "CRITICAL">>, <<"celery refused", "CRITICAL">>,
            <<"pncp timeout", "ERROR">>, <<"parser failed", "ERROR">>,
            <<"worker unregistered", "ERROR">> >>
    [] OTHER -> << >>

\* _default_text_classification: the words it looks for, the gravest first.
Words == << <<"fatal", "FATAL">>, <<"critical", "CRITICAL">>, <<"error", "ERROR">>, <<"warn", "WARN">> >>

\* The severity of the first entry of a table that occurs in a text.
FirstMatch(table, text, otherwise) ==
  LET hits == {i \in 1 .. Len(table) : table[i][1] \in text} IN
  IF hits = {} THEN otherwise ELSE table[CHOOSE i \in hits : \A j \in hits : i <= j][2]

\* _JSON_LEVEL_SEVERITY: the levels that the words below tell apart.  (trace,
\* debug and information are like info, warning is like warn, crit like critical,
\* and panic like fatal.)
LevelSeverity ==
  [info |-> "INFO", warn |-> "WARN", error |-> "ERROR", err |-> "ERROR",
   critical |-> "CRITICAL", alert |-> "CRITICAL", fatal |-> "FATAL", emergency |-> "FATAL"]
Level == DOMAIN LevelSeverity

Prefix == {"debug", "info", "warn", "error", "critical"}

-----------------------------------------------------------------------------
IsWord(mark) == \E i \in 1 .. Len(Words) : Words[i][1] = mark

\* What a text spells for the words: one pattern contains "failed", which is as
\* good as "error".  (The others are searched for before the words, in the same
\* text.)
Spelled(marks) == marks \cup (IF "parser failed" \in marks THEN {"error"} ELSE {})

\* The text that is searched: the prefix belongs to it, and so does the level of
\* an object whose own text it contains.
Text(line) ==
  Spelled(line.marks) \cup {line.prefix}
    \cup (IF line.form \in {"bare", "tail", "wrapped"} THEN {line.level} ELSE {})

\* _parsed_json: the line is an object.
IsObject(line) == line.form \in {"json", "bare"}
\* _extract_embedded_json: it ends in one.
EndsInObject(line) == line.form \in {"tail", "wrapped"}

\* An object that declares no level counts as INFO.
MutantDeclared(line) == IF line.level \in Level THEN LevelSeverity[line.level] ELSE "INFO"

\* _severity_from_json.
Declared(line) == IF line.level \in Level THEN LevelSeverity[line.level] ELSE "none"

\* _classify_veredas: the prefix and the object may end it early.  The patterns
\* are looked for in the object's message, if it has one, and nowhere else; the
\* words in all that follows the prefix.
Veredas(line) ==
  LET message == IF line.form = "wrapped" THEN line.inner ELSE line.marks
      rest == Text([line EXCEPT !.prefix = "none"])
      declared == IF EndsInObject(line) THEN Declared(line) ELSE "none"
      found == FirstMatch(Patterns("veredas"), message, "none") IN
  IF line.prefix = "info" THEN "INFO"
  ELSE IF line.prefix = "warn" THEN "WARN"
  ELSE IF declared \in {"INFO", "WARN"} THEN declared
  ELSE IF found # "none" THEN found
  ELSE IF line.prefix = "critical" THEN "CRITICAL"
  ELSE IF line.prefix = "error" THEN "ERROR"
  ELSE IF declared # "none" THEN declared
  ELSE FirstMatch(Words, rest, "INFO")

\* The classifiers of the services.
ByText(service, line) ==
  IF service = "veredas" THEN Veredas(line)
  ELSE FirstMatch(Patterns(service) \o Words, Text(line), "INFO")

\* An object's level is final, except for seriema, which only looks at its
\* message.
Classify(service, line) ==
  IF IsObject(line) /\ service # "seriema" /\ Declared(line) # "none"
  THEN Declared(line)
  ELSE ByText(service, line)

-----------------------------------------------------------------------------
Declares(line, severities) == line.level \in Level /\ LevelSeverity[line.level] \in severities

\* The reference.  A line raises an alarm if it declares one, begins with one,
\* or contains a pattern or a word that stands for one.
Alarms(service, line) ==
  \/ Declares(line, Alarming)
  \/ line.prefix \in {"error", "critical"}
  \/ \E table \in {Patterns(service), Words} :
       \E i \in 1 .. Len(table) : table[i][2] \in Alarming /\ table[i][1] \in line.marks

\* The only alarm is the level that an object declares ...
OnlyDeclared(service, line) == ~ Alarms(service, [line EXCEPT !.level = "none"])

\* ... or a pattern before an object.
OnlyBefore(service, line) ==
  ~ Alarms(service, [line EXCEPT !.marks = {m \in Spelled(@) : m \in line.inner \/ IsWord(m)}])

\* Why an alarm may not be heard:
Muffled(service, line) ==
  \* a pattern that stands for noise,
  \/ service = "redis" /\ "server initialized" \in line.marks
  \/ service = "loki" /\ "batch noise" \in line.marks
  \* a lower level that the line declares or, for veredas, begins with,
  \/ service = "veredas" /\ line.prefix \in {"info", "warn"}
  \/ service = "veredas" /\ EndsInObject(line) /\ Declares(line, {"INFO", "WARN"})
  \/ service # "seriema" /\ IsObject(line) /\ Declares(line, {"INFO", "WARN"})
  \* a level in an object of seriema itself, or one that is only searched for and is
  \* no word of the table, such as alert, emergency and err,
  \/ /\ OnlyDeclared(service, line)
     /\ \/ service = "seriema" /\ line.form = "json"
        \/ /\ ~ IsWord(line.level)
           /\ IF IsObject(line) THEN service = "seriema" ELSE service # "veredas"
  \* or, for veredas, a pattern that stands before an object with a message.
  \/ service = "veredas" /\ line.form = "wrapped" /\ OnlyBefore(service, line)
==============================================================================
