---------------------------- MODULE MonitorRules ----------------------------
(***************************************************************************)
(* How the monitor agent turns an event into an action: detection by rule, *)
(* classification by the LLM, anchored by the rule that matched, and the   *)
(* action matrix. The rules are those of context/rules/monitor_rules.yaml; *)
(* an event keeps what the rules ask of it, a metric beyond its threshold  *)
(* or a description.                                                       *)
(***************************************************************************)
EXTENDS Naturals, Sequences, FiniteSetsExt

Severities == {"low", "medium", "high", "critical"}

(* The kinds the rules tell apart from the rest of the taxonomy, and those a
   detection rule gives. *)
Kinds == {"error_burst", "latency_spike", "resource_exhaustion", "backlog_growth",
          "capacity_exhaustion", "data_drift", "unclassified"}

Detection == <<
  [metric |-> "error_rate",        kind |-> "error_burst",         severity |-> "critical"],
  [metric |-> "latency_p95_ms",    kind |-> "latency_spike",       severity |-> "high"],
  [metric |-> "cpu_percent",       kind |-> "resource_exhaustion", severity |-> "medium"],
  [metric |-> "queue_depth",       kind |-> "backlog_growth",      severity |-> "medium"],
  [metric |-> "disk_free_percent", kind |-> "capacity_exhaustion", severity |-> "low"]>>

(* An entry without kinds matches every kind; likewise for severities. *)
ActionMatrix == <<
  [kinds |-> {}, severities |-> {"critical"}, action |-> "require_approval"],
  [kinds |-> {}, severities |-> {"high"},     action |-> "require_approval"],
  [kinds |-> {"data_drift"}, severities |-> {}, action |-> "require_approval"],
  [kinds |-> {}, severities |-> {"medium"},   action |-> "auto_act"],
  [kinds |-> {}, severities |-> {"low"},      action |-> "ignore"]>>

DefaultAction == "require_approval"

Metrics == {Detection[i].metric : i \in DOMAIN Detection}

(* beyond: the value is a number on the wrong side of the threshold. *)
Events == [metric : Metrics \cup {"other", "none"}, beyond : BOOLEAN, described : BOOLEAN]

(* What the LLM may answer; an answer without JSON counts as the defaults. *)
Answers == [kind : Kinds, severity : Severities \cup {"not a severity"}]

NoSignal == [kind |-> "none", severity |-> "none"]

(* detect_signal: the first rule breached, else a described event. *)
DetectSignal(e) ==
  LET breached == {i \in DOMAIN Detection : Detection[i].metric = e.metric /\ e.beyond}
  IN  IF breached # {}
        THEN [kind     |-> Detection[Min(breached)].kind,
              severity |-> Detection[Min(breached)].severity]
      ELSE IF e.metric = "none" /\ e.described
        THEN [kind |-> "unclassified", severity |-> "medium"]
      ELSE NoSignal

(* classify_signal: what a rule has fixed wins over what the LLM says. *)
ClassifySignal(signal, answer) ==
  IF signal.kind # "unclassified" THEN signal
  ELSE IF answer.severity \in Severities THEN answer
  ELSE [answer EXCEPT !.severity = "medium"]

(* decide_action: the first entry of the matrix that matches. *)
DecideAction(c) ==
  LET Matches(entry) ==
        /\ entry.kinds # {} => c.kind \in entry.kinds
        /\ entry.severities # {} => c.severity \in entry.severities
        /\ entry.kinds # {} \/ entry.severities # {}
      matching == {i \in DOMAIN ActionMatrix : Matches(ActionMatrix[i])}
  IN  IF matching = {} THEN DefaultAction ELSE ActionMatrix[Min(matching)].action

(* The action a run of the graph chooses; "unseen" if nothing was detected. *)
ActionFor(e, answer) ==
  IF DetectSignal(e) = NoSignal THEN "unseen"
  ELSE DecideAction(ClassifySignal(DetectSignal(e), answer))
=============================================================================
