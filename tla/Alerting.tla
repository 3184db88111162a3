------------------------------ MODULE Alerting ------------------------------
(***************************************************************************)
(* AlertManager and the gauge it reads from MetricsCollector.              *)
(*                                                                         *)
(* Two of the three rules of the server watch the number of active         *)
(* connections, the metric modelled; counters, series and histograms are   *)
(* left out, as no rule reads them.  An alert is listed under an id of its *)
(* own, alert-<rule>-<time>, but kept under the id of its rule.  Time is   *)
(* the number of ticks since a rule fired, up to its cooldown.             *)
(***************************************************************************)
EXTENDS Integers, Sequences, SequencesExt

CONSTANTS
  Rules,        \* the rules in the order they were added: [condition, threshold, cooldown]
  Values,       \* the values of the metric
  MaxHistory    \* maxHistory

ASSUME HistoryAssumption == MaxHistory \in Nat
ASSUME RulesAssumption ==
  Rules \in Seq([condition : {"gt", "lt", "eq", "gte", "lte"}, threshold : Int, cooldown : Nat])

VARIABLES
  value,      \* what the collector would read now
  gauge,      \* what it read last
  alerts,     \* by rule: "none", or the status in activeAlerts
  since,      \* ticks since lastFired
  history     \* alertHistory: [rule, status]

alertVars == <<value, gauge, alerts, since, history>>

EvaluateCondition(v, condition, threshold) ==
  CASE condition = "gt"  -> v > threshold
    [] condition = "lt"  -> v < threshold
    [] condition = "eq"  -> v = threshold
    [] condition = "gte" -> v >= threshold
    [] condition = "lte" -> v <= threshold
Triggered(i, v) == EvaluateCondition(v, Rules[i].condition, Rules[i].threshold)

AlertInit ==
  /\ value = 0 /\ gauge = 0
  /\ alerts = [i \in DOMAIN Rules |-> "none"]
  /\ since = [i \in DOMAIN Rules |-> Rules[i].cooldown]
  /\ history = <<>>

Changes ==
  /\ value' \in Values
  /\ UNCHANGED <<gauge, alerts, since, history>>

(* Faulty: a value that is falsy is not stored. *)
CollectTruthy ==
  /\ gauge' = IF value = 0 THEN gauge ELSE value
  /\ UNCHANGED <<value, alerts, since, history>>

(* The interval timer of MetricsCollector. *)
Collect ==
  /\ gauge' = value
  /\ UNCHANGED <<value, alerts, since, history>>

(* Faulty: no look at activeAlerts before another alert is made. *)
FiresAgain(i) == Triggered(i, gauge) /\ since[i] = Rules[i].cooldown

Fires(i) == Triggered(i, gauge) /\ since[i] = Rules[i].cooldown /\ alerts[i] = "none"
Resolves(i) == ~Triggered(i, gauge) /\ alerts[i] = "active"

(* A finite set of numbers as the sequence of its elements, in order. *)
InOrder(S) ==
  [k \in 1 .. Cardinality(S) |-> CHOOSE i \in S : Cardinality({j \in S : j <= i}) = k]

(* The entries one run of the loop adds, in the order of the rules. *)
Changed == {i \in DOMAIN Rules : Fires(i) \/ Resolves(i)}
NewEntry(i) == [rule |-> i, status |-> IF Fires(i) THEN "active" ELSE "resolved"]
NewEntries(changed) ==
  LET order == InOrder(changed) IN [k \in DOMAIN order |-> NewEntry(order[k])]

AddToHistory(events) ==
  LET all == history \o events
  IN  IF Len(all) <= MaxHistory THEN all ELSE SubSeq(all, Len(all) - MaxHistory + 1, Len(all))

(* evaluateRules, from the interval timer of AlertManager.  A run of the   *)
(* loop that finds no rule changed leaves everything as it is.             *)
EvaluateRules ==
  /\ Changed # {}
  /\ alerts' = [i \in DOMAIN Rules |->
                  IF Fires(i) THEN "active" ELSE IF Resolves(i) THEN "none" ELSE alerts[i]]
  /\ since' = [i \in DOMAIN Rules |-> IF Fires(i) THEN 0 ELSE since[i]]
  /\ \E changed \in {Changed} : history' = AddToHistory(NewEntries(changed))
  /\ UNCHANGED <<value, gauge>>

(* The ids a client can name: that of a rule, and the one an alert shows. *)
AlertIds == {"rule", "alert"} \X DOMAIN Rules

(* acknowledgeAlert looks for the id among the keys of activeAlerts. *)
AcknowledgeAlert(id) ==
  /\ alerts' = IF id[1] = "rule" /\ alerts[id[2]] # "none"
               THEN [alerts EXCEPT ![id[2]] = "acknowledged"] ELSE alerts
  /\ UNCHANGED <<value, gauge, since, history>>

AlertTick ==
  /\ since' = [i \in DOMAIN Rules |-> IF since[i] < Rules[i].cooldown THEN since[i] + 1 ELSE since[i]]
  /\ UNCHANGED <<value, gauge, alerts, history>>
-----------------------------------------------------------------------------
(* The next entry of the same rule after place i of a list is at place j,  *)
(* and none comes after place j.                                           *)
NextOfRule(h, i, j) ==
  h[i].rule = h[j].rule /\ \A l \in i + 1 .. j - 1 : h[l].rule # h[j].rule
LastOfRule(h, j) == \A l \in j + 1 .. Len(h) : h[l].rule # h[j].rule

(* What alertHistory tells of a rule is consistent: it fires and resolves  *)
(* in turn, and the last entry agrees with activeAlerts, as far back as    *)
(* the bounded history shared by all the rules reaches.                    *)
HistoryAlternates ==
  \A j \in DOMAIN history :
    /\ \A i \in 1 .. j - 1 :
         NextOfRule(history, i, j) => history[i].status # history[j].status
    /\ LastOfRule(history, j) =>
         (history[j].status = "resolved" <=> alerts[history[j].rule] = "none")

(* A condition that lasts is alerted at last, and an alert nobody has      *)
(* acknowledged is resolved once its condition is gone for good, whatever  *)
(* the cooldown, the age of the gauge and the order of the timers.  (An    *)
(* acknowledged alert stays for ever: evaluateRules resolves active ones   *)
(* only.)                                                                  *)
AlertsFollow ==
  \A i \in DOMAIN Rules :
    /\ <>[]Triggered(i, value) => <>[](alerts[i] # "none")
    /\ <>[]~Triggered(i, value) => <>[](alerts[i] # "active")
=============================================================================
