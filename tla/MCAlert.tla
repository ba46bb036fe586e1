------------------------------ MODULE MCAlert ------------------------------
(***************************************************************************)
(* Scenarios of Alert for TLC: each gives the events, the handlers and     *)
(* passes that run, and how often the environment may act.                 *)
(***************************************************************************)
EXTENDS Alert

Plain == [via |-> "bus", fp |-> "f", key |-> "k", sev |-> 4, eff |-> 4, ack |-> FALSE,
          auth |-> "open", renotify |-> 0, override |-> FALSE]

Slack  == [sev |-> 4, channels |-> {"slack"}, escalates |-> FALSE, quiet |-> FALSE]
Urgent == [sev |-> 5, channels |-> {"slack"}, escalates |-> TRUE, quiet |-> FALSE]
Siem   == [sev |-> 3, channels |-> {"webhook"}, escalates |-> FALSE, quiet |-> TRUE]

Nothing == [faults |-> 0, crashes |-> 0, acks |-> 0, resolves |-> 0, windows |-> 0,
            flips |-> 0, slow |-> 0, overlaps |-> 0]

World == [name |-> "", event |-> <<>>, procs |-> {"bus"}, runs |-> {}, scans |-> {},
          jwks |-> TRUE, policies |-> <<Urgent, Slack, Siem>>,
          channels |-> {"slack", "webhook"}, egress |-> {"slack", "webhook"},
          answers |-> {"ok"}, stored |-> TRUE, steps |-> 1, repeats |-> TRUE,
          left |-> Nothing]

(* two producers report one finding again and again while its window lapses *)
Firing == [World EXCEPT !.name = "Firing",
  !.event = [a |-> Plain, b |-> [Plain EXCEPT !.via = "http"],
             c |-> Plain,
             d |-> [Plain EXCEPT !.via = "http", !.renotify = 3]],
  !.procs = {"bus", "http"},
  !.left = [Nothing EXCEPT !.windows = 1]]

(* two modules report the same exposure, one demands an acknowledgement;   *)
(* somebody acknowledges and resolves meanwhile                            *)
Correlated == [World EXCEPT !.name = "Correlated",
  !.event = [a |-> [Plain EXCEPT !.ack = TRUE, !.sev = 5],
             b |-> [Plain EXCEPT !.via = "http", !.fp = "g", !.ack = TRUE, !.eff = 5, !.sev = 5]],
  !.procs = {"bus", "http"}, !.scans = {"scan1"},
  !.egress = {"slack"},
  !.left = [Nothing EXCEPT !.acks = 1, !.resolves = 1]]

(* the gatekeeper's keys come and go while held alerts are retried         *)
Held == [World EXCEPT !.name = "Held",
  !.event = [a |-> [Plain EXCEPT !.auth = "good"],
             b |-> [Plain EXCEPT !.auth = "bad", !.via = "http"]],
  !.procs = {"bus", "http", "retry1", "retry2"},
  !.jwks = FALSE,
  !.left = [Nothing EXCEPT !.flips = 2]]

(* the database and the process fail under the handlers                    *)
Faulty == [World EXCEPT !.name = "Faulty",
  !.event = [a |-> [Plain EXCEPT !.ack = TRUE, !.sev = 5],
             b |-> [Plain EXCEPT !.via = "http", !.auth = "good", !.sev = 5]],
  !.procs = {"bus", "http", "retry1"}, !.jwks = FALSE,
  !.left = [Nothing EXCEPT !.faults = 1, !.crashes = 1, !.flips = 1]]

(* one alert goes out on two channels; sends fail, are told to slow down,  *)
(* and the process restarts                                                *)
Sending == [World EXCEPT !.name = "Sending",
  !.event = [a |-> Plain], !.runs = {"run1"}, !.answers = {"ok", "fail", "slow"},
  !.left = [Nothing EXCEPT !.slow = 1, !.crashes = 1]]

(* a dispatcher pass outlives its interval and the next one starts         *)
Overlapping == [World EXCEPT !.name = "Overlapping",
  !.event = [a |-> Plain, b |-> [Plain EXCEPT !.auth = "missing"]],
  !.runs = {"run1", "run2"}, !.answers = {"ok", "fail"},
  !.egress = {"slack"},
  !.left = [Nothing EXCEPT !.overlaps = 2]]

(* an unacknowledged incident climbs its chain; scans overlap, the process *)
(* restarts, somebody acknowledges                                         *)
Climbing == [World EXCEPT !.name = "Climbing",
  !.event = [a |-> [Plain EXCEPT !.ack = TRUE, !.sev = 5]],
  !.scans = {"scan1", "scan2"}, !.steps = 2,
  !.left = [Nothing EXCEPT !.overlaps = 1, !.crashes = 1, !.acks = 1]]

(* the bootstrap policy attaches a chain the store does not hold; a notify *)
(* order names its channels while the keys come and go                     *)
Bootstrap == [World EXCEPT !.name = "Bootstrap",
  !.event = [a |-> [Plain EXCEPT !.ack = TRUE, !.sev = 5],
             c |-> [Plain EXCEPT !.auth = "good", !.via = "http", !.override = TRUE],
             d |-> [Plain EXCEPT !.auth = "bad", !.via = "http", !.override = TRUE]],
  !.procs = {"bus", "http"}, !.scans = {"scan1"}, !.stored = FALSE,
  !.left = [Nothing EXCEPT !.flips = 2]]

MCScenario == {Firing, Correlated, Held, Faulty, Sending, Overlapping, Climbing, Bootstrap}
MCEventName == {"a", "b", "c", "d"}
=============================================================================
