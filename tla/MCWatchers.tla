------------------------------ MODULE MCWatchers ------------------------------
(* Instances of Watchers for TLC. *)
EXTENDS Watchers

Config1(destination, url) == [destination |-> destination, url |-> url, workspace |-> "w1"]

MCRow == { Config1("generic", "web"), Config1("gcppubsub", "web"),
           Config1("gcppubsub", "topic"), Config1("email", "web") }

NoChange == [here |-> {}, first |-> Absent, runs |-> 0, moves |-> 0, touches |-> 0, deletes |-> 0,
             triggers |-> 0, configs |-> 0, outages |-> 0, failures |-> 0]

\* The reporter with a run from its creation, with one in progress, and with
\* two; a run that is about to be applied, with triggers, with and without
\* the reporter; and the notification configs.
MCBudgets == {
  [NoChange EXCEPT !.here = {"reporter", "notifier"}, !.runs = 1, !.moves = 2, !.outages = 1],
  [NoChange EXCEPT !.here = {"reporter"}, !.first = "planning", !.moves = 2,
                   !.touches = 1, !.failures = 1],
  [NoChange EXCEPT !.here = {"reporter"}, !.first = "planning", !.runs = 1, !.moves = 2,
                   !.failures = 1],
  [NoChange EXCEPT !.here = {"triggerer", "reporter"}, !.first = "applying", !.moves = 1,
                   !.touches = 1, !.triggers = 1, !.deletes = 1],
  [NoChange EXCEPT !.here = {"triggerer"}, !.first = "applying", !.moves = 2,
                   !.triggers = 2, !.deletes = 1, !.outages = 1],
  [NoChange EXCEPT !.here = {"notifier"}, !.configs = 3, !.outages = 1] }
=============================================================================
