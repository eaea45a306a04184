---------------------------- MODULE MCSessionFleet ----------------------------
(* SessionFleet with model values for TLC. *)
EXTENDS SessionFleet, TLC

CONSTANTS w1, w2, i1, i2, c1, c2, c3

\* Workers and requests are interchangeable; used by the safety runs only.
Symmetry == Permutations(Workers) \cup Permutations(Calls)

Quiet0 == [events |-> 0, fails |-> 0, crashes |-> 0, drains |-> 0, relinks |-> 0,
           pace |-> "timely", commands |-> {}, on |-> Instances]

\* A worker of capacity one and two instances, with a loss and a crash.
Losses == [Quiet0 EXCEPT !.events = 1, !.crashes = 1,
                         !.commands = Commands \ {"settings"}]

\* A relink while the other instance waits for room.
Relinks == [Quiet0 EXCEPT !.commands = {"settings"}]

\* SIGTERM while the runtime adopts and a command relinks or disconnects.
Drains(pace) == [Quiet0 EXCEPT !.fails = 1, !.drains = 1, !.pace = pace,
                               !.commands = {"disconnect", "settings"}, !.on = {i1}]

FleetScenarios == {Losses, Relinks, Drains("timely"), Drains("late")}

FailoverScenarios == {[Quiet0 EXCEPT !.fails = 1, !.crashes = 1,
                                     !.commands = {"connect", "disconnect"}]}

RelinkScenarios == {Relinks}
=============================================================================
