---------------------------- MODULE MCAutomations ----------------------------
(* Constant values for checking Automations with TLC.                      *)
EXTENDS Automations

\* A schedule with two occurrences.
OneSchedule == [early |-> {1, 2}]
=============================================================================
