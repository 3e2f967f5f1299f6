---------------------------- MODULE MCReminderRaces ----------------------------
(***************************************************************************)
(* ReminderDelivery with more than one process at work.  A behaviour       *)
(* follows one scenario, chosen at the start:                              *)
(*   instances   every server instance sweeps, one may die, while the task *)
(*               is edited                                                 *)
(*   operator    one sweep at a time beside an operator's retry, while the *)
(*               people of the task change                                 *)
(***************************************************************************)
EXTENDS ReminderDelivery, FiniteSets, TLC

VARIABLE scenario

EditOnly  == {"edit"}
AllPeople == {"leave", "rejoin", "suspendAccount", "restoreAccount",
              "suspendWorkspace", "deleteWorkspace", "restoreWorkspace"}

\* No start dates here, so work in progress differs from work to do in nothing.
Simple(row) == row.status # "started"

Operating == {w \in Operator : proc[w].pc # "idle"}
Sweeping  == {w \in Worker : proc[w].pc # "idle"}

RacesInit ==
    /\ DeliveryInit
    /\ scenario \in {"instances", "operator"}
    /\ \A t \in Task : Simple(task[t])
    /\ scenario = "operator" => \A t \in Task : task[t].assignee \in {Creator, Null}

InstancesOnly == Operating' = {}

\* The creator is the only one who comes and goes.
OperatorOnly ==
    /\ User \ member' \subseteq {Creator} /\ suspended' \subseteq {Creator}
    /\ Cardinality(Sweeping') <= 1

RacesNext ==
    /\ UNCHANGED scenario
    /\ scenario = "instances" => UNCHANGED people
    /\ scenario = "operator"  => UNCHANGED <<req, crashes>>
    /\ DeliveryNext
    /\ (IF scenario = "instances" THEN InstancesOnly ELSE OperatorOnly)
    /\ \A t \in Task : Simple(task'[t])

RacesSpec == RacesInit /\ [][RacesNext]_<<deliveryVars, scenario>>

Instances == Permutations(Worker)
===============================================================================
