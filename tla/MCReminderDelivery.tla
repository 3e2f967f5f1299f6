-------------------------- MODULE MCReminderDelivery --------------------------
(* Small instances of ReminderDelivery for TLC. *)
EXTENDS ReminderDelivery, TLC

EditOnly  == {"edit"}

\* One instance by itself: nobody comes or goes, and no operator steps in.
SweepingNext == DeliveryNext /\ UNCHANGED people
SweepingSpec == DeliveryInit /\ [][SweepingNext]_deliveryVars /\ Fairness
===============================================================================
