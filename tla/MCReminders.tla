---------------------------- MODULE MCReminders ----------------------------
(* Two reminders of a user who wakes after those of one who never does.      *)
EXTENDS Reminders

MCReminders == 1..3
MCOwnerOf == [r \in MCReminders |-> IF r = 1 THEN "night" ELSE "day"]
=============================================================================
