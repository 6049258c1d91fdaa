-------------------------- MODULE MCEventDelivery --------------------------
(***************************************************************************)
(* EventDelivery on a small instance: "um" is the sequence-ordered         *)
(* consumer expression.user_message, "act" a transactional one whose       *)
(* handler appends a follow-up event.  The timestamps of the two user      *)
(* messages contradict their possible admission order.                     *)
(***************************************************************************)
EXTENDS EventDelivery

MCEvents == {"m1", "m2"}
MCConsumers == {"um", "act"}
MCRoute == [e \in MCEvents |-> MCConsumers]
ShortRoute == [e \in MCEvents |-> IF e = "m1" THEN {"um", "act"} ELSE {"um"}]
MCStamp == [e \in MCEvents |-> IF e = "m1" THEN 2 ELSE 1]
MCFollow == [p \in MCEvents \X MCConsumers |-> IF p = <<"m1", "act">> THEN "m2" ELSE "none"]
=============================================================================
