------------------------- MODULE MCActivityLifecycle -------------------------
(***************************************************************************)
(* Small instances of ActivityLifecycle: one activity for a desire, which  *)
(* can be resumed (reading) or not (rest), and one for an assigned task.   *)
(***************************************************************************)
EXTENDS ActivityLifecycle, TLC

CONSTANTS reading, rest, work, wish, errand

MCSource == [a \in Activities |-> IF a = work THEN errand ELSE wish]

CallerSymmetry == Permutations(Callers)
=============================================================================
