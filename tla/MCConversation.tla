--------------------------- MODULE MCConversation ---------------------------
(***************************************************************************)
(* Small instances of Conversation.  The bounds are given out at the start *)
(* of a behaviour: to questions that are asked, paused, answered and run   *)
(* out, to one desire that opens a chat which is answered or ignored, to a *)
(* chat that both meet, or to desires that grow while pressure arrives.    *)
(***************************************************************************)
EXTENDS Conversation

MCBudgets ==
    {[asks |-> 2, sends |-> 2, elapses |-> 2, pauses |-> 1,
      pressures |-> 0, ticks |-> 0, faults |-> 2, starts |-> 0],
     [asks |-> 0, sends |-> 1, elapses |-> 1, pauses |-> 0,
      pressures |-> 1, ticks |-> 1, faults |-> 2, starts |-> 2],
     [asks |-> 1, sends |-> 2, elapses |-> 1, pauses |-> 1,
      pressures |-> 1, ticks |-> 1, faults |-> 1, starts |-> 1],
     [asks |-> 0, sends |-> 0, elapses |-> 0, pauses |-> 0,
      pressures |-> 3, ticks |-> 2, faults |-> 2, starts |-> 1]}
=============================================================================
