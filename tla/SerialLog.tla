----------------------------- MODULE SerialLog -----------------------------
(***************************************************************************)
(* What clusterwide compare-and-swap promises to the rest of picodata: one *)
(* history of operations that only ever grows, in which no operation       *)
(* follows a conflicting one its requester had not seen.                   *)
(***************************************************************************)
EXTENDS Ops

VARIABLE history

Init == Serialised(history)

Grow ==
    /\ history # history' /\ IsPrefix(history, history')
    /\ Serialised(history')

Spec == Init /\ [][Grow]_history
=============================================================================
