-------------------------------- MODULE Tasks --------------------------------
(***************************************************************************)
(* What Looper::post (src/core/engine/src/Looper.h, lines 42-47) promises: *)
(* the tasks posted run on the event loop, one at a time, each of them     *)
(* once, in the order in which they were posted.                           *)
(***************************************************************************)
EXTENDS Sequences

CONSTANT Task

VARIABLES due,      \* the tasks posted and not yet run
          latest    \* the task run last, as a sequence of at most one

Init == due = <<>> /\ latest = <<>>

Post(t) == due' = Append(due, t) /\ UNCHANGED latest

Run ==
    /\ due # <<>>
    /\ latest' = <<Head(due)>>
    /\ due' = Tail(due)

Next == Run \/ \E t \in Task : Post(t)

Spec == Init /\ [][Next]_<<due, latest>>
==============================================================================
