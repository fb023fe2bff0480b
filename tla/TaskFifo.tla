------------------------------ MODULE TaskFifo ------------------------------
(***************************************************************************)
(* What EventLoop::addInQueue promises: tasks are served one at a time, in *)
(* the order in which they entered the queue, none twice and none that was *)
(* not submitted.                                                          *)
(***************************************************************************)
EXTENDS Naturals, Sequences

CONSTANT Task

VARIABLES
    submitted,  \* every task that entered the queue, in that order
    served      \* every task the loop started from the queue, in that order

vars == <<submitted, served>>

Init ==
    /\ submitted = <<>>
    /\ served = <<>>

Submit(t) ==
    /\ submitted' = Append(submitted, t)
    /\ UNCHANGED served

Serve ==
    /\ Len(served) < Len(submitted)
    /\ served' = Append(served, submitted[Len(served) + 1])
    /\ UNCHANGED submitted

Next == Serve \/ \E t \in Task : Submit(t)

Spec == Init /\ [][Next]_vars
=============================================================================
