------------------------------- MODULE Queues -------------------------------
(***************************************************************************)
(* What walks of a linked list do to it, with the list as a sequence: find *)
(* the first element of a kind, take one out, or sort out all of a kind.   *)
(***************************************************************************)
EXTENDS Naturals, Sequences

(* One of its elements is e. *)
Contains(queue, e) == \E i \in 1..Len(queue) : queue[i] = e

(* The index at which a walk stops that looks for one of `wanted', if any. *)
FirstAmong(queue, wanted) ==
    {i \in DOMAIN queue : queue[i] \in wanted /\ \A j \in 1..(i - 1) : queue[j] \notin wanted}

(* Mutant of Removed: the element stays in the queue. *)
NotRemoved(queue, i) == queue

Removed(queue, i) ==
    [j \in 1..(Len(queue) - 1) |-> IF j < i THEN queue[j] ELSE queue[j + 1]]

(* The elements among the first n that are wanted, in their order. *)
Collected(queue, wanted) ==
    LET collected[n \in 0..Len(queue)] ==
            IF n = 0 THEN <<>>
            ELSE IF queue[n] \in wanted THEN Append(collected[n - 1], queue[n])
            ELSE collected[n - 1]
    IN  collected

(* All of them, as a walk from the first to the last collects them. *)
AllAmong(queue, wanted) == Collected(queue, wanted)[Len(queue)]
=============================================================================
