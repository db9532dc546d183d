------------------------------- MODULE Queues -------------------------------
(***************************************************************************)
(* The queues of njs_queue.h as sequences of their links, for the modules  *)
(* that use them; module Lists has the pointers that they are made of.     *)
(***************************************************************************)
EXTENDS Naturals, Sequences

(* The links of a queue as a set.  *)
Elems(q) == {q[i] : i \in DOMAIN q}

(* njs_queue_remove() of a link that is in the queue.  *)
Unlink(q, e) ==
    LET at == CHOOSE i \in DOMAIN q : q[i] = e
    IN  [i \in 1 .. Len(q) - 1 |-> IF i < at THEN q[i] ELSE q[i + 1]]

=============================================================================
