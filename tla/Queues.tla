------------------------------- MODULE Queues -------------------------------
(***************************************************************************)
(* The TAILQs of the bare-metal kernel as sequences.  A structure has one  *)
(* link field per kind of queue, so it is on a queue at most once.         *)
(***************************************************************************)
EXTENDS Integers, Sequences, FiniteSetsExt

\* Nothing is on the queue twice.
Distinct(q) == \A i, j \in DOMAIN q : q[i] = q[j] => i = j

\* The elements of a finite set as a queue.
InSomeOrder(S) == CHOOSE q \in [1 .. Cardinality(S) -> S] : Distinct(q)

\* Where x is on q.
Position(q, x) == CHOOSE i \in DOMAIN q : q[i] = x

\* TAILQ_REMOVE.
Unlink(q, x) ==
  SubSeq(q, 1, Position(q, x) - 1) \o SubSeq(q, Position(q, x) + 1, Len(q))

\* TAILQ_INSERT_BEFORE: x comes to stand at place i.
InsertBefore(q, i, x) == SubSeq(q, 1, i - 1) \o <<x>> \o SubSeq(q, i, Len(q))

\* r is q with elements added at its tail, if any.
GrowsTo(q, r) == Len(q) <= Len(r) /\ SubSeq(r, 1, Len(q)) = q

=============================================================================
