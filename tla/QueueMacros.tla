---------------------------- MODULE QueueMacros ----------------------------
(***************************************************************************)
(* The pointers behind the queues: the macros of bmk-core/queue.h.  A node *)
(* is a queue's head or an element; the address of its forward pointer is  *)
(* the node itself.  q.next[n] is that pointer (the first element, for a   *)
(* head), q.prev[e] the back pointer, q.last[h] the pointer to the last    *)
(* forward pointer.  The other modules use the sequences that these        *)
(* structures stand for; content keeps them beside the pointers.           *)
(***************************************************************************)
EXTENDS Integers, SequencesExt

CONSTANTS Elem, Head1, Head2, NULL

QHead == {Head1, Head2}
Node == QHead \cup Elem
Kinds == {"SLIST", "LIST", "SIMPLEQ", "TAILQ", "STAILQ"}

VARIABLES kind, q, content
qvars == <<kind, q, content>>

-----------------------------------------------------------------------------
(* Reading                                                                 *)

\* The nodes from n on: SLIST_FOREACH, LIST_FOREACH, ...
RECURSIVE Forward(_, _)
Forward(p, n) ==
  IF p.next[n] = NULL THEN <<>> ELSE <<p.next[n]>> \o Forward(p, p.next[n])

\* The loop of SLIST_REMOVE and its like: the node in front of e.
RECURSIVE curelm(_, _, _)
curelm(p, n, e) == IF p.next[n] = e THEN n ELSE curelm(p, p.next[n], e)

\* A node looked at as a struct headname: its second pointer.
tqh_last(p, n) == IF n \in QHead THEN p.last[n] ELSE p.prev[n]

TAILQ_LAST(p, h) == p.next[tqh_last(p, p.last[h])]
TAILQ_PREV(p, e) == p.next[tqh_last(p, p.prev[e])]

RECURSIVE Backward(_, _)
Backward(p, e) == IF e = NULL THEN <<>> ELSE <<e>> \o Backward(p, TAILQ_PREV(p, e))

TAILQ_FOREACH_REVERSE(p, h) == Backward(p, TAILQ_LAST(p, h))

\* sqh_last less the offset of the link is the element itself.
SIMPLEQ_LAST(p, h) == IF p.next[h] = NULL THEN NULL ELSE p.last[h]
STAILQ_LAST(p, h) == SIMPLEQ_LAST(p, h)

-----------------------------------------------------------------------------
(* Writing.  A head's first pointer and an element's forward pointer are   *)
(* written alike, so the head macros are the others applied to the head.   *)

SLIST_INSERT_AFTER(p, n, e) == [p EXCEPT !.next = [@ EXCEPT ![e] = p.next[n], ![n] = e]]
SLIST_INSERT_HEAD(p, h, e) == SLIST_INSERT_AFTER(p, h, e)
SLIST_REMOVE_AFTER(p, n) == [p EXCEPT !.next[n] = p.next[p.next[n]]]
SLIST_REMOVE_HEAD(p, h) == SLIST_REMOVE_AFTER(p, h)
SLIST_REMOVE(p, h, e) == SLIST_REMOVE_AFTER(p, curelm(p, h, e))

\* The back pointer of an element, if it is one.
Back(prev, e, n) == IF e = NULL THEN prev ELSE [prev EXCEPT ![e] = n]

LIST_INSERT_AFTER(p, n, e) ==
  [SLIST_INSERT_AFTER(p, n, e) EXCEPT !.prev = [Back(@, p.next[n], e) EXCEPT ![e] = n]]
LIST_INSERT_HEAD(p, h, e) == LIST_INSERT_AFTER(p, h, e)
LIST_INSERT_BEFORE(p, l, e) ==
  [p EXCEPT !.next = [@ EXCEPT ![e] = l, ![p.prev[l]] = e],
            !.prev = [@ EXCEPT ![e] = p.prev[l], ![l] = e]]
LIST_REMOVE(p, e) ==
  [p EXCEPT !.next[p.prev[e]] = p.next[e], !.prev = Back(@, p.next[e], p.prev[e])]
LIST_REPLACE(p, e, e2) ==
  [p EXCEPT !.next = [@ EXCEPT ![e2] = p.next[e], ![p.prev[e]] = e2],
            !.prev = [Back(@, p.next[e], e2) EXCEPT ![e2] = p.prev[e]]]

\* The last pointer of h after its structure p: n, if n is the end now.
EndAt(p, h, n) == IF p.next[n] = NULL THEN [p EXCEPT !.last[h] = n] ELSE p

SIMPLEQ_INIT(p, h) == [p EXCEPT !.next[h] = NULL, !.last[h] = h]
SIMPLEQ_INSERT_AFTER(p, h, n, e) == EndAt(SLIST_INSERT_AFTER(p, n, e), h, e)
SIMPLEQ_INSERT_HEAD(p, h, e) == SIMPLEQ_INSERT_AFTER(p, h, h, e)
SIMPLEQ_INSERT_TAIL(p, h, e) ==
  [p EXCEPT !.next = [@ EXCEPT ![e] = NULL, ![p.last[h]] = e], !.last[h] = e]
SIMPLEQ_REMOVE_AFTER(p, h, n) == EndAt(SLIST_REMOVE_AFTER(p, n), h, n)
SIMPLEQ_REMOVE_HEAD(p, h) == SIMPLEQ_REMOVE_AFTER(p, h, h)
SIMPLEQ_REMOVE(p, h, e) == SIMPLEQ_REMOVE_AFTER(p, h, curelm(p, h, e))
SIMPLEQ_CONCAT(p, h1, h2) ==
  IF p.next[h2] = NULL THEN p
  ELSE SIMPLEQ_INIT([p EXCEPT !.next[p.last[h1]] = p.next[h2], !.last[h1] = p.last[h2]], h2)

STAILQ_INIT(p, h) == SIMPLEQ_INIT(p, h)
STAILQ_INSERT_AFTER(p, h, n, e) == SIMPLEQ_INSERT_AFTER(p, h, n, e)
STAILQ_INSERT_HEAD(p, h, e) == SIMPLEQ_INSERT_HEAD(p, h, e)
STAILQ_INSERT_TAIL(p, h, e) == SIMPLEQ_INSERT_TAIL(p, h, e)
STAILQ_REMOVE_HEAD(p, h) == SIMPLEQ_REMOVE_HEAD(p, h)
STAILQ_REMOVE(p, h, e) == SIMPLEQ_REMOVE(p, h, e)
STAILQ_CONCAT(p, h1, h2) == SIMPLEQ_CONCAT(p, h1, h2)

\* Variant: the end of the queue is not moved back.
TAILQ_REMOVE_KeepsLast(p, h, e) == LIST_REMOVE(p, e)

TAILQ_INIT(p, h) == SIMPLEQ_INIT(p, h)
TAILQ_INSERT_AFTER(p, h, n, e) == EndAt(LIST_INSERT_AFTER(p, n, e), h, e)
TAILQ_INSERT_HEAD(p, h, e) == TAILQ_INSERT_AFTER(p, h, h, e)
TAILQ_INSERT_TAIL(p, h, e) == [SIMPLEQ_INSERT_TAIL(p, h, e) EXCEPT !.prev[e] = p.last[h]]
TAILQ_INSERT_BEFORE(p, l, e) == LIST_INSERT_BEFORE(p, l, e)
TAILQ_REMOVE(p, h, e) == EndAt(LIST_REMOVE(p, e), h, p.prev[e])
TAILQ_REPLACE(p, h, e, e2) == EndAt(LIST_REPLACE(p, e, e2), h, e2)
TAILQ_CONCAT(p, h1, h2) ==
  IF p.next[h2] = NULL THEN p
  ELSE [SIMPLEQ_CONCAT(p, h1, h2) EXCEPT !.prev[p.next[h2]] = p.last[h1]]

-----------------------------------------------------------------------------
(* Programs use the macros of one kind of queue on it, on elements that    *)
(* are on no queue (to insert) or on this one (to remove).                 *)

InsertAfter(h, n, e) ==
  CASE kind = "SLIST" -> SLIST_INSERT_AFTER(q, n, e)
    [] kind = "LIST" -> LIST_INSERT_AFTER(q, n, e)
    [] kind = "SIMPLEQ" -> SIMPLEQ_INSERT_AFTER(q, h, n, e)
    [] kind = "TAILQ" -> TAILQ_INSERT_AFTER(q, h, n, e)
    [] kind = "STAILQ" -> STAILQ_INSERT_AFTER(q, h, n, e)

InsertHead(h, e) ==
  CASE kind = "SLIST" -> SLIST_INSERT_HEAD(q, h, e)
    [] kind = "LIST" -> LIST_INSERT_HEAD(q, h, e)
    [] kind = "SIMPLEQ" -> SIMPLEQ_INSERT_HEAD(q, h, e)
    [] kind = "TAILQ" -> TAILQ_INSERT_HEAD(q, h, e)
    [] kind = "STAILQ" -> STAILQ_INSERT_HEAD(q, h, e)

RemoveElm(p, h, e) ==
  CASE kind = "SLIST" -> SLIST_REMOVE(p, h, e)
    [] kind = "LIST" -> LIST_REMOVE(p, e)
    [] kind = "SIMPLEQ" -> SIMPLEQ_REMOVE(p, h, e)
    [] kind = "TAILQ" -> TAILQ_REMOVE(p, h, e)
    [] kind = "STAILQ" -> STAILQ_REMOVE(p, h, e)

\* A traversal of the FOREACH_SAFE kind that removes the elements of out: var
\* goes on with what was next before its body.
RECURSIVE Sweep(_, _, _, _)
Sweep(p, h, var, out) ==
  IF var = NULL THEN p
  ELSE Sweep(IF var \in out THEN RemoveElm(p, h, var) ELSE p, h, p.next[var], out)

Queued == UNION {ToSet(content[h]) : h \in QHead}
Becomes(p, h, s) == q' = p /\ content' = [content EXCEPT ![h] = s] /\ UNCHANGED kind
Without(s, S) == SelectSeq(s, LAMBDA e : e \notin S)
IndexOf(s, e) == CHOOSE i \in DOMAIN s : s[i] = e

QInsertHead(h, e) == Becomes(InsertHead(h, e), h, <<e>> \o content[h])

QInsertAfter(h, l, e) ==
  /\ l \in ToSet(content[h])
  /\ Becomes(InsertAfter(h, l, e), h, InsertAt(content[h], IndexOf(content[h], l) + 1, e))

QInsertTail(h, e) ==
  /\ kind \in {"SIMPLEQ", "TAILQ", "STAILQ"}
  /\ Becomes(CASE kind = "SIMPLEQ" -> SIMPLEQ_INSERT_TAIL(q, h, e)
               [] kind = "TAILQ" -> TAILQ_INSERT_TAIL(q, h, e)
               [] kind = "STAILQ" -> STAILQ_INSERT_TAIL(q, h, e),
             h, Append(content[h], e))

QInsertBefore(h, l, e) ==
  /\ kind \in {"LIST", "TAILQ"} /\ l \in ToSet(content[h])
  /\ Becomes(IF kind = "LIST" THEN LIST_INSERT_BEFORE(q, l, e) ELSE TAILQ_INSERT_BEFORE(q, l, e),
             h, InsertAt(content[h], IndexOf(content[h], l), e))

QReplace(h, l, e) ==
  /\ kind \in {"LIST", "TAILQ"} /\ l \in ToSet(content[h])
  /\ Becomes(IF kind = "LIST" THEN LIST_REPLACE(q, l, e) ELSE TAILQ_REPLACE(q, h, l, e),
             h, ReplaceAt(content[h], IndexOf(content[h], l), e))

QRemove(h, e) ==
  /\ e \in ToSet(content[h])
  /\ Becomes(RemoveElm(q, h, e), h, Without(content[h], {e}))

QRemoveHead(h) ==
  /\ kind \in {"SLIST", "SIMPLEQ", "STAILQ"} /\ content[h] # <<>>
  /\ Becomes(CASE kind = "SLIST" -> SLIST_REMOVE_HEAD(q, h)
               [] kind = "SIMPLEQ" -> SIMPLEQ_REMOVE_HEAD(q, h)
               [] kind = "STAILQ" -> STAILQ_REMOVE_HEAD(q, h),
             h, Tail(content[h]))

QRemoveAfter(h, i) ==
  /\ kind \in {"SLIST", "SIMPLEQ"} /\ i + 1 \in DOMAIN content[h]
  /\ Becomes(IF kind = "SLIST" THEN SLIST_REMOVE_AFTER(q, content[h][i])
                               ELSE SIMPLEQ_REMOVE_AFTER(q, h, content[h][i]),
             h, RemoveAt(content[h], i + 1))

QConcat ==
  /\ kind \in {"SIMPLEQ", "TAILQ", "STAILQ"}
  /\ q' = CASE kind = "SIMPLEQ" -> SIMPLEQ_CONCAT(q, Head1, Head2)
            [] kind = "TAILQ" -> TAILQ_CONCAT(q, Head1, Head2)
            [] kind = "STAILQ" -> STAILQ_CONCAT(q, Head1, Head2)
  /\ content' = [content EXCEPT ![Head1] = @ \o content[Head2], ![Head2] = <<>>]
  /\ UNCHANGED kind

QSweep(h, out) == Becomes(Sweep(q, h, q.next[h], out), h, Without(content[h], out))

\* The pointers of an element that is on no queue are never read.
QInit ==
  /\ kind \in Kinds
  /\ q = [next |-> [n \in Node |-> NULL], prev |-> [e \in Elem |-> e], last |-> [h \in QHead |-> h]]
  /\ content = [h \in QHead |-> <<>>]

QNext ==
  \/ QConcat
  \/ \E h \in QHead :
       \/ \E e \in Elem \ Queued : QInsertHead(h, e) \/ QInsertTail(h, e)
       \/ \E e \in Elem \ Queued, l \in Queued :
            QInsertAfter(h, l, e) \/ QInsertBefore(h, l, e) \/ QReplace(h, l, e)
       \/ \E e \in Queued : QRemove(h, e)
       \/ QRemoveHead(h)
       \/ \E i \in 1 .. Len(content[h]) : QRemoveAfter(h, i)
       \/ \E out \in SUBSET ToSet(content[h]) : QSweep(h, out)

QSpec == QInit /\ [][QNext]_qvars

-----------------------------------------------------------------------------
(* Properties                                                              *)

\* Each structure stands for its sequence: forwards from the head, backwards
\* from the end where there are back pointers, and its last element is the one
\* that the LAST macros find.
QueuesRepresent ==
  \A h \in QHead :
    /\ Forward(q, h) = content[h]
    /\ kind \in {"LIST", "TAILQ"} =>
         \A e \in ToSet(content[h]) : q.next[q.prev[e]] = e
    /\ kind = "TAILQ" => TAILQ_FOREACH_REVERSE(q, h) = Reverse(content[h])
    /\ kind = "SIMPLEQ" => SIMPLEQ_LAST(q, h) = IF content[h] = <<>> THEN NULL ELSE Last(content[h])
    /\ kind = "STAILQ" => STAILQ_LAST(q, h) = IF content[h] = <<>> THEN NULL ELSE Last(content[h])

=============================================================================
