------------------------------ MODULE VideoList ------------------------------
(***************************************************************************)
(* FastVideoList_t (src/sfastvideo.c): a doubly linked list whose head also *)
(* holds the tail (`last') and ONE iterator, shared by all the callers.  A  *)
(* list is the pointer to its head, a HEAP gives the fields of every entry. *)
(* The entry and the entity it carries have the same name.                  *)
(***************************************************************************)
EXTENDS Naturals, FiniteSets, Sequences

CONSTANTS Entries, Nil
ASSUME EntriesAssumption == IsFiniteSet(Entries) /\ Nil \notin Entries

VARIABLES
    heap,  \* the fields of the entries
    task   \* of each thread, the call of push() or pop() that it is in

Blank == [next |-> Nil, previous |-> Nil, last |-> Nil, iterator |-> Nil]

(* The entries reached from `l' by `next': those of every set that has `l' and *)
(* what follows each of its entries.                                        *)
FollowsNext(h, S) == \A e \in S : h[e].next \in S \cup {Nil}
Members(h, l) ==
    { e \in Entries :
        \A S \in SUBSET Entries : l \in S \cup {Nil} /\ FollowsNext(h, S) => e \in S }

(* append() puts an entry before the head and tells it the tail, which is the *)
(* first one appended: the list after an append of each entry of `order'.     *)
Neighbour(order, i) == IF i \in DOMAIN order THEN order[i] ELSE Nil
Appended(order) ==
    [heap |-> [e \in Entries |->
                  LET i == CHOOSE n \in DOMAIN order : order[n] = e
                  IN  [next |-> Neighbour(order, i - 1), previous |-> Neighbour(order, i + 1),
                       last |-> order[1], iterator |-> Nil]],
     head |-> Neighbour(order, Len(order))]

(* push() and pop() are run by several threads without a lock, so each of their *)
(* statements is a step.  task[t] is the call that thread t is in: where it is,  *)
(* the variable that the result goes to, the head it was given (at the end, the  *)
(* one it returns), the entry it moves and, in push(), the one it looks at.      *)
Free(at) == [at |-> at, of |-> "none", head |-> Nil, entry |-> Nil, look |-> Nil]

Goto(t, at) == task' = [task EXCEPT ![t].at = at]
Returns(t, head) ==
    task' = [task EXCEPT ![t].at = "return", ![t].head = head, ![t].look = Nil]
Writes(e, field, value) == heap' = [heap EXCEPT ![e][field] = value]

(* Where a call begins: the variable is read for the argument.                *)
Pop(t, of, l, first) ==
    task' = [task EXCEPT ![t].at = IF l = Nil THEN "return" ELSE first,
                         ![t].of = of, ![t].head = l, ![t].entry = Nil]
Push(t, of, l) ==
    task' = [task EXCEPT ![t].at = "search", ![t].of = of, ![t].head = l, ![t].look = l]

Iterator(t) == heap[task[t].head].iterator
PopLast(t) ==
    /\ task[t].at = "tail"
    /\ Writes(task[t].head, "iterator", heap[task[t].head].last) /\ Goto(t, "pick")
Pick(t) ==
    /\ task[t].at = "pick"
    /\ task' = [task EXCEPT ![t].at = "before",
                            ![t].entry = IF Iterator(t) = Nil THEN task[t].head ELSE Iterator(t)]
    /\ UNCHANGED heap

(* Mutant of ToldBefore: only the entry that follows is told.                  *)
ToldNobody(i, e) == heap
ToldBefore(i, e) ==
    IF heap[i].previous = Nil THEN heap
    ELSE [heap EXCEPT ![heap[i].previous].next = heap[e].next]
UnlinkBefore(t) ==
    /\ task[t].at = "before" /\ Iterator(t) # Nil
    /\ heap' = ToldBefore(Iterator(t), task[t].entry) /\ Goto(t, "after")
UnlinkAfter(t) ==
    /\ task[t].at = "after" /\ Iterator(t) # Nil
    /\ IF heap[Iterator(t)].next = Nil THEN UNCHANGED heap
       ELSE Writes(heap[Iterator(t)].next, "previous", heap[task[t].entry].previous)
    /\ Goto(t, "advance")
Advance(t) ==
    /\ task[t].at = "advance" /\ Iterator(t) # Nil
    /\ Writes(task[t].head, "iterator", heap[Iterator(t)].next) /\ Goto(t, "last")
TakeTail(t) ==
    /\ task[t].at = "last"
    /\ IF heap[task[t].head].last # task[t].entry THEN UNCHANGED heap
       ELSE Writes(task[t].head, "last", heap[task[t].entry].previous)
    /\ Goto(t, "clear")
(* Taking the head gives the empty list, whatever follows it.                  *)
Clear(t) ==
    /\ task[t].at = "clear"
    /\ heap' = [heap EXCEPT ![task[t].entry] = Blank]
    /\ Returns(t, IF task[t].entry = task[t].head THEN Nil ELSE task[t].head)
(* The iterator is followed without a test.                                    *)
FollowsNull(t) == task[t].at \in {"before", "after", "advance"} /\ Iterator(t) = Nil

(* push() sets the tail of the new head only when the list was not empty.      *)
Search(t) ==
    /\ task[t].at = "search"
    /\ LET e == task[t].look
       IN  IF e = Nil THEN Goto(t, IF task[t].head = Nil THEN "next" ELSE "tell")
           ELSE IF e = task[t].entry THEN Returns(t, task[t].head)
           ELSE task' = [task EXCEPT ![t].look = heap[e].next]
    /\ UNCHANGED heap
TellLast(t) ==
    /\ task[t].at = "tell"
    /\ Writes(task[t].entry, "last", heap[task[t].head].last) /\ Goto(t, "previous")
LinkBack(t) ==
    /\ task[t].at = "previous"
    /\ Writes(task[t].head, "previous", task[t].entry) /\ Goto(t, "next")
LinkNext(t) ==
    /\ task[t].at = "next"
    /\ Writes(task[t].entry, "next", task[t].head) /\ Returns(t, task[t].entry)

ListStep(t) ==
    \/ PopLast(t) \/ Pick(t) \/ UnlinkBefore(t) \/ UnlinkAfter(t) \/ Advance(t)
    \/ TakeTail(t) \/ Clear(t)
    \/ Search(t) \/ TellLast(t) \/ LinkBack(t) \/ LinkNext(t)

(* first() puts the iterator on the head, next() moves it and returns what   *)
(* it finds: the head only when the iterator was on nothing.                 *)
ListFirst(h, l) == IF l = Nil THEN h ELSE [h EXCEPT ![l].iterator = l]
ListNext(h, l) ==
    IF l = Nil THEN Nil
    ELSE IF h[l].iterator = Nil THEN l ELSE h[h[l].iterator].next
ListAdvance(h, l) ==
    IF l = Nil THEN h ELSE [h EXCEPT ![l].iterator = ListNext(h, l)]
==============================================================================
