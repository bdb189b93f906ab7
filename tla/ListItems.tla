------------------------------ MODULE ListItems ------------------------------
(***************************************************************************)
(* The circular doubly linked lists of src/include/reef/list.h, kept as    *)
(* the pointers the code keeps: what an operation does to an item that is  *)
(* already linked, or no longer linked, is part of the behaviour of the    *)
(* modules that use them.                                                  *)
(***************************************************************************)
EXTENDS Naturals, FiniteSets

CONSTANTS Nodes,        \* the items
          List          \* the list head

VARIABLES next, prev    \* list_item pointers; an unlinked item keeps its own

\* list_init().  The pointers of an item never linked are null; nothing
\* follows them, and they are modelled as pointing to the item itself.
list_init ==
  /\ next = [i \in Nodes \cup {List} |-> i]
  /\ prev = [i \in Nodes \cup {List} |-> i]

\* Mutant of list_item_prepend: next->prev is not set.
PrependOneWay(item) ==
  /\ next' = [next EXCEPT ![item] = next[List], ![List] = item]
  /\ prev' = [prev EXCEPT ![item] = List]

list_item_prepend(item) ==
  LET first == next[List]
  IN  /\ next' = [next EXCEPT ![item] = first, ![List] = item]
      /\ prev' = [prev EXCEPT ![first] = item, ![item] = List]

\* The second assignment reads item->prev after the first one.
list_item_del(item) ==
  LET p == [prev EXCEPT ![next[item]] = prev[item]]
  IN  prev' = p /\ next' = [next EXCEPT ![p[item]] = next[item]]

\* The item the loop of list_for_item is at after n rounds.
Walk ==
  LET at[n \in 0 .. Cardinality(Nodes)] ==
        IF n = 0 THEN next[List] ELSE next[at[n - 1]]
  IN  at

\* The loop ends when it is back at the list head; it then has seen Length
\* items.  A list that has not ended after every item was seen never ends.
Ends == \E n \in DOMAIN Walk : Walk[n] = List
Length == CHOOSE n \in DOMAIN Walk :
            Walk[n] = List /\ \A i \in 0 .. n - 1 : Walk[i] # List

Rounds == 0 .. Length - 1
Listed == {Walk[i] : i \in Rounds}

\* The list holds exactly the items of S and can be walked both ways.
ListHolds(S) ==
  /\ Ends /\ Listed = S
  /\ \A i \in S \cup {List} : prev[next[i]] = i /\ next[prev[i]] = i
=============================================================================
