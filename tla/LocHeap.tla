------------------------------ MODULE LocHeap ------------------------------
(***************************************************************************)
(* The heap of LocHeap.cpp: a binary tree with the element that ranks      *)
(* highest on top.  Elements are records with a field `due', and rank the  *)
(* higher the sooner that is (LocTimerDelegate::ranks).  Each operator     *)
(* returns the tree a method leaves.                                       *)
(***************************************************************************)
EXTENDS Integers

Nil == <<>>
Leaf(x) == [data |-> x, size |-> 1, left |-> Nil, right |-> Nil]

outRanks(x, y) == x.due < y.due

(* A new element is exchanged with those it outranks on its way down, and  *)
(* goes into a missing subtree, or else the smaller one.                   *)
GoesLeft(n) ==
  n.left = Nil \/ (n.right # Nil /\ n.left.size <= n.right.size)

RECURSIVE push(_, _)
push(n, x) ==
  IF n = Nil THEN Leaf(x)
  ELSE LET up   == IF outRanks(x, n.data) THEN x ELSE n.data
           down == IF outRanks(x, n.data) THEN n.data ELSE x
       IN IF GoesLeft(n)
          THEN [n EXCEPT !.data = up, !.size = @ + 1, !.left = push(@, down)]
          ELSE [n EXCEPT !.data = up, !.size = @ + 1, !.right = push(@, down)]

(* The top is replaced by the higher of its children, down to a leaf.      *)
RisesLeft(n) ==
  n.left # Nil /\ (n.right = Nil \/ outRanks(n.left.data, n.right.data))

RECURSIVE pop(_)
pop(n) ==
  IF n.left = Nil /\ n.right = Nil THEN Nil
  ELSE IF RisesLeft(n)
  THEN [n EXCEPT !.data = n.left.data, !.size = @ - 1, !.left = pop(@)]
  ELSE [n EXCEPT !.data = n.right.data, !.size = @ - 1, !.right = pop(@)]

(* Mutant: a subtree whose top ranks the same is not searched.  *)
MayHoldLower(n, x) == outRanks(n.data, x)

(* A subtree whose top ranks lower than the element is not searched.       *)
MayHold(n, x) == ~outRanks(x, n.data)

RECURSIVE remove(_, _)
remove(n, x) ==
  IF n = Nil THEN Nil
  ELSE IF n.data = x THEN pop(n)
  ELSE IF ~MayHold(n, x) THEN n
  ELSE LET l == remove(n.left, x)
           r == remove(n.right, x)
       IN IF l # n.left THEN [n EXCEPT !.left = l, !.size = @ - 1]
          ELSE IF r # n.right THEN [n EXCEPT !.right = r, !.size = @ - 1]
          ELSE n

RECURSIVE Elements(_)
Elements(n) ==
  IF n = Nil THEN {} ELSE {n.data} \cup Elements(n.left) \cup Elements(n.right)

SizeOf(n) == IF n = Nil THEN 0 ELSE n.size

(* The sizes add up and no node is outranked by one below it.              *)
RECURSIVE checkNodes(_)
checkNodes(n) ==
  n = Nil \/
    /\ n.size = SizeOf(n.left) + SizeOf(n.right) + 1
    /\ \A c \in {n.left, n.right} \ {Nil} : ~outRanks(c.data, n.data) /\ checkNodes(c)
=============================================================================
