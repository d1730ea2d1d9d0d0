------------------------------- MODULE Lists --------------------------------
(***************************************************************************)
(* Linked lists, as the proofs about the queue classes speak of them: a    *)
(* sequence c of nodes, and next pointers p that spell it.  null is the    *)
(* null pointer.                                                           *)
(***************************************************************************)
EXTENDS Naturals, Sequences

\* Node n is in the sequence c; m comes before n in it, or is n; n comes right
\* after m; n is the last or the one before it; no node comes twice.
Has(c, n) == \E i \in 1..Len(c) : c[i] = n
Before(c, m, n) == \E i, j \in 1..Len(c) : c[i] = m /\ c[j] = n /\ i <= j
Follows(c, m, n) == \E i \in 1..(Len(c) - 1) : c[i] = m /\ c[i + 1] = n
LastTwo(c, n) == \E i \in 1..Len(c) : c[i] = n /\ Len(c) <= i + 1
NoRepeat(c) == \A i, j \in 1..Len(c) : c[i] = c[j] => i = j

\* The next pointers p spell the sequence c.
Spells(c, p, null) ==
  \A i \in 1..Len(c) : p[c[i]] = IF i = Len(c) THEN null ELSE c[i + 1]

\* The list grows at its front: c holds its nodes from the last to the first.
SpellsBack(c, p, null) ==
  \A i \in 1..Len(c) : p[c[i]] = IF i = 1 THEN null ELSE c[i - 1]

Top(c, null) == IF c = <<>> THEN null ELSE c[Len(c)]

\* The part of a sequence behind one of its elements.
Position(c, n) == CHOOSE i \in 1..Len(c) : c[i] = n
Rest(c, n) == SubSeq(c, Position(c, n) + 1, Len(c))

=============================================================================
