------------------------------ MODULE Drawing ------------------------------
(***************************************************************************)
(* The picture of an ingress and its egresses (pkg/print/draw.go): a box   *)
(* for the ingress on the left, a column of boxes for the egresses on the  *)
(* right, and lines between them.                                          *)
(*                                                                         *)
(* A box takes three lines of text.  A character that draws a line is the  *)
(* set of the directions it reaches to; what stands in a box, and how wide *)
(* the boxes are, is left out.                                             *)
(***************************************************************************)
EXTENDS Integers, Sequences

toAscii == <<"top", "text", "lower">>

\* Mutant: the middle of an even number of children is the one before.
MiddleBefore(n) == (n - 1) \div 2

Middle(n) == n \div 2

\* What joins child i of n (from 0) to the parent, and the bar below it.
Connector(n, i) ==
    CASE n = 1                -> [mid |-> {"left", "right"}, vertical |-> {}]
      [] n > 1 /\ i = 0       -> [mid |-> {"down", "right"}, vertical |-> {"up", "down"}]
      [] n = 2 /\ i = 1       -> [mid |-> {"left", "up", "right"}, vertical |-> {}]
      [] n > 2 /\ i > 0 /\ i = Middle(n) ->
            [mid |-> {"left", "up", "down", "right"}, vertical |-> {"up", "down"}]
      [] n > 2 /\ i > 0 /\ i # Middle(n) /\ i < n - 1 ->
            [mid |-> {"up", "down", "right"}, vertical |-> {"up", "down"}]
      [] OTHER                -> [mid |-> {"up", "right"}, vertical |-> {}]

\* The bar is carried from the text of one child to that of the next.
Mid(n, i, j) ==
    CASE j = 2          -> Connector(n, i).mid
      [] j = 3          -> Connector(n, i).vertical
      [] j = 1 /\ i > 0 -> Connector(n, i - 1).vertical
      [] OTHER          -> {}

Line(n, i, j) ==
    [left  |-> IF i = Middle(n) THEN toAscii[j] ELSE "blank",
     mid   |-> Mid(n, i, j),
     right |-> toAscii[j]]

SPPrint(n) ==
    [l \in 1..3 * n |-> Line(n, (l - 1) \div 3, ((l - 1) % 3) + 1)]

---------------------------------------------------------------------------

\* No line ends in the void: what reaches down from one line of text reaches up
\* from the next, one line leaves the parent, beside its text, and one arrives at
\* the text of each child.
Connected(lines) ==
    /\ \A l \in 1..Len(lines) :
          /\ "up" \in lines[l].mid <=> l > 1 /\ "down" \in lines[l - 1].mid
          /\ "down" \in lines[l].mid => l < Len(lines)
          /\ "left" \in lines[l].mid <=> lines[l].left = "text"
          /\ "right" \in lines[l].mid <=> lines[l].right = "text"
    /\ Len(lines) > 0 => \E l \in 1..Len(lines) : lines[l].left = "text"
=============================================================================
