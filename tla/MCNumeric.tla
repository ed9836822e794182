---- MODULE MCNumeric ----
EXTENDS Numeric

(* Digits that reach both limits in seven signs: 10FFFF and 110000 in hex, *)
(* 1114111 and 1114112 in decimal, and FFFF and 10000 in the ends of a     *)
(* range; and digits that are none of the base.                            *)
Digits == [x |-> {"0", "1", "F"}, d |-> {"1", "2", "4", "A"}, b |-> {"0", "1", "2"}]
Lengths == [x |-> 7, d |-> 7, b |-> 6]
====
