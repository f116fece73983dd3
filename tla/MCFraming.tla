----------------------------- MODULE MCFraming -----------------------------
(* Instances of Framing for TLC: every pair of items, lengths around the   *)
(* limits, a default buffer smaller than a header and a frame.             *)
EXTENDS Framing

I(k, n, f) == [kind |-> k, last |-> n, found |-> f]

Lines == {I("line", 4, 0)}
Marks == {I("end", 3, 0), I("error", 7, 0)}
V3    == {I("v3", 7, 3), I("v3", 9, 5)}
V4    == {I("v4", 4, 0), I("v4", 9, 0)}
Alone == {I("noise", 10, 0), I("junk", 3, 0), I("badhead", 4, 0), I("v3", 9, 7)}

Behind(a, b) == <<a, [b EXCEPT !.last = a.last + b.last]>>

Pairs == LET Stream(packets) ==
                 LET items == Lines \cup Marks \cup packets
                 IN  {Behind(a, b) : a \in items, b \in items}
         IN  Stream(V3) \cup Stream(V4) \cup {<<a>> : a \in Alone}
=============================================================================
