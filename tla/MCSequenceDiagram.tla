------------------------- MODULE MCSequenceDiagram -------------------------
(* Two applications with three endpoints that call each other in all ways  *)
(* that two calls in a body allow, with and without blocks and returns.    *)
EXTENDS SequenceDiagram

CONSTANTS x, y, x1, x2, y1

MCApp == {x, y}
MCEndpoint == {x1, x2, y1}
MCAppOf == [e \in MCEndpoint |-> IF e = y1 THEN y ELSE x]

call(e) == [kind |-> "call", to |-> e]
st(k) == [kind |-> k]

Flat(S) == {<<>>} \cup {<<s>> : s \in S} \cup {<<s, t>> : s, t \in S}
Calls == {call(e) : e \in MCEndpoint}
Blocks ==
  {<<st("open"), c, st("close")>> : c \in Calls}
    \cup {<<st("open"), st("action"), st("else"), c, st("close")>> : c \in Calls}
    \cup {<<st("open"), c, st("close"), st("ret")>> : c \in Calls}

MCBodies ==
  {[e \in MCEndpoint |-> CASE e = x1 -> b1 [] e = x2 -> b2 [] OTHER -> b3] :
     b1 \in Flat(Calls \cup {st("ret")}) \cup Blocks,
     b2 \in Flat({call(x1), call(y1), st("ret")}) \cup Blocks,
     b3 \in Flat({call(x1), call(x2), st("ret")})}

entry(e) == [ep |-> e, upto |-> None]
MCEntryLists == {<<entry(x1)>>, <<[ep |-> x1, upto |-> y1], entry(x2)>>}
MCBlackboxes == {{}, {y1}}
NoBlackboxes == {{}}
============================================================================
