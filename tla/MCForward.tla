----------------------------- MODULE MCForward -----------------------------
(* Small instances of module Forward. *)
EXTENDS Forward

CONSTANTS c1, c2, p1, k1, v1, n1, o1

\* Core c1 serves the port p1, c2 the client.
OnePort == [c \in Core |-> IF c = c1 THEN p1 ELSE NoPort]

\* The ring of p1 holds a burst.
Sizes == [p \in Queued |-> IF p = p1 THEN 2 ELSE 1]

\* No action, no output, a set after the only output, and several outputs with
\* a set between two of them.
SomeLists == {<<>>, <<"set">>, <<p1, "set">>, <<k1, "set", n1, v1, o1>>}
=============================================================================
