-------------------------- MODULE MCGatewayCatalog --------------------------
EXTENDS GatewayCatalog

CONSTANTS d1, d2, s1, s2, w1, v1, v2, r1, r2, u1, u2, in1, g1, g2

Def(k, rt) == [key |-> k, rt |-> rt]
Default(u, d) == [url |-> u, default |-> d, traffic |-> {}]
Split(u, ds) == [url |-> u, default |-> Nil, traffic |-> ds]

\* A version, before and after it is labelled.
Labelling == {Def(<<w1, v1>>, r1), Def(Nil, r1)}

\* A service without a URL yet, with one that ValidateExternalURL refuses, and
\* with a usable one and a traffic list.
OneService == {Default(Nil, d1), Default(in1, d1), Split(u2, {d1})}

=============================================================================
