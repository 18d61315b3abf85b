--------------------------- MODULE MCRequestPlan ---------------------------
EXTENDS RequestPlan

CONSTANTS a1, a2, b1, p, q, gone, m1, m2

ThreeKeys == {a1, a2, b1}
TheirProvider == [k \in ThreeKeys |-> IF k = b1 THEN q ELSE p]

MCPools == {<< >>, <<a1>>, <<a1, b1>>, <<a1, a2, b1>>}

Target(provider, model) == [provider |-> provider, model |-> model]
MCAliases == {<<Target(p, m1), Target(gone, m1), Target(q, m2)>>,
              <<Target(p, m1), Target(p, m2)>>, << >>}

\* "gone" is a provider that the catalog still knows and the pool has no key of.
MCOfferings == {<< >>, <<q>>, <<p, q>>, <<gone>>, <<gone, p, q>>}

=============================================================================
