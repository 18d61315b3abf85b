----------------------------- MODULE MCCatalog -----------------------------
EXTENDS Catalog

MCOrders == {<<"p", "q">>, <<"q">>}
MCLists == {<<"m">>, <<"n", "m">>}
MCAliases == <<"n">>

MCSymmetry == Permutations(Requests)

=============================================================================
