----------------------------- MODULE MCSettings -----------------------------
EXTENDS Settings

V4(addr, bits) == [family |-> "v4", addr |-> addr, bits |-> bits]
V6(addr, bits) == [family |-> "v6", addr |-> addr, bits |-> bits]

\* Every prefix length of both families, and entries that do not parse.
MCAllowLists ==
  {{}, {V4(1, 0)}, {V4(1, 1)}, {V4(0, 2), V6(0, 2)}, {V6(5, 1)}, {V6(2, 0)},
   {V6(6, 3)}, {Unparsable}, {Unparsable, V4(0, 2)}}

MCSymmetry ==
  Permutations(Providers) \cup Permutations(Tails) \cup Permutations(Ttls)

\* What a configuration held matters while something still refers to it.
MCView ==
  <<vars, served, ttl, rebuilds,
    [i \in ({store, inodes[target].data} \cup {saver[s].snapshot : s \in Savers})
            \ {EMPTY} |-> conf[i]]>>

=============================================================================
