---------------------------- MODULE AddressRules ----------------------------
(***************************************************************************)
(* The source-address filter (src/src/net.rs) on short addresses.  A v4    *)
(* address has Width4 bits and a v6 address one more: with that bit set it *)
(* is a v4 address mapped into v6, as a dual-stack listener reports it.    *)
(***************************************************************************)
EXTENDS Integers

CONSTANT Width4

ASSUME WidthAssumption == Width4 \in Nat \ {0}

\* 1 << n, by doubling.
TwoTo[n \in 0..(Width4 + 1)] == IF n = 0 THEN 1 ELSE 2 * TwoTo[n - 1]

Width == [v4 |-> Width4, v6 |-> Width4 + 1]
Words(family) == 0 .. TwoTo[Width[family]] - 1

\* The last block of two v4 addresses (127.0.0.0/8), and ::1.
Loopback == [v4 |-> {TwoTo[Width4] - 2, TwoTo[Width4] - 1}, v6 |-> {1}]

Peers == UNION {[family : {f}, addr : Words(f)] : f \in {"v4", "v6"}}
Rules == UNION {[family : {f}, addr : Words(f), bits : 0..Width[f]] : f \in {"v4", "v6"}}

\* What parse_rule makes nothing of: no address, or a prefix longer than one.
Unparsable == [family |-> "none"]

Parsed(list) == list \cap Rules

\* to_ipv4_mapped.
Mapped(peer) == peer.family = "v6" /\ peer.addr >= TwoTo[Width4]
Unmapped(peer) == [family |-> "v4", addr |-> peer.addr - TwoTo[Width4]]

\* MAX << shift keeps the high bits; where the shift is the width of the type, a
\* release build shifts by nothing.
Mask(width, bits) == LET shift == (width - bits) % width IN TwoTo[width] - TwoTo[shift]

\* x & mask, for a mask of high bits.
Masked(width, x, mask) == LET low == TwoTo[width] - mask IN x - (x % low)

SameMasked(rule, addr) ==
  LET width == Width[rule.family]
      mask == Mask(width, rule.bits)
  IN Masked(width, rule.addr, mask) = Masked(width, addr, mask)

\* Mutant of Covers: a prefix of no bits is not handled apart.
CoversByMask(rule, peer) ==
  rule.family = peer.family /\ SameMasked(rule, peer.addr)

Covers(rule, peer) ==
  rule.family = peer.family /\ (rule.bits = 0 \/ SameMasked(rule, peer.addr))

Matches(rule, peer) ==
  \/ Covers(rule, peer)
  \/ rule.family = "v4" /\ Mapped(peer) /\ Covers(rule, Unmapped(peer))

IsLoopback(peer) ==
  \/ peer.addr \in Loopback[peer.family]
  \/ Mapped(peer) /\ Unmapped(peer).addr \in Loopback["v4"]

\* source_allowlist, of what is configured.
Permitted(list, peer) ==
  \/ Parsed(list) = {}
  \/ IsLoopback(peer)
  \/ \E rule \in Parsed(list) : Matches(rule, peer)

=============================================================================
