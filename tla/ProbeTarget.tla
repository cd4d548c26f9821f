---------------------------- MODULE ProbeTarget ----------------------------
(***************************************************************************)
(* Which addresses a node may be probed at (community_nodes.rs).  The code *)
(* tests octets and 16-bit segments with masks.  Two references follow:    *)
(* the blocks that the code names, as ranges, and the addresses that are   *)
(* routed publicly, which the code means to probe.  An IPv4 address is     *)
(* four octets, an IPv6 address eight segments.                            *)
(***************************************************************************)
EXTENDS Naturals, Sequences

\* Octets and segments.
U8 == 0..255
U16 == 0..65535

\* x & mask of octets and of segments, for the masks the code uses: a number of
\* leading ones.
AndU8(x, mask) == x - (x % (256 - mask))
AndU16(x, mask) == x - (x % (65536 - mask))

V4(octets) == [version |-> 4, parts |-> octets]
V6(segments) == [version |-> 6, parts |-> segments]

\* IpAddr.
IpAddresses == [version : {4}, parts : [1..4 -> U8]]
               \cup [version : {6}, parts : [1..8 -> U16]]

\* to_ipv4_mapped: ::ffff:a.b.c.d.
IsMapped(s) == SubSeq(s, 1, 6) = <<0, 0, 0, 0, 0, 65535>>
Unmapped(s) == <<s[7] \div 256, s[7] % 256, s[8] \div 256, s[8] % 256>>
Mapped(o) == V6(<<0, 0, 0, 0, 0, 65535, o[1] * 256 + o[2], o[3] * 256 + o[4]>>)

\* The Ipv4Addr methods of the standard library: is_unspecified, is_loopback,
\* is_private, is_link_local, is_broadcast, is_documentation, is_multicast.
StdSpecialV4(o) ==
  \/ o = <<0, 0, 0, 0>>
  \/ o[1] = 127
  \/ o[1] = 10
  \/ o[1] = 172 /\ o[2] \in 16..31
  \/ o[1] = 192 /\ o[2] = 168
  \/ o[1] = 169 /\ o[2] = 254
  \/ o = <<255, 255, 255, 255>>
  \/ SubSeq(o, 1, 3) \in {<<192, 0, 2>>, <<198, 51, 100>>, <<203, 0, 113>>}
  \/ o[1] \in 224..239

\* MUTANT of is_public_v4: the mask of 100.64.0.0/10 is that of a /9.
is_public_v4_short_mask(o) ==
  ~ \/ StdSpecialV4(o)
    \/ o[1] = 100 /\ AndU8(o[2], 128) = 64
    \/ o[1] = 192 /\ o[2] = 0 /\ o[3] = 0
    \/ o[1] = 198 /\ AndU8(o[2], 254) = 18
    \/ o[1] >= 240

is_public_v4(o) ==
  ~ \/ StdSpecialV4(o)
    \/ o[1] = 100 /\ AndU8(o[2], 192) = 64
    \/ o[1] = 192 /\ o[2] = 0 /\ o[3] = 0
    \/ o[1] = 198 /\ AndU8(o[2], 254) = 18
    \/ o[1] >= 240

\* Ipv6Addr::is_unspecified, is_loopback, is_multicast.
StdSpecialV6(s) ==
  \/ \A i \in 1..7 : s[i] = 0 /\ s[8] \in {0, 1}
  \/ AndU16(s[1], 65280) = 65280

\* fc00::/7, fe80::/10 and 2001:db8::/32 by their masks.
is_public_v6(s) ==
  ~ \/ AndU16(s[1], 65024) = 64512
    \/ AndU16(s[1], 65472) = 65152
    \/ s[1] = 8193 /\ s[2] = 3512

is_public_probe_target(ip) ==
  IF ip.version = 4 THEN is_public_v4(ip.parts)
  ELSE /\ ~StdSpecialV6(ip.parts)
       /\ IF IsMapped(ip.parts) THEN is_public_v4(Unmapped(ip.parts))
          ELSE /\ SubSeq(ip.parts, 1, 6) # <<0, 0, 0, 0, 0, 0>>
               /\ is_public_v6(ip.parts)

-----------------------------------------------------------------------------
\* Reference: the blocks the code names, as ranges of the first three octets
\* (none of them is smaller but the two single addresses).
Block(o) == (o[1] * 256 + o[2]) * 256 + o[3]

InRange(o, from, to) == Block(from) <= Block(o) /\ Block(o) <= Block(to)

ReservedV4(o) ==
  \/ o = <<0, 0, 0, 0>>
  \/ InRange(o, <<10, 0, 0>>, <<10, 255, 255>>)
  \/ InRange(o, <<100, 64, 0>>, <<100, 127, 255>>)
  \/ InRange(o, <<127, 0, 0>>, <<127, 255, 255>>)
  \/ InRange(o, <<169, 254, 0>>, <<169, 254, 255>>)
  \/ InRange(o, <<172, 16, 0>>, <<172, 31, 255>>)
  \/ InRange(o, <<192, 0, 0>>, <<192, 0, 0>>)
  \/ InRange(o, <<192, 0, 2>>, <<192, 0, 2>>)
  \/ InRange(o, <<192, 168, 0>>, <<192, 168, 255>>)
  \/ InRange(o, <<198, 18, 0>>, <<198, 19, 255>>)
  \/ InRange(o, <<198, 51, 100>>, <<198, 51, 100>>)
  \/ InRange(o, <<203, 0, 113>>, <<203, 0, 113>>)
  \/ InRange(o, <<224, 0, 0>>, <<255, 255, 255>>)

\* An embedded IPv4 address, in either form, is never better than itself.
ReservedV6(s) ==
  \/ SubSeq(s, 1, 6) = <<0, 0, 0, 0, 0, 0>>
  \/ IsMapped(s) /\ ReservedV4(Unmapped(s))
  \/ s[1] \in 64512..65023
  \/ s[1] \in 65152..65215
  \/ s[1] \in 65280..65535
  \/ s[1] = 8193 /\ s[2] = 3512

Reserved(ip) == IF ip.version = 4 THEN ReservedV4(ip.parts) ELSE ReservedV6(ip.parts)

-----------------------------------------------------------------------------
\* Reference: what is at most publicly routed unicast, by the registries of IANA
\* and not by the code.  0.0.0.0/8 is "this network" as a whole, and global unicast IPv6 is
\* 2000::/3; a mapped address is judged as the IPv4 address that it carries.
RoutableV4(o) == o[1] # 0 /\ ~ReservedV4(o)

RoutableV6(s) ==
  IF IsMapped(s) THEN RoutableV4(Unmapped(s))
  ELSE s[1] \in 8192..16383 /\ ~(s[1] = 8193 /\ s[2] = 3512)

Routable(ip) == IF ip.version = 4 THEN RoutableV4(ip.parts) ELSE RoutableV6(ip.parts)
=============================================================================
