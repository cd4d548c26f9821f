------------------------------ MODULE MCProbe ------------------------------
(***************************************************************************)
(* Submissions for NodeProbe: every address around the edges of the        *)
(* blocks, plain and mapped; names with several addresses; every spelling  *)
(* of four hosts, the longest just as long as an address may be.           *)
(***************************************************************************)
EXTENDS NodeProbe, Bitwise, TLC

\* A name, IPv6 literals that end in a letter and in a number, and name:65536.
MCNames == {"name", "hex", "decimal", "numbered"}
MCNameLength == ("name" :> 12) @@ ("hex" :> 9) @@ ("decimal" :> 8) @@ ("numbered" :> 11)
MCPathLength == ("q" :> 3)

First == {0, 1, 9, 10, 11, 99, 100, 101, 126, 127, 128, 169, 172, 191, 192, 193,
          198, 203, 223, 224, 239, 240, 255}
Second == {0, 15, 16, 18, 19, 20, 31, 32, 51, 63, 64, 127, 128, 168, 254}
Third == {0, 2, 3, 100, 113}

\* The third octet counts only within 192, 198 and 203.
Octets == {<<a, b, 0, 1>> : a \in First, b \in Second}
            \cup {<<a, b, c, 1>> : a \in {192, 198, 203}, b \in Second, c \in Third}
            \cup {<<0, 0, 0, 0>>, <<255, 255, 255, 255>>, <<8, 8, 8, 8>>}

\* The first segment around fc00::/7, fe80::/10, ff00::/8 and 2001:db8::/32.
Segments ==
  {<<a, b, 0, 0, 0, 0, 0, c>> :
     a \in {0, 1, 8192, 8193, 8194, 64511, 64512, 65023, 65024, 65151, 65152, 65215,
            65216, 65279, 65280, 65535},
     b \in {0, 3511, 3512, 3513}, c \in {0, 1, 2}}

\* An IPv4 address comes together with its mapped form.
BlockAddresses == {<<V4(o), Mapped(o)>> : o \in Octets} \cup {<<V6(s)>> : s \in Segments}

Public == V4(<<8, 8, 8, 8>>)
Some == {Public, V4(<<1, 1, 1, 1>>), Mapped(<<10, 0, 0, 1>>)}

Resolutions == UNION {[1..n -> Some] : n \in 0..3}

Spelled(scheme) == [scheme |-> scheme, lower |-> TRUE, host |-> "name", bracketed |-> FALSE,
                    port |-> Absent, slash |-> FALSE, path |-> NoPath]

Silent(r) == [ip \in ElementsOf(r) |-> "silence"]

BlockCases ==
  {[spelled |-> Spelled("tcp"), resolved |-> r, listening |-> {}, udp |-> Silent(r)] :
     r \in BlockAddresses}

NameCases ==
  UNION {[spelled : {Spelled("udp")}, resolved : {r},
          listening : SUBSET ElementsOf(r), udp : [ElementsOf(r) -> UdpAnswers]]
         \cup [spelled : {Spelled("ws")}, resolved : {r},
               listening : SUBSET ElementsOf(r), udp : {Silent(r)}] :
         r \in Resolutions}

SpellingCases ==
  {[spelled |-> a, resolved |-> <<Public>>, listening |-> {Public}, udp |-> Silent(<<Public>>)] :
     a \in Spellings}

\* Blocks that the code does not name and that are not routed, with one that is.
UnnamedCases ==
  {[spelled |-> Spelled("tcp"), resolved |-> <<ip>>, listening |-> {}, udp |-> Silent(<<ip>>)] :
     ip \in {Public, V4(<<0, 0, 0, 1>>), Mapped(<<0, 0, 0, 1>>),
             V6(<<65216, 0, 0, 0, 0, 0, 0, 1>>)}}

MCCases == BlockCases \cup NameCases \cup SpellingCases

-----------------------------------------------------------------------------
\* The arithmetic of the masks is the operator of the machine, for the masks of the
\* code, on every octet and on segments around every bit of the masks.
ASSUME MasksAreBitwise ==
  /\ \A x \in 0..255 : \A mask \in {192, 254} : AndU8(x, mask) = (x & mask)
  /\ \A high \in 0..255 : \A low \in {0, 63, 64, 127, 128, 191, 192, 255} :
       \A mask \in {65024, 65280, 65472} :
         AndU16(256 * high + low, mask) = ((256 * high + low) & mask)
=============================================================================
