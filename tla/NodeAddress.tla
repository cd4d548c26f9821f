---------------------------- MODULE NodeAddress ----------------------------
(***************************************************************************)
(* Addresses of community nodes (community_nodes.rs): as a client spells   *)
(* one, and as it is normalised into the key of the registry and of the    *)
(* file.  A spelling is kept as its parts, as parse_node_host_port takes   *)
(* the text apart, and its length in bytes.  What follows the last colon   *)
(* is a port only if it is a 16-bit number; without brackets everything    *)
(* else belongs to the host, with its colons.  Numbers are spelled in      *)
(* plain decimal, names in ASCII, and nothing but a port follows a         *)
(* bracket.                                                                *)
(***************************************************************************)
EXTENDS Naturals

CONSTANTS
  Names,       \* texts of a host, without regard to case
  NameLength,  \* bytes of each
  WithColon,   \* those with a colon: IPv6 literals, and what is taken for one
  EndInPort,   \* those that end in a colon and a 16-bit number
  Ports,       \* numbers spelled as a port
  Paths,       \* what may follow the first slash, NoPath apart
  PathLength,  \* bytes of each
  MaxLength,   \* COMMUNITY_NODE_ADDRESS_MAX_LEN
  NoPath,      \* no path
  Absent       \* no port, and in NodeProbe no submission and no key

\* What the constants are, for the instances to assume.
AddressAssumption ==
  /\ NameLength \in [Names -> Nat \ {0}]
  /\ EndInPort \subseteq WithColon /\ WithColon \subseteq Names
  /\ {80, 443, 11010} \subseteq Ports /\ Ports \subseteq Nat
  /\ PathLength \in [Paths -> Nat \ {0}]
  /\ NoPath \notin Paths /\ Absent \notin Ports
  /\ MaxLength \in Nat

Schemes == {"tcp", "udp", "ws", "wss", "http"}

IsU16(n) == n <= 65535

\* slash: a slash after the host, with or without a path.
Spelling == [scheme : Schemes, lower : BOOLEAN, host : Names, bracketed : BOOLEAN,
             port : Ports \cup {Absent}, slash : BOOLEAN, path : Paths \cup {NoPath}]

\* The parts of parse_node_host_port.  In brackets the host is what the brackets
\* hold; without them, host:99999 is a host, and 2001:db8::1 is the host 2001:db8:
\* with port 1.
Spellings ==
  {a \in Spelling :
     /\ a.path # NoPath => a.slash
     /\ ~a.bracketed => IF a.port = Absent THEN a.host \notin EndInPort ELSE IsU16(a.port)}

Digits(n) == IF n < 10 THEN 1 ELSE IF n < 100 THEN 2 ELSE IF n < 1000 THEN 3
             ELSE IF n < 10000 THEN 4 ELSE 5

PortLength(p) == IF p = Absent THEN 0 ELSE 1 + Digits(p)

\* trimmed.len().
Length(a) ==
  (IF a.scheme = "http" THEN 4 ELSE IF a.scheme = "ws" THEN 2 ELSE 3) + 3
    + NameLength[a.host] + (IF a.bracketed THEN 2 ELSE 0)
    + PortLength(a.port)
    + (IF a.slash THEN 1 ELSE 0) + (IF a.path = NoPath THEN 0 ELSE PathLength[a.path])

DefaultPort(scheme) ==
  CASE scheme = "wss" -> 443 [] scheme \in {"ws", "http"} -> 80 [] OTHER -> 11010

Port(a) == IF a.port = Absent THEN DefaultPort(a.scheme) ELSE a.port

PortNumbers == 1..65535

\* A number behind brackets that is no u16 makes the address unparsable.
Accepted(a) ==
  /\ Length(a) <= MaxLength
  /\ a.scheme # "http"
  /\ Port(a) \in PortNumbers

\* MUTANT of normalize_community_node_address: the default port is left out.
normalize_without_default(a) ==
  [a EXCEPT !.lower = TRUE, !.bracketed = (a.host \in WithColon),
            !.port = IF Port(a) = DefaultPort("tcp") THEN Absent ELSE Port(a),
            !.slash = (a.path # NoPath)]

\* Lower case, an explicit port, brackets around a host with a colon and around no
\* other, and no slash without a path.
normalize_community_node_address(a) ==
  [a EXCEPT !.lower = TRUE, !.bracketed = (a.host \in WithColon), !.port = Port(a),
            !.slash = (a.path # NoPath)]

\* Two spellings mean the same node: the README's rule, without regard to case,
\* to brackets, to a port that is the default one, and to a slash that nothing
\* follows.
SameNode(a, b) ==
  LET port(x) == IF x.port \in {Absent, DefaultPort(x.scheme)} THEN Absent ELSE x.port
  IN  <<a.scheme, a.host, a.path, port(a)>> = <<b.scheme, b.host, b.path, port(b)>>
=============================================================================
