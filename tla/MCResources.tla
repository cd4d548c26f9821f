---------------------------- MODULE MCResources ----------------------------
(***************************************************************************)
(* What a client may take of the server in one instance: connections and   *)
(* their pace (Admission, Pacing, PasswordFailures), and the shared nodes  *)
(* (NodeProbe for one of them, SubmitLimits, CommunityNodes).  They share  *)
(* no state, and in a behaviour only one of them moves (part says which):  *)
(* what is reached is the states of each, never their product.             *)
(***************************************************************************)
EXTENDS MCProbe, Admission, Pacing, PasswordFailures, CommunityNodes, SubmitLimits

v6(net, host) == [family |-> "v6", net |-> net, host |-> host]
v4(net, host) == [family |-> "v4", net |-> net, host |-> host]
mapped(net, host) == [family |-> "mapped", net |-> net, host |-> host]

\* Two hosts of one IPv6 network, and an IPv4 address with its mapped form;
\* two proxies, of which the server sees the outer one in mapped form.
MCAddresses == {v6(1, 1), v6(1, 2), v4(2, 1), mapped(2, 1), v4(9, 1), mapped(9, 1), v4(9, 2)}
MCTrustedProxies == {v4(9, 1), v4(9, 2)}
MCClients == {v6(1, 1), v6(1, 2), mapped(2, 1)}

MCRoutes ==
  {[hops |-> <<>>, style |-> "append"],
   [hops |-> <<mapped(9, 1)>>, style |-> "real"],
   [hops |-> <<v4(9, 1), v4(9, 2)>>, style |-> "append"]}

\* No headers; the address of another client, or of a proxy, in either header;
\* both headers; a doubled header; text; a chain that is too long.
MCClaims ==
  {[xff |-> <<>>, real |-> <<>>],
   [xff |-> <<<<v4(2, 1)>>>>, real |-> <<>>],
   [xff |-> <<<<v6(1, 1), v4(9, 2)>>>>, real |-> <<v6(1, 1)>>],
   [xff |-> <<>>, real |-> <<v4(9, 1)>>],
   [xff |-> <<<<v6(1, 1)>>, <<v6(1, 2)>>>>, real |-> <<>>],
   [xff |-> <<<<Bad>>>>, real |-> <<>>],
   [xff |-> <<>>, real |-> <<Bad>>],
   [xff |-> <<<<v4(2, 1), v4(2, 1), v4(2, 1)>>>>, real |-> <<>>]}

\* Two connections behind one source and one behind another, in a table with
\* room for one.
MCSourceOf == ("c1" :> "s1") @@ ("c2" :> "s1") @@ ("c3" :> "s2")

-----------------------------------------------------------------------------
VARIABLE part

MCInit ==
  /\ part \in {"admission", "pacing", "passwords", "probe", "limits", "registry"}
  /\ Init /\ PacingInit /\ FailuresInit /\ ProbeInit /\ LimitsInit /\ NodesInit
  /\ part # "registry" => reachable = {}

MCNext ==
  /\ UNCHANGED part
  /\ \/ /\ part = "admission" /\ Next
        /\ UNCHANGED <<pacing_vars, failures_vars, probe_vars, limits_vars, nodes_vars>>
     \/ /\ part = "pacing" /\ PacingNext
        /\ UNCHANGED <<vars, failures_vars, probe_vars, limits_vars, nodes_vars>>
     \/ /\ part = "passwords" /\ FailuresNext
        /\ UNCHANGED <<vars, pacing_vars, probe_vars, limits_vars, nodes_vars>>
     \/ /\ part = "probe" /\ ProbeNext
        /\ UNCHANGED <<vars, pacing_vars, failures_vars, limits_vars, nodes_vars>>
     \/ /\ part = "limits" /\ LimitsNext
        /\ UNCHANGED <<vars, pacing_vars, failures_vars, probe_vars, nodes_vars>>
     \/ /\ part = "registry" /\ NodesNext
        /\ UNCHANGED <<vars, pacing_vars, failures_vars, probe_vars, limits_vars>>

MCSpec ==
  MCInit /\ [][MCNext]_<<part, vars, pacing_vars, failures_vars, probe_vars, limits_vars,
                        nodes_vars>>

\* Bound of the run: the node whose key is outgrown stays up, and one client at a
\* time submits it.
MCOneSteady ==
  part = "registry" =>
    /\ Outgrown \subseteq reachable
    /\ Cardinality({s \in Submitters : submission[s].node \in Outgrown}) <= 1

\* One of the nodes is special (Outgrown), and the other sets are small.
MCSymmetry == Permutations(Submitters)
=============================================================================
