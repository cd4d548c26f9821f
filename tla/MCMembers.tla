------------------------------ MODULE MCMembers ------------------------------
(***************************************************************************)
(* The two protocols on top of the membership, Relay and TokenDelivery, in *)
(* one instance.  They share nothing but the membership, so of a           *)
(* behaviour's two parts only one moves (part says which): what is reached *)
(* is the states of the one and those of the other, never their product.   *)
(***************************************************************************)
EXTENDS Relay, TokenDelivery, FiniteSets, TLC

VARIABLE part

tokens == <<token, births, step, job, newest, told>>

MCInit == part \in {"relay", "tokens"} /\ RelayInit /\ Init

MCNext ==
  /\ UNCHANGED part
  /\ \/ part = "relay" /\ RelayNext /\ UNCHANGED tokens
     \/ part = "tokens" /\ Next /\ UNCHANGED relaying

MCSpec == MCInit /\ [][MCNext]_<<relay_vars, tokens, part>>

MCSymmetry == Permutations(Conns) \cup Permutations(ClientIds)
              \cup Permutations(LobbyIds) \cup Permutations(Generations)

\* Bound of the run: two identities send and are named in messages, a third one
\* registers only where the tokens move.
Named ==
  {own[c].client_id : c \in {d \in Conns : own[d] # None}}
    \cup UNION {{msg[c].from, msg[c].to} : c \in {d \in Conns : msg[d] # None}}

\* TokenDelivery does not look at generations, and one will do for it.
Present == {member[id].generation : id \in {i \in ClientIds : member[i] # None}}

MCBounds ==
  /\ part = "relay" => Cardinality(Named) <= 2
  /\ part = "tokens" => Cardinality(Present) <= 1
=============================================================================
