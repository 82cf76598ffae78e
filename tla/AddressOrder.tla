---------------------------- MODULE AddressOrder ----------------------------
(***************************************************************************)
(* Both halves of pg_init go through memory from low addresses to high     *)
(* ones and append what they find to an array or a list.                   *)
(***************************************************************************)
EXTENDS Naturals, FiniteSets

InAddressOrder(S) ==
  [k \in 1..Cardinality(S) |-> CHOOSE i \in S : Cardinality({j \in S : j <= i}) = k]
=============================================================================
