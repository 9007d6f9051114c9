---------------------------- MODULE MCRpcChannel ----------------------------
(***************************************************************************)
(* Calls for TLC: two methods on two nodes.  With MCOffers the provider on *)
(* n2 lacks m1, to which a caller may still come: m1 was registered on n2  *)
(* by a provider that has been replaced, and its ephemeral node is still   *)
(* there or its address still cached.  Threads and descriptors are only    *)
(* compared for equality.                                                  *)
(***************************************************************************)
EXTENDS KopiRpcChannel, TLC

CONSTANTS n1, n2, m1, m2

MCNodes == {n1, n2}

MCMethods == {m1, m2}

MCRegistered == m1 :> n1 @@ m2 :> n2

MCOffers == n1 :> {m1, m2} @@ n2 :> {m2}

MCOffersAll == [n \in MCNodes |-> MCMethods]

Symmetry == Permutations(Threads) \union Permutations(Fds)

=============================================================================
