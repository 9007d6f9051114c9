--------------------------- MODULE MCRegistration ---------------------------
(***************************************************************************)
(* The registration for TLC: two providers publish a service of two        *)
(* methods, and one of them another service of one method.                 *)
(***************************************************************************)
EXTENDS Registration, TLC

CONSTANTS p1, p2, User, Friend, Login, Register, GetFriends

MCProviders == {p1, p2}

MCServices == {User, Friend}

MCMethods == {Login, Register, GetFriends}

MCServiceOf == Login :> User @@ Register :> User @@ GetFriends :> Friend

MCOffers == p1 :> {User} @@ p2 :> {User, Friend}

=============================================================================
