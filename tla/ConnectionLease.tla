--------------------------- MODULE ConnectionLease ---------------------------
(***************************************************************************)
(* What the connection pool promises, without queues, counters, locks or   *)
(* condition variables: a thread asks for a node and is lent an existing   *)
(* connection of that node nobody else has, or a new one as long as fewer  *)
(* than Limit are open, or is refused; it gives the connection back to be  *)
(* lent again, or has it closed.                                           *)
(***************************************************************************)
EXTENDS Naturals, FiniteSets

CONSTANTS Threads, Nodes, Fds, Limit, NoNode

VARIABLES
    peer,     \* peer[f]: the node connection f is open to, or NoNode
    wants,    \* wants[t]: the node t asked for and is not done with
    lessees   \* lessees[f]: who has f; never more than one thread

vars == <<peer, wants, lessees>>

Leases(t) == {f \in Fds : t \in lessees[f]}

Init ==
    /\ peer = [f \in Fds |-> NoNode]
    /\ wants = [t \in Threads |-> NoNode]
    /\ lessees = [f \in Fds |-> {}]

Ask(t, n) ==
    /\ wants[t] = NoNode
    /\ wants' = [wants EXCEPT ![t] = n]
    /\ UNCHANGED <<peer, lessees>>

Refuse(t) ==
    /\ wants[t] # NoNode
    /\ Leases(t) = {}
    /\ wants' = [wants EXCEPT ![t] = NoNode]
    /\ UNCHANGED <<peer, lessees>>

(* Lend t a connection of its node that nobody has.                        *)
Lend(t, f) ==
    /\ wants[t] # NoNode
    /\ Leases(t) = {}
    /\ lessees[f] = {}
    /\ peer[f] = wants[t]
    /\ lessees' = [lessees EXCEPT ![f] = {t}]
    /\ UNCHANGED <<peer, wants>>

(* Open a new connection for t while the node has fewer than Limit.        *)
Open(t, f) ==
    /\ wants[t] # NoNode
    /\ Leases(t) = {}
    /\ peer[f] = NoNode
    /\ lessees[f] = {}
    /\ Cardinality({g \in Fds : peer[g] = wants[t]}) < Limit
    /\ peer' = [peer EXCEPT ![f] = wants[t]]
    /\ lessees' = [lessees EXCEPT ![f] = {t}]
    /\ UNCHANGED wants

(* t gives the connection back to be lent again.                           *)
GiveBack(t, f) ==
    /\ lessees[f] = {t}
    /\ lessees' = [lessees EXCEPT ![f] = {}]
    /\ wants' = [wants EXCEPT ![t] = NoNode]
    /\ UNCHANGED peer

(* t's connection is closed: it could not be made, and t still waits for   *)
(* an answer, or t gave it back as bad.                                    *)
Close(t, f) ==
    /\ lessees[f] = {t}
    /\ lessees' = [lessees EXCEPT ![f] = {}]
    /\ peer' = [peer EXCEPT ![f] = NoNode]
    /\ wants' \in {wants, [wants EXCEPT ![t] = NoNode]}

(* With no connection lent, everything is closed.                          *)
CloseAll ==
    /\ \A f \in Fds : lessees[f] = {}
    /\ peer' = [f \in Fds |-> NoNode]
    /\ UNCHANGED <<wants, lessees>>

Next ==
    \/ \E t \in Threads :
          \/ \E n \in Nodes : Ask(t, n)
          \/ Refuse(t)
          \/ \E f \in Fds : Lend(t, f) \/ Open(t, f) \/ GiveBack(t, f) \/ Close(t, f)
    \/ CloseAll

Spec == Init /\ [][Next]_vars

=============================================================================
