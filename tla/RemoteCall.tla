----------------------------- MODULE RemoteCall -----------------------------
(***************************************************************************)
(* What a remote call promises, without addresses, connections or frames:  *)
(* it fails, or it returns the result of its own execution; it is executed *)
(* at most once, and not at all after it has returned.                     *)
(***************************************************************************)
EXTENDS Naturals

CONSTANTS Threads, MaxCalls

VARIABLES
    calls,     \* calls made so far
    current,   \* current[t]: the call t waits for, or 0
    executed,  \* executed[c]: how often call c was executed
    got        \* got[t]: the call whose result t has, or 0

vars == <<calls, current, executed, got>>

Init ==
    /\ calls = 0
    /\ current = [t \in Threads |-> 0]
    /\ executed = [c \in 1..MaxCalls |-> 0]
    /\ got = [t \in Threads |-> 0]

Invoke(t) ==
    /\ current[t] = 0
    /\ calls < MaxCalls
    /\ calls' = calls + 1
    /\ current' = [current EXCEPT ![t] = calls + 1]
    /\ got' = [got EXCEPT ![t] = 0]
    /\ UNCHANGED executed

Execute(c) ==
    /\ \E t \in Threads : current[t] = c
    /\ executed[c] = 0
    /\ executed' = [executed EXCEPT ![c] = 1]
    /\ UNCHANGED <<calls, current, got>>

Return(t) ==
    /\ current[t] # 0
    /\ executed[current[t]] = 1
    /\ got' = [got EXCEPT ![t] = current[t]]
    /\ current' = [current EXCEPT ![t] = 0]
    /\ UNCHANGED <<calls, executed>>

Fail(t) ==
    /\ current[t] # 0
    /\ current' = [current EXCEPT ![t] = 0]
    /\ UNCHANGED <<calls, executed, got>>

Next ==
    \/ \E t \in Threads : Invoke(t) \/ Return(t) \/ Fail(t)
    \/ \E c \in 1..MaxCalls : Execute(c)

Spec == Init /\ [][Next]_vars

=============================================================================
