----------------------------- MODULE SingleUse -----------------------------
(***************************************************************************)
(* What a verifier that keeps replay state promises, with no file, lock or *)
(* process in sight: a challenge is spent before access is granted for it, *)
(* stays spent, and is granted to one invocation at most.                  *)
(***************************************************************************)
CONSTANTS Invocations, Challenges

VARIABLES
    spent,      \* challenges that will never be accepted again
    granted     \* pairs <<invocation, challenge>> answered with access

vars == <<spent, granted>>

Init ==
    /\ spent = {}
    /\ granted = {}

Spend(c) ==
    /\ c \notin spent
    /\ spent' = spent \cup {c}
    /\ UNCHANGED granted

Grant(i, c) ==
    /\ c \in spent
    /\ \A j \in Invocations : <<j, c>> \notin granted
    /\ granted' = granted \cup {<<i, c>>}
    /\ UNCHANGED spent

Next ==
    \E c \in Challenges :
        \/ Spend(c)
        \/ \E i \in Invocations : Grant(i, c)

Spec == Init /\ [][Next]_vars
=============================================================================
