---------------------------- MODULE AccessLedger ----------------------------
(***************************************************************************)
(* What the on-chain gate promises, with no proof, nonce or transaction in *)
(* sight: one policy, chosen once, and a ledger to which badge accounts    *)
(* are appended one at a time, each at most once.                          *)
(***************************************************************************)
EXTENDS Naturals, Sequences

CONSTANTS Accounts, Policies, MaxEntries

VARIABLES
    policy,     \* None before the gate opens, then the set of one policy
    ledger      \* badge accounts in the order of their claim numbers

vars == <<policy, ledger>>

Init ==
    /\ policy = {}
    /\ ledger = << >>

Open ==
    /\ policy = {}
    /\ \E p \in Policies : policy' = {p}
    /\ UNCHANGED ledger

Admit ==
    /\ policy # {}
    /\ Len(ledger) < MaxEntries
    /\ \E a \in Accounts :
         /\ \A n \in 1 .. Len(ledger) : ledger[n] # a
         /\ ledger' = Append(ledger, a)
    /\ UNCHANGED policy

Next == Open \/ Admit

Spec == Init /\ [][Next]_vars
=============================================================================
