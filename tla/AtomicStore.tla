----------------------------- MODULE AtomicStore -----------------------------
(***************************************************************************)
(* What a database promises of transactions: each takes effect at once and *)
(* as a whole, or not at all, whatever else happens meanwhile.             *)
(***************************************************************************)
EXTENDS Naturals

CONSTANTS Txs, MaxWrites

VARIABLES store, outcome

Init ==
    /\ store = {}
    /\ outcome = [t \in Txs |-> "none"]

Commit(t) ==
    /\ outcome[t] = "none"
    /\ \E n \in 0..MaxWrites : store' = store \cup ({t} \X (1..n))
    /\ outcome' = [outcome EXCEPT ![t] = "done"]

(* A crash ends several transactions at once. *)
Abort(S) ==
    /\ \A t \in S : outcome[t] = "none"
    /\ outcome' = [t \in Txs |-> IF t \in S THEN "failed" ELSE outcome[t]]
    /\ UNCHANGED store

Next == (\E t \in Txs : Commit(t)) \/ (\E S \in SUBSET Txs : Abort(S))

Spec == Init /\ [][Next]_<<store, outcome>>
=============================================================================
