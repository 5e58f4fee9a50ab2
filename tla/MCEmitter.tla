------------------------------ MODULE MCEmitter ------------------------------
(* A small instance of EmitterSpec: two tool calls, two message ids.        *)
EXTENDS EmitterSpec, TLC

CONSTANTS a, b, n, t

MCCallerIDs == {0, 1, 2}
(* The writer works, or rejects or breaks at one of the first four events. *)
Written(k) == [i \in 1..k |-> "written"]
MCScripts ==
    {<<>>} \cup {Append(Written(k), o) : k \in 0..3, o \in {"rejected", "broken"}}

Symmetry == Permutations({a, b})
=============================================================================
