----------------------------- MODULE MCStreamTurn -----------------------------
(* Small instances of StreamTurn: two indices, two tool-call ids.           *)
EXTENDS TurnRefinement, TLC

CONSTANTS c1, c2, i1, i2, n, prompt, completion

(* No provider should report a negative count; the turn starts from zero.   *)
MCCounts == {-1, 0, 1, 2}

Use(p, c) == [f \in {prompt, completion} |-> IF f = prompt THEN p ELSE c]

Shape(r, x, cs, u) == [reasoning |-> r, text |-> x, calls |-> cs, usage |-> u]
F(index, id, name, args) == [index |-> index, id |-> id, name |-> name, args |-> args]

(* Chunks without tool calls: empty, reasoning, text, both.                 *)
Contents == {Shape(FALSE, FALSE, <<>>, NoUsage), Shape(TRUE, FALSE, <<>>, Use(1, 2)),
             Shape(FALSE, TRUE, <<>>, Use(2, -1)), Shape(TRUE, TRUE, <<>>, NoUsage)}

(* Chunks of fragments only, closed under exchanging the two indices or the *)
(* two ids: one fragment by index alone, by index and id, or by id alone,   *)
(* with and without the name and arguments, one to be skipped, and two      *)
(* fragments of one call.                                                   *)
Only(fs) == Shape(FALSE, FALSE, fs, NoUsage)
Single ==
    {F(x, id, m, TRUE) : x \in {i1, i2}, id \in {NoID, c1, c2}, m \in {NoName, n}}
        \cup {F(x, NoID, n, FALSE) : x \in {i1, i2}}
        \cup {F(NoIndex, id, m, TRUE) : id \in {c1, c2}, m \in {NoName, n}}
        \cup {F(NoIndex, NoID, n, TRUE)}
Double ==
    {<<F(x, NoID, NoName, TRUE), F(x, id, n, TRUE)>> : x \in {i1, i2}, id \in {c1, c2}}

(* Fragments in the chunk of some text or reasoning.                        *)
Mixed == {Shape(FALSE, TRUE, <<F(x, NoID, n, TRUE)>>, NoUsage) : x \in {i1, i2}}
             \cup {Shape(TRUE, TRUE, <<F(NoIndex, id, n, TRUE)>>, NoUsage) : id \in {c1, c2}}

MCChunks == Contents \cup Mixed \cup {Only(<<f>>) : f \in Single} \cup {Only(fs) : fs \in Double}

(* A few shapes for the runs with faults, and for calls that resume.        *)
MCFewChunks ==
    Contents \cup {Only(<<F(i1, NoID, n, TRUE)>>), Only(<<F(i1, c1, NoName, TRUE)>>),
                   Only(<<F(i1, c1, n, TRUE), F(i2, c2, n, FALSE)>>),
                   Shape(FALSE, TRUE, <<F(i1, c2, n, TRUE)>>, Use(0, 1))}

MCTokens == (1..MaxChunks) \X (0..2)

Symmetry == Permutations({c1, c2}) \cup Permutations({i1, i2})

Written(k) == [i \in 1..k |-> "written"]
NoFault == {<<>>}
Breaks  == {<<>>} \cup {Append(Written(k), "broken") : k \in 0..6}
Faults  == {<<>>} \cup {Append(Written(k), o) : k \in 0..7, o \in {"rejected", "broken"}}
=============================================================================
