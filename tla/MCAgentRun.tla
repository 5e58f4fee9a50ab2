------------------------------ MODULE MCAgentRun ------------------------------
(* Small runs: two turns of up to two chunks, a server and a client tool.   *)
EXTENDS AgentRun

CONSTANTS c1, c2, i1, i2, here, there, prompt

F(index, id, name, args) == [index |-> index, id |-> id, name |-> name, args |-> args]
Shape(r, x, cs) == [reasoning |-> r, text |-> x, calls |-> cs, usage |-> NoUsage]

(* Text, a call in one piece, a call whose name or arguments come in        *)
(* another chunk, two calls, and a text that opens the calls.               *)
MCChunks ==
    {Shape(FALSE, TRUE, <<>>), Shape(TRUE, FALSE, <<>>),
     Shape(FALSE, FALSE, <<F(i1, c1, here, TRUE)>>),
     Shape(FALSE, FALSE, <<F(i1, c1, NoName, TRUE), F(i1, NoID, here, TRUE)>>),
     Shape(FALSE, FALSE, <<F(i1, NoID, NoName, TRUE)>>),
     Shape(FALSE, FALSE, <<F(i1, c2, here, FALSE), F(i2, c1, here, TRUE)>>),
     Shape(FALSE, TRUE, <<F(i2, c2, there, TRUE)>>),
     Shape(FALSE, FALSE, <<F(NoIndex, c1, there, TRUE)>>)}

MCTokens == (1..MaxChunks) \X (0..2)

Written(k) == [i \in 1..k |-> "written"]
MCScripts == {<<>>} \cup {Append(Written(k), "broken") : k \in 0..12} \cup {<<"rejected">>}
=============================================================================
