---------------------------- MODULE TurnRefinement ----------------------------
(***************************************************************************)
(* StreamTurn implements TurnLog.  The open message is the text or the     *)
(* reasoning block; a block is forgotten as soon as the client is gone,    *)
(* which the code does later, in closeBlocks.                              *)
(***************************************************************************)
EXTENDS TurnProperties

NoOpenMessage == [id |-> 0, role |-> "none", content |-> <<>>, calls |-> <<>>]

OpenMessage ==
    IF em.err THEN NoOpenMessage
    ELSE IF text.open THEN Plain(text.id, "assistant", text.content)
    ELSE IF reasoning.open THEN Plain(reasoning.id, "reasoning", reasoning.content)
    ELSE NoOpenMessage

TurnState == IF pc = "done" THEN "returned" ELSE IF em.err THEN "lost" ELSE "running"

Log == INSTANCE TurnLog WITH
           Pieces   <- Tokens,
           open     <- OpenMessage,
           log      <- wireMessages,
           used     <- nextID - 1,
           owner    <- owner.index,
           state    <- TurnState,
           complete <- result.returned /\ ~result.partial

(* The turn behaves like the log of TurnLog, through every switch of block, *)
(* lost frame, cancellation and error: one message at a time, ids in order, *)
(* nothing logged after the client is lost or the turn returned, one owner, *)
(* and no complete result without a client.                                 *)
ImplementsTurnLog == Log!Spec
=============================================================================
