----------------------------- MODULE EmitterSpec -----------------------------
(***************************************************************************)
(* One emitter driven by a caller that may call any exported helper, in    *)
(* any order and with any of the given ids, until the wire holds MaxFrames *)
(* frames.  The wire properties hold whatever the caller does: they are    *)
(* what the emitter itself promises.                                       *)
(***************************************************************************)
EXTENDS WireProperties

CONSTANTS
    Scripts,      \* what the SSE writer may do, as outcomes in order
    CallerIDs,    \* the message ids the caller passes, NoMessage among them
    MaxFrames     \* checker bound: no helper is called on a longer wire

ASSUME ScriptsAssumption   == Scripts \subseteq Seq(Outcomes)
ASSUME CallerIDsAssumption == CallerIDs \subseteq Nat
ASSUME MaxFramesAssumption == MaxFrames \in Nat

VARIABLE em    \* the emitter

Init == em \in {NewEmitter(s) : s \in Scripts}

CanCall == Len(em.wire) < MaxFrames

CallerDelta == Tokens \cup {NoDelta}

DoSendEvent == CanCall /\ em' = SendEvent(em)
DoSendPatch == CanCall /\ \E empty \in BOOLEAN : em' = SendPatch(em, empty)
DoEmitNil == CanCall /\ em' = EmitNil(em)

DoTextStart   == CanCall /\ \E id \in CallerIDs : em' = TextStart(em, id)
DoTextContent == CanCall /\ \E id \in CallerIDs, d \in CallerDelta : em' = TextContent(em, id, d)
DoTextEnd     == CanCall /\ \E id \in CallerIDs : em' = TextEnd(em, id)

DoReasoningStart        == CanCall /\ \E id \in CallerIDs : em' = ReasoningStart(em, id)
DoReasoningMessageStart == CanCall /\ \E id \in CallerIDs : em' = ReasoningMessageStart(em, id)
DoReasoningContent ==
    CanCall /\ \E id \in CallerIDs, d \in CallerDelta : em' = ReasoningContent(em, id, d)
DoReasoningMessageEnd   == CanCall /\ \E id \in CallerIDs : em' = ReasoningMessageEnd(em, id)
DoReasoningEnd          == CanCall /\ \E id \in CallerIDs : em' = ReasoningEnd(em, id)

DoToolStart ==
    CanCall /\ \E c \in ToolID, n \in Name, id \in CallerIDs : em' = ToolStart(em, c, n, id)
DoToolArgs   == CanCall /\ \E c \in ToolID, d \in CallerDelta : em' = ToolArgs(em, c, d)
DoToolEnd    == CanCall /\ \E c \in ToolID : em' = ToolEnd(em, c)
DoToolResult ==
    CanCall /\ \E id \in CallerIDs, c \in ToolID, d \in CallerDelta : em' = ToolResult(em, id, c, d)

Next ==
    \/ DoSendEvent \/ DoSendPatch \/ DoEmitNil
    \/ DoTextStart \/ DoTextContent \/ DoTextEnd
    \/ DoReasoningStart \/ DoReasoningMessageStart \/ DoReasoningContent
    \/ DoReasoningMessageEnd \/ DoReasoningEnd
    \/ DoToolStart \/ DoToolArgs \/ DoToolEnd \/ DoToolResult

Spec == Init /\ [][Next]_em

-----------------------------------------------------------------------------
(* Every field keeps its type: the emitter record and the frames on the     *)
(* wire are well formed after any sequence of helper calls.                 *)
TypeOK == em \in EmitterType

(* One lifecycle per tool call, whatever the caller repeats, reorders or    *)
(* loses to a rejected frame: at most one START, nothing of the call before *)
(* it, and no second END, ARGS or START after its END.                      *)
ToolFramesOrdered == OneLifecycle(em.wire)

(* The emitter's bookkeeping is the wire's history: a call is remembered as *)
(* started (ended) exactly when its START (END) reached the client, so a    *)
(* dropped frame can be retried and a delivered one never is.               *)
BookkeepingMatchesWire == RemembersCalls(em)

(* When no frame was rejected, a tool frame never lands inside the block a  *)
(* helper opened last: text, reasoning message and reasoning are all closed *)
(* before it, including the ones the caller itself forgot to close.         *)
ToolFramesOutsideBlocks == ~em.encErr => ToolsOutsideBlocks(em.wire)

(* A transport failure cancels the run exactly once, however many helpers   *)
(* are called after it.                                                     *)
CancelledOnce == CancelsOnce(em)

(* After a transport failure no helper writes, clears the failure, or       *)
(* cancels again: only the block bookkeeping may still move.                *)
DisconnectIsFinal ==
    [][em.err => em'.err /\ em'.wire = em.wire /\ em'.cancels = em.cancels
                 /\ em'.script = em.script]_em
=============================================================================
