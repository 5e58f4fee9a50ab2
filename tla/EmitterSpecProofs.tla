-------------------------- MODULE EmitterSpecProofs --------------------------
(***************************************************************************)
(* The theorems of EmitterSpec: whatever a caller does with an emitter,    *)
(* and whatever the SSE writer does with the events, the emitter's tool    *)
(* lifecycles, its bookkeeping, its separation of tool frames from blocks, *)
(* and its reaction to a disconnect hold.                                  *)
(***************************************************************************)
EXTENDS EmitterSpec, EmitterProofs

LEMMA FreshEmitter ==
    ASSUME NEW script \in Seq(Outcomes)
    PROVE  EmitterInv(NewEmitter(script))
  BY DEF EmitterInv, NewEmitter, EmitterType, OneLifecycle, RemembersCalls, CancelsOnce, NoMessage

LEMMA InitInv == Init => EmitterInv(em)
  BY FreshEmitter, ScriptsAssumption DEF Init

LEMMA StepInv == EmitterInv(em) /\ [Next]_em => EmitterInv(em')
<1> SUFFICES ASSUME EmitterInv(em), [Next]_em PROVE EmitterInv(em')
  OBVIOUS
<1>1. CallerIDs \subseteq Nat /\ CallerDelta \subseteq Delta
  BY CallerIDsAssumption DEF CallerDelta, Delta
<1>2. CASE DoSendEvent
  BY <1>2, OtherHelpers DEF DoSendEvent
<1>3. CASE DoSendPatch
  BY <1>3, OtherHelpers DEF DoSendPatch
<1>4. CASE DoEmitNil
  BY <1>4, OtherHelpers DEF DoEmitNil
<1>5. CASE DoTextStart
  BY <1>1, <1>5, BlockHelpers, NoDeltaType DEF DoTextStart
<1>6. CASE DoTextContent
  BY <1>1, <1>6, BlockHelpers DEF DoTextContent
<1>7. CASE DoTextEnd
  BY <1>1, <1>7, BlockHelpers, NoDeltaType DEF DoTextEnd
<1>8. CASE DoReasoningStart
  BY <1>1, <1>8, BlockHelpers, NoDeltaType DEF DoReasoningStart
<1>9. CASE DoReasoningMessageStart
  BY <1>1, <1>9, BlockHelpers, NoDeltaType DEF DoReasoningMessageStart
<1>10. CASE DoReasoningContent
  BY <1>1, <1>10, BlockHelpers DEF DoReasoningContent
<1>11. CASE DoReasoningMessageEnd
  BY <1>1, <1>11, BlockHelpers, NoDeltaType DEF DoReasoningMessageEnd
<1>12. CASE DoReasoningEnd
  BY <1>1, <1>12, BlockHelpers, NoDeltaType DEF DoReasoningEnd
<1>13. CASE DoToolStart
  BY <1>1, <1>13, ToolStartKeepsInv DEF DoToolStart
<1>14. CASE DoToolArgs
  BY <1>1, <1>14, ToolArgsKeepsInv DEF DoToolArgs
<1>15. CASE DoToolEnd
  BY <1>15, ToolEndKeepsInv DEF DoToolEnd
<1>16. CASE DoToolResult
  BY <1>1, <1>16, ToolResultKeepsInv DEF DoToolResult
<1>17. CASE UNCHANGED em
  BY <1>17
<1> QED
  BY <1>2, <1>3, <1>4, <1>5, <1>6, <1>7, <1>8, <1>9, <1>10, <1>11, <1>12, <1>13, <1>14, <1>15,
     <1>16, <1>17 DEF Next

LEMMA EmitterInvariant == Spec => []EmitterInv(em)
<1>1. Init => EmitterInv(em)
  BY InitInv
<1>2. EmitterInv(em) /\ [Next]_em => EmitterInv(em)'
  BY StepInv
<1> QED
  BY <1>1, <1>2, PTL DEF Spec

(* An emitter and its wire stay well formed (emitter.go, struct Emitter).   *)
THEOREM TypeCorrect == Spec => []TypeOK
<1>1. EmitterInv(em) => TypeOK
  BY DEF EmitterInv, TypeOK
<1> QED
  BY <1>1, EmitterInvariant, PTL

(* One START, then ARGS, then one END for every call id, for all callers    *)
(* and all writers (ToolStart, ToolArgs, ToolEnd).                          *)
THEOREM LifecyclesOrdered == Spec => []ToolFramesOrdered
<1>1. EmitterInv(em) => ToolFramesOrdered
  BY DEF EmitterInv, ToolFramesOrdered
<1> QED
  BY <1>1, EmitterInvariant, PTL

(* What the emitter remembers of the calls is what the client received.     *)
THEOREM BookkeepingCorrect == Spec => []BookkeepingMatchesWire
<1>1. EmitterInv(em) => BookkeepingMatchesWire
  BY DEF EmitterInv, BookkeepingMatchesWire
<1> QED
  BY <1>1, EmitterInvariant, PTL

(* The run is cancelled exactly once, and only by a transport failure.      *)
THEOREM CancelledOnceOnly == Spec => []CancelledOnce
<1>1. EmitterInv(em) => CancelledOnce
  BY DEF EmitterInv, CancelledOnce
<1> QED
  BY <1>1, EmitterInvariant, PTL

-----------------------------------------------------------------------------
(* After a transport failure: helpers only touch the block bookkeeping. *)

Frozen(e, f) ==
    f.err /\ f.wire = e.wire /\ f.cancels = e.cancels /\ f.script = e.script

LEMMA EmitFrozen ==
    ASSUME NEW e \in EmitterType, e.err, NEW frame
    PROVE  Emit(e, frame) = e /\ ~Wrote(e, frame)
  BY DEF Emit, Wrote

LEMMA CloseFrozen ==
    ASSUME NEW e \in EmitterType, e.err
    PROVE  Frozen(e, CloseOpenBlocks(e)) /\ CloseOpenBlocks(e) \in EmitterType
<1> DEFINE t == CloseOpenText(e)
           m == CloseOpenReasoningMessage(t)
           r == CloseOpenReasoning(m)
<1>1. t \in EmitterType /\ Frozen(e, t)
  BY DEF CloseOpenText, Emit, Frozen, EmitterType, NoMessage
<1> HIDE DEF t
<1>2. m \in EmitterType /\ Frozen(t, m)
  BY <1>1 DEF CloseOpenReasoningMessage, Emit, Frozen, EmitterType, NoMessage
<1> HIDE DEF m
<1>3. r \in EmitterType /\ Frozen(m, r)
  BY <1>1, <1>2 DEF CloseOpenReasoning, Emit, Frozen, EmitterType, NoMessage
<1> HIDE DEF r
<1>4. r \in EmitterType /\ Frozen(e, r)
  BY <1>1, <1>2, <1>3 DEF Frozen
<1> QED
  BY <1>4 DEF CloseOpenBlocks, r, m, t

LEMMA BlocksFrozen ==
    ASSUME NEW e \in EmitterType, e.err, NEW id, NEW delta
    PROVE  /\ Frozen(e, TextStart(e, id)) /\ Frozen(e, TextContent(e, id, delta))
           /\ Frozen(e, TextEnd(e, id)) /\ Frozen(e, ReasoningStart(e, id))
           /\ Frozen(e, ReasoningMessageStart(e, id)) /\ Frozen(e, ReasoningContent(e, id, delta))
           /\ Frozen(e, ReasoningMessageEnd(e, id)) /\ Frozen(e, ReasoningEnd(e, id))
<1>1. \A frame : Emit(e, frame) = e /\ ~Wrote(e, frame)
  BY EmitFrozen
<1>2. Frozen(e, e)
  BY DEF Frozen
<1>3. /\ Frozen(e, [e EXCEPT !.openTextID = NoMessage])
      /\ Frozen(e, [e EXCEPT !.openReasoningID = NoMessage])
      /\ Frozen(e, [e EXCEPT !.openReasoningMessageID = NoMessage])
  BY DEF Frozen, EmitterType
<1>4. Frozen(e, TextStart(e, id)) /\ Frozen(e, TextContent(e, id, delta))
  BY <1>1, <1>2 DEF TextStart, TextContent
<1>5. Frozen(e, ReasoningStart(e, id)) /\ Frozen(e, ReasoningContent(e, id, delta))
      /\ Frozen(e, ReasoningMessageStart(e, id))
  BY <1>1, <1>2 DEF ReasoningStart, ReasoningContent, ReasoningMessageStart
<1>6. Frozen(e, TextEnd(e, id))
  BY <1>1, <1>2, <1>3 DEF TextEnd
<1>7. Frozen(e, ReasoningMessageEnd(e, id))
  BY <1>1, <1>2, <1>3 DEF ReasoningMessageEnd
<1>8. Frozen(e, ReasoningEnd(e, id))
  BY <1>1, <1>2, <1>3 DEF ReasoningEnd
<1> QED
  BY <1>4, <1>5, <1>6, <1>7, <1>8

LEMMA ToolsFrozen ==
    ASSUME NEW e \in EmitterType, e.err, NEW msg, NEW call, NEW name, NEW delta
    PROVE  /\ Frozen(e, ToolStart(e, call, name, msg)) /\ Frozen(e, ToolArgs(e, call, delta))
           /\ Frozen(e, ToolEnd(e, call)) /\ Frozen(e, ToolResult(e, msg, call, delta))
<1> DEFINE closed == CloseOpenBlocks(e)
<1>1. closed \in EmitterType /\ closed.err /\ Frozen(e, closed)
  BY CloseFrozen DEF Frozen
<1>2. \A frame : Emit(closed, frame) = closed /\ ~Wrote(closed, frame)
  BY <1>1, EmitFrozen
<1>3. Frozen(e, e)
  BY DEF Frozen
<1>4. Frozen(e, ToolStart(e, call, name, msg))
  BY <1>1, <1>2, <1>3 DEF ToolStart
<1>5. Frozen(e, ToolArgs(e, call, delta)) /\ Frozen(e, ToolResult(e, msg, call, delta))
  BY <1>1, <1>2, <1>3 DEF ToolArgs, ToolResult
<1>6. Frozen(e, ToolEnd(e, call))
  BY <1>1, <1>2, <1>3 DEF ToolEnd
<1> QED
  BY <1>4, <1>5, <1>6

LEMMA StepFrozen ==
    ASSUME em \in EmitterType, em.err, [Next]_em
    PROVE  Frozen(em, em')
<1>1. CASE DoSendEvent \/ DoSendPatch \/ DoEmitNil
  BY <1>1 DEF DoSendEvent, DoSendPatch, DoEmitNil, SendEvent, SendPatch, EmitNil, Emit, Frozen
<1>2. CASE DoTextStart \/ DoTextContent \/ DoTextEnd
  BY <1>2, BlocksFrozen DEF DoTextStart, DoTextContent, DoTextEnd
<1>3. CASE DoReasoningStart \/ DoReasoningMessageStart \/ DoReasoningContent
  BY <1>3, BlocksFrozen DEF DoReasoningStart, DoReasoningMessageStart, DoReasoningContent
<1>4. CASE DoReasoningMessageEnd \/ DoReasoningEnd
  BY <1>4, BlocksFrozen DEF DoReasoningMessageEnd, DoReasoningEnd
<1>5. CASE DoToolStart \/ DoToolArgs \/ DoToolEnd \/ DoToolResult
  BY <1>5, ToolsFrozen DEF DoToolStart, DoToolArgs, DoToolEnd, DoToolResult
<1>6. CASE UNCHANGED em
  BY <1>6 DEF Frozen
<1> QED
  BY <1>1, <1>2, <1>3, <1>4, <1>5, <1>6 DEF Next

(* After a transport failure nothing more is written, nothing is cancelled  *)
(* again, and the failure is not forgotten (Emit).                          *)
THEOREM DisconnectFinal == Spec => DisconnectIsFinal
<1>1. EmitterInv(em) /\ [Next]_em =>
        [em.err => em'.err /\ em'.wire = em.wire /\ em'.cancels = em.cancels
                   /\ em'.script = em.script]_em
  BY StepFrozen DEF EmitterInv, Frozen
<1> QED
  BY <1>1, EmitterInvariant, PTL DEF Spec, DisconnectIsFinal

-----------------------------------------------------------------------------
(* Blocks. *)

LEMMA BlockInit == Init => BlockInv(em)
  BY FreshBlocks, ScriptsAssumption DEF Init

LEMMA BlockStep == BlockInv(em) /\ [Next]_em => BlockInv(em')
<1> SUFFICES ASSUME BlockInv(em), [Next]_em PROVE BlockInv(em')
  OBVIOUS
<1>1. CallerIDs \subseteq Nat /\ CallerDelta \subseteq Delta
  BY CallerIDsAssumption DEF CallerDelta, Delta
<1>2. CASE DoSendEvent
  BY <1>2, OtherBlocks DEF DoSendEvent
<1>3. CASE DoSendPatch
  BY <1>3, OtherBlocks DEF DoSendPatch
<1>4. CASE DoEmitNil
  BY <1>4, OtherBlocks DEF DoEmitNil
<1>5. CASE DoTextStart
  BY <1>1, <1>5, TextStartBlocks DEF DoTextStart
<1>6. CASE DoTextContent
  BY <1>1, <1>6, ContentBlocks DEF DoTextContent
<1>7. CASE DoTextEnd
  BY <1>1, <1>7, TextEndBlocks DEF DoTextEnd
<1>8. CASE DoReasoningStart
  BY <1>1, <1>8, ReasoningStartBlocks DEF DoReasoningStart
<1>9. CASE DoReasoningMessageStart
  BY <1>1, <1>9, ReasoningMessageStartBlocks DEF DoReasoningMessageStart
<1>10. CASE DoReasoningContent
  BY <1>1, <1>10, ContentBlocks DEF DoReasoningContent
<1>11. CASE DoReasoningMessageEnd
  BY <1>1, <1>11, ReasoningMessageEndBlocks DEF DoReasoningMessageEnd
<1>12. CASE DoReasoningEnd
  BY <1>1, <1>12, ReasoningEndBlocks DEF DoReasoningEnd
<1>13. CASE DoToolStart
  BY <1>1, <1>13, ToolBlocks, NoDeltaType DEF DoToolStart
<1>14. CASE DoToolArgs
  <2>1. NoName \in Name /\ NoMessage \in Nat
    BY NoDeltaType DEF Name
  <2> QED
    BY <1>1, <1>14, <2>1, ToolBlocks DEF DoToolArgs
<1>15. CASE DoToolEnd
  <2>1. NoName \in Name /\ NoMessage \in Nat /\ NoDelta \in Delta
    BY NoDeltaType DEF Name
  <2> QED
    BY <1>15, <2>1, ToolBlocks DEF DoToolEnd
<1>16. CASE DoToolResult
  <2>1. NoName \in Name
    BY DEF Name
  <2> QED
    BY <1>1, <1>16, <2>1, ToolBlocks DEF DoToolResult
<1>17. CASE UNCHANGED em
  BY <1>17
<1> QED
  BY <1>2, <1>3, <1>4, <1>5, <1>6, <1>7, <1>8, <1>9, <1>10, <1>11, <1>12, <1>13, <1>14, <1>15,
     <1>16, <1>17 DEF Next

(* While no frame was rejected, no tool frame lands inside the block a      *)
(* helper opened last, whatever the caller forgot to close                  *)
(* (closeOpenBlocks).                                                       *)
THEOREM ToolsStayOutside == Spec => []ToolFramesOutsideBlocks
<1>1. Init => BlockInv(em)
  BY BlockInit
<1>2. BlockInv(em) /\ [Next]_em => BlockInv(em)'
  BY BlockStep
<1>3. BlockInv(em) => ToolFramesOutsideBlocks
  BY DEF BlockInv, WireInv, ToolFramesOutsideBlocks
<1> QED
  BY <1>1, <1>2, <1>3, PTL DEF Spec
=============================================================================
