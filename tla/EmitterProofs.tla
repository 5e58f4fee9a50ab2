---------------------------- MODULE EmitterProofs ----------------------------
(***************************************************************************)
(* Lemmas about the emitter's operators, for every value of the constants: *)
(* what each helper keeps true of an emitter and its wire.  They are       *)
(* stated of a record, so that EmitterSpecProofs can use them for the      *)
(* emitter alone and a composed module for the emitter it drives.          *)
(*                                                                         *)
(* Three predicates grow on each other: EmitterInv holds of any caller,    *)
(* BlockInv relates the ids remembered to the blocks on a wire that lost   *)
(* no frame, and WireOK adds what a caller earns that starts a block only  *)
(* where none is open.                                                     *)
(***************************************************************************)
EXTENDS WireProperties, TLAPS

(***************************************************************************)
(* The inductive part: types, one lifecycle per call, and the bookkeeping  *)
(* the guards of ToolStart, ToolArgs and ToolEnd rely on.  The lifecycles  *)
(* alone are not inductive: a guard reads startedToolCalls, not the wire.  *)
(***************************************************************************)
EmitterInv(e) ==
    /\ e \in EmitterType
    /\ OneLifecycle(e.wire)
    /\ RemembersCalls(e)
    /\ CancelsOnce(e)

(* A frame that is no START, ARGS or END of a tool call.                    *)
Neutral(frame) == frame \in Frames /\ frame.type \notin CallTypes

-----------------------------------------------------------------------------
(* Emit returns an emitter, and only appends the frame to the wire.         *)
LEMMA EmitType ==
    ASSUME NEW e \in EmitterType, NEW frame \in Frames
    PROVE  Emit(e, frame) \in EmitterType
<1>1. CASE e.err
  BY <1>1 DEF Emit
<1>2. CASE ~e.err
  <2>1. WriteEvent(e, frame) \in Outcomes
    BY DEF WriteEvent, EmitterType, Outcomes
  <2>2. RestOfScript(e, frame) \in Seq(Outcomes)
    BY DEF RestOfScript, EmitterType
  <2>3. Append(e.wire, frame) \in Seq(Frames)
    BY DEF EmitterType
  <2> DEFINE outcome == WriteEvent(e, frame)
             failed  == outcome = "broken"
             encErr  == e.encErr \/ outcome = "rejected"
             cancels == IF outcome = "broken" THEN e.cancels + 1 ELSE e.cancels
             wire    == IF outcome = "written" THEN Append(e.wire, frame) ELSE e.wire
             script  == RestOfScript(e, frame)
  <2>4. failed \in BOOLEAN /\ encErr \in BOOLEAN
    OBVIOUS
  <2>5. cancels \in Nat /\ wire \in Seq(Frames) /\ script \in Seq(Outcomes)
    BY <2>2, <2>3 DEF EmitterType
  <2>6. Emit(e, frame) = [e EXCEPT !.script = script, !.wire = wire, !.err = failed,
                                   !.encErr = encErr, !.cancels = cancels]
    BY <1>2, Zenon DEF Emit
  <2> HIDE DEF failed, encErr, cancels, wire, script
  <2> QED
    BY <2>4, <2>5, <2>6 DEF EmitterType
<1> QED
  BY <1>1, <1>2

LEMMA EmitEffect ==
    ASSUME NEW e \in EmitterType, NEW frame \in Frames
    PROVE  /\ Emit(e, frame).startedToolCalls = e.startedToolCalls
           /\ Emit(e, frame).endedToolCalls = e.endedToolCalls
           /\ Wrote(e, frame) => Emit(e, frame).wire = Append(e.wire, frame)
           /\ ~Wrote(e, frame) => Emit(e, frame).wire = e.wire
           /\ CancelsOnce(e) => CancelsOnce(Emit(e, frame))
<1>1. CASE e.err
  BY <1>1 DEF Emit, Wrote
<1>2. CASE ~e.err
  <2>1. /\ Emit(e, frame).startedToolCalls = e.startedToolCalls
        /\ Emit(e, frame).endedToolCalls = e.endedToolCalls
        /\ Wrote(e, frame) => Emit(e, frame).wire = Append(e.wire, frame)
        /\ ~Wrote(e, frame) => Emit(e, frame).wire = e.wire
    BY <1>2 DEF Emit, Wrote, EmitterType
  <2>2. /\ Emit(e, frame).err <=> WriteEvent(e, frame) = "broken"
        /\ Emit(e, frame).cancels =
             IF WriteEvent(e, frame) = "broken" THEN e.cancels + 1 ELSE e.cancels
    BY <1>2 DEF Emit, EmitterType
  <2>3. CancelsOnce(e) => CancelsOnce(Emit(e, frame))
    BY <1>2, <2>2 DEF CancelsOnce
  <2> QED
    BY <2>1, <2>3
<1> QED
  BY <1>1, <1>2

-----------------------------------------------------------------------------
(* Lifecycles of a longer wire. *)

LEMMA AppendKeepsLifecycles ==
    ASSUME NEW w \in Seq(Frames), OneLifecycle(w), NEW frame \in Frames,
           \A c \in ToolIDs :
             /\ Starts(frame, c) => \A i \in DOMAIN w : ~Starts(w[i], c) /\ ~Ends(w[i], c)
             /\ Feeds(frame, c) \/ Ends(frame, c) =>
                  /\ \E i \in DOMAIN w : Starts(w[i], c)
                  /\ \A i \in DOMAIN w : ~Ends(w[i], c)
    PROVE  OneLifecycle(Append(w, frame))
<1> DEFINE v == Append(w, frame)
<1>1. /\ Len(v) = Len(w) + 1 /\ DOMAIN v = 1..(Len(w) + 1) /\ DOMAIN w = 1..Len(w)
      /\ v[Len(w) + 1] = frame /\ \A i \in 1..Len(w) : v[i] = w[i]
      /\ Len(w) \in Nat
  OBVIOUS
<1> HIDE DEF v
<1>2. SUFFICES ASSUME NEW c \in ToolIDs, NEW j \in DOMAIN v
               PROVE  /\ Starts(v[j], c) => \A i \in 1..(j-1) : ~Starts(v[i], c) /\ ~Ends(v[i], c)
                      /\ Feeds(v[j], c) \/ Ends(v[j], c) =>
                             /\ \E i \in 1..(j-1) : Starts(v[i], c)
                             /\ \A i \in 1..(j-1) : ~Ends(v[i], c)
  BY DEF OneLifecycle, v
<1>3. CASE j \in 1..Len(w)
  <2>1. v[j] = w[j] /\ \A i \in 1..(j-1) : v[i] = w[i]
    BY <1>1, <1>3
  <2>2. j \in DOMAIN w
    BY <1>1, <1>3
  <2> QED
    BY <2>1, <2>2 DEF OneLifecycle
<1>4. CASE j = Len(w) + 1
  <2>1. v[j] = frame /\ 1..(j-1) = DOMAIN w /\ \A i \in 1..(j-1) : v[i] = w[i]
    BY <1>1, <1>4
  <2> QED
    BY <2>1
<1> QED
  BY <1>1, <1>3, <1>4

(* What an appended frame adds to the calls started and ended.              *)
LEMMA AppendStartsEnds ==
    ASSUME NEW w \in Seq(Frames), NEW frame \in Frames, NEW c \in ToolIDs
    PROVE  /\ (\E j \in DOMAIN Append(w, frame) : Starts(Append(w, frame)[j], c))
                <=> (Starts(frame, c) \/ \E j \in DOMAIN w : Starts(w[j], c))
           /\ (\E j \in DOMAIN Append(w, frame) : Ends(Append(w, frame)[j], c))
                <=> (Ends(frame, c) \/ \E j \in DOMAIN w : Ends(w[j], c))
<1> DEFINE v == Append(w, frame)
<1>1. /\ DOMAIN v = 1..(Len(w) + 1) /\ DOMAIN w = 1..Len(w) /\ Len(w) \in Nat
      /\ v[Len(w) + 1] = frame /\ \A i \in 1..Len(w) : v[i] = w[i]
  OBVIOUS
<1> HIDE DEF v
<1>2. DOMAIN v = DOMAIN w \cup {Len(w) + 1}
  BY <1>1
<1> QED
  BY <1>1, <1>2 DEF v

-----------------------------------------------------------------------------
(* Emitting frames. *)

LEMMA EmitNeutral ==
    ASSUME NEW e, EmitterInv(e), NEW frame, Neutral(frame)
    PROVE  EmitterInv(Emit(e, frame))
<1> DEFINE s == Emit(e, frame)
<1>1. e \in EmitterType /\ frame \in Frames /\ e.wire \in Seq(Frames)
  BY DEF EmitterInv, Neutral, EmitterType
<1>2. s \in EmitterType /\ CancelsOnce(s)
  BY <1>1, EmitType, EmitEffect DEF EmitterInv
<1>3. \A c \in ToolIDs : ~Starts(frame, c) /\ ~Feeds(frame, c) /\ ~Ends(frame, c)
  BY DEF Neutral, CallTypes, Starts, Feeds, Ends
<1>4. CASE Wrote(e, frame)
  <2>1. s.wire = Append(e.wire, frame) /\ s.startedToolCalls = e.startedToolCalls
        /\ s.endedToolCalls = e.endedToolCalls
    BY <1>1, <1>4, EmitEffect
  <2>2. OneLifecycle(s.wire)
    BY <1>1, <1>3, <2>1, AppendKeepsLifecycles DEF EmitterInv
  <2>3. RemembersCalls(s)
    BY <1>1, <1>3, <2>1, AppendStartsEnds DEF EmitterInv, RemembersCalls
  <2> QED
    BY <1>2, <2>2, <2>3 DEF EmitterInv
<1>5. CASE ~Wrote(e, frame)
  <2>1. s.wire = e.wire /\ s.startedToolCalls = e.startedToolCalls
        /\ s.endedToolCalls = e.endedToolCalls
    BY <1>1, <1>5, EmitEffect
  <2> QED
    BY <1>2, <2>1 DEF EmitterInv, RemembersCalls
<1> QED
  BY <1>4, <1>5

(* The block bookkeeping is not part of the invariant.                      *)
LEMMA BlockFieldsAreFree ==
    ASSUME NEW e, EmitterInv(e), NEW id \in Nat
    PROVE  /\ EmitterInv([e EXCEPT !.openTextID = id])
           /\ EmitterInv([e EXCEPT !.openReasoningID = id])
           /\ EmitterInv([e EXCEPT !.openReasoningMessageID = id])
  BY DEF EmitterInv, EmitterType, RemembersCalls, CancelsOnce

LEMMA FramesAreFrames ==
    ASSUME NEW id \in Nat, NEW delta \in Delta, NEW type \in BlockTypes
    PROVE  Neutral(BlockFrame(type, id, delta))
  BY DEF Neutral, BlockFrame, Frames, FrameTypes, BlockTypes, CallTypes, ToolID, Name

LEMMA NoDeltaType == NoDelta \in Delta /\ NoMessage \in Nat
  BY DEF Delta, NoMessage

-----------------------------------------------------------------------------
(* Text and reasoning helpers. *)

LEMMA BlockHelpers ==
    ASSUME NEW e, EmitterInv(e), NEW id \in Nat, NEW delta \in Delta
    PROVE  /\ EmitterInv(TextStart(e, id))
           /\ EmitterInv(TextContent(e, id, delta))
           /\ EmitterInv(TextEnd(e, id))
           /\ EmitterInv(ReasoningStart(e, id))
           /\ EmitterInv(ReasoningMessageStart(e, id))
           /\ EmitterInv(ReasoningContent(e, id, delta))
           /\ EmitterInv(ReasoningMessageEnd(e, id))
           /\ EmitterInv(ReasoningEnd(e, id))
<1>1. \A type \in BlockTypes :
        /\ EmitterInv(Emit(e, BlockFrame(type, id, NoDelta)))
        /\ EmitterInv(Emit(e, BlockFrame(type, id, delta)))
  BY EmitNeutral, FramesAreFrames, NoDeltaType
<1>2. \A type \in BlockTypes :
        LET s == Emit(e, BlockFrame(type, id, NoDelta)) IN
        \A x \in Nat : /\ EmitterInv([s EXCEPT !.openTextID = x])
                       /\ EmitterInv([s EXCEPT !.openReasoningID = x])
                       /\ EmitterInv([s EXCEPT !.openReasoningMessageID = x])
  BY <1>1, BlockFieldsAreFree
<1>3. {"TEXT_START", "TEXT_CONTENT", "TEXT_END", "REASONING_START", "REASONING_MESSAGE_START",
       "REASONING_CONTENT", "REASONING_MESSAGE_END", "REASONING_END"} \subseteq BlockTypes
  BY DEF BlockTypes
<1>4. EmitterInv(TextStart(e, id))
  BY <1>1, <1>2, <1>3 DEF TextStart
<1>5. EmitterInv(TextContent(e, id, delta))
  BY <1>1, <1>3 DEF TextContent
<1>6. EmitterInv(TextEnd(e, id))
  BY <1>1, <1>2, <1>3, NoDeltaType DEF TextEnd
<1>7. EmitterInv(ReasoningStart(e, id))
  BY <1>1, <1>2, <1>3 DEF ReasoningStart
<1>8. EmitterInv(ReasoningMessageStart(e, id))
  BY <1>1, <1>2, <1>3 DEF ReasoningMessageStart
<1>9. EmitterInv(ReasoningContent(e, id, delta))
  BY <1>1, <1>3 DEF ReasoningContent
<1>10. EmitterInv(ReasoningMessageEnd(e, id))
  BY <1>1, <1>2, <1>3, NoDeltaType DEF ReasoningMessageEnd
<1>11. EmitterInv(ReasoningEnd(e, id))
  BY <1>1, <1>2, <1>3, NoDeltaType DEF ReasoningEnd
<1> QED
  BY <1>4, <1>5, <1>6, <1>7, <1>8, <1>9, <1>10, <1>11
-----------------------------------------------------------------------------
(* CloseOpenBlocks keeps the invariant and the calls remembered.            *)

LEMMA CloseOneKind ==
    ASSUME NEW e, EmitterInv(e)
    PROVE  /\ EmitterInv(CloseOpenText(e))
           /\ EmitterInv(CloseOpenReasoningMessage(e))
           /\ EmitterInv(CloseOpenReasoning(e))
<1>1. e.openTextID \in Nat /\ e.openReasoningID \in Nat /\ e.openReasoningMessageID \in Nat
  BY DEF EmitterInv, EmitterType
<1>2. /\ EmitterInv([e EXCEPT !.openTextID = NoMessage])
      /\ EmitterInv([e EXCEPT !.openReasoningID = NoMessage])
      /\ EmitterInv([e EXCEPT !.openReasoningMessageID = NoMessage])
  BY BlockFieldsAreFree, NoDeltaType
<1>3. /\ Neutral(BlockFrame("TEXT_END", e.openTextID, NoDelta))
      /\ Neutral(BlockFrame("REASONING_END", e.openReasoningID, NoDelta))
      /\ Neutral(BlockFrame("REASONING_MESSAGE_END", e.openReasoningMessageID, NoDelta))
  BY <1>1, FramesAreFrames, NoDeltaType DEF BlockTypes
<1>4. EmitterInv(CloseOpenText(e))
  BY <1>2, <1>3, EmitNeutral DEF CloseOpenText
<1>5. EmitterInv(CloseOpenReasoningMessage(e))
  BY <1>2, <1>3, EmitNeutral DEF CloseOpenReasoningMessage
<1>6. EmitterInv(CloseOpenReasoning(e))
  BY <1>2, <1>3, EmitNeutral DEF CloseOpenReasoning
<1> QED
  BY <1>4, <1>5, <1>6

SameCalls(e, f) ==
    e.startedToolCalls = f.startedToolCalls /\ e.endedToolCalls = f.endedToolCalls

LEMMA CloseOneKindCalls ==
    ASSUME NEW e, EmitterInv(e)
    PROVE  /\ SameCalls(CloseOpenText(e), e)
           /\ SameCalls(CloseOpenReasoningMessage(e), e)
           /\ SameCalls(CloseOpenReasoning(e), e)
  BY DEF CloseOpenText, CloseOpenReasoningMessage, CloseOpenReasoning, Emit, SameCalls,
         EmitterInv, EmitterType

LEMMA CloseKeepsInv ==
    ASSUME NEW e, EmitterInv(e)
    PROVE  EmitterInv(CloseOpenBlocks(e)) /\ SameCalls(CloseOpenBlocks(e), e)
<1> DEFINE t == CloseOpenText(e)
           m == CloseOpenReasoningMessage(t)
           r == CloseOpenReasoning(m)
<1>1. EmitterInv(t) /\ SameCalls(t, e)
  BY CloseOneKind, CloseOneKindCalls
<1> HIDE DEF t
<1>2. EmitterInv(m) /\ SameCalls(m, t)
  BY <1>1, CloseOneKind, CloseOneKindCalls
<1> HIDE DEF m
<1>3. EmitterInv(r) /\ SameCalls(r, m)
  BY <1>2, CloseOneKind, CloseOneKindCalls
<1> HIDE DEF r
<1>4. SameCalls(r, e)
  BY <1>1, <1>2, <1>3 DEF SameCalls
<1> QED
  BY <1>3, <1>4 DEF CloseOpenBlocks, r, m, t

-----------------------------------------------------------------------------
(* Tool helpers: the guards on the remembered calls are what makes the next *)
(* frame legal.                                                             *)

LEMMA ToolStartKeepsInv ==
    ASSUME NEW e, EmitterInv(e), NEW call \in ToolID, NEW name \in Name, NEW parent \in Nat
    PROVE  EmitterInv(ToolStart(e, call, name, parent))
<1> DEFINE closed == CloseOpenBlocks(e)
           frame  == ToolStartFrame(call, name, parent)
           sent   == Emit(closed, frame)
           marked == [sent EXCEPT !.startedToolCalls = @ \cup {call}]
<1>1. EmitterInv(closed) /\ SameCalls(closed, e)
  BY CloseKeepsInv
<1>2. CASE call = NoID \/ name = NoName
  BY <1>2 DEF ToolStart
<1>3. CASE call # NoID /\ name # NoName /\ (ToolStarted(e, call) \/ ToolEnded(e, call))
  BY <1>1, <1>3 DEF ToolStart
<1>4. CASE call # NoID /\ name # NoName /\ ~ToolStarted(e, call) /\ ~ToolEnded(e, call)
  <2>1. ToolStart(e, call, name, parent) = IF Wrote(closed, frame) THEN marked ELSE sent
    BY <1>4 DEF ToolStart
  <2>2. call \in ToolIDs /\ frame \in Frames /\ closed \in EmitterType
        /\ closed.wire \in Seq(Frames)
    BY <1>1, <1>4, NoDeltaType
       DEF ToolID, ToolStartFrame, Frames, FrameTypes, ToolTypes, CallTypes, EmitterInv, EmitterType
  <2>3. /\ Starts(frame, call) /\ \A c \in ToolIDs : Starts(frame, c) => c = call
        /\ \A c \in ToolIDs : ~Feeds(frame, c) /\ ~Ends(frame, c)
    BY DEF ToolStartFrame, Starts, Feeds, Ends
  <2>4. call \notin closed.startedToolCalls /\ call \notin closed.endedToolCalls
    BY <1>1, <1>4 DEF SameCalls, ToolStarted, ToolEnded
  <2>5. \A i \in DOMAIN closed.wire : ~Starts(closed.wire[i], call) /\ ~Ends(closed.wire[i], call)
    BY <1>1, <2>2, <2>4 DEF EmitterInv, RemembersCalls
  <2>6. sent \in EmitterType /\ SameCalls(sent, closed) /\ CancelsOnce(sent)
    BY <1>1, <2>2, EmitType, EmitEffect DEF SameCalls, EmitterInv
  <2> HIDE DEF closed, frame, sent
  <2>7. CASE Wrote(closed, frame)
    <3>1. sent.wire = Append(closed.wire, frame)
      BY <2>2, <2>7, EmitEffect DEF sent
    <3>2. /\ marked \in EmitterType /\ marked.wire = sent.wire /\ CancelsOnce(marked)
          /\ marked.startedToolCalls = closed.startedToolCalls \cup {call}
          /\ marked.endedToolCalls = closed.endedToolCalls
      BY <2>2, <2>6 DEF EmitterType, SameCalls, CancelsOnce
    <3>3. OneLifecycle(marked.wire)
      BY <1>1, <2>2, <2>3, <2>5, <3>1, <3>2, AppendKeepsLifecycles DEF EmitterInv
    <3> HIDE DEF marked
    <3>4. RemembersCalls(marked)
      <4> SUFFICES ASSUME NEW c \in ToolIDs
                   PROVE  /\ c \in marked.startedToolCalls
                                <=> \E j \in DOMAIN marked.wire : Starts(marked.wire[j], c)
                          /\ c \in marked.endedToolCalls
                                <=> \E j \in DOMAIN marked.wire : Ends(marked.wire[j], c)
        BY DEF RemembersCalls
      <4>1. /\ c \in closed.startedToolCalls
                 <=> \E j \in DOMAIN closed.wire : Starts(closed.wire[j], c)
            /\ c \in closed.endedToolCalls
                 <=> \E j \in DOMAIN closed.wire : Ends(closed.wire[j], c)
        BY <1>1 DEF EmitterInv, RemembersCalls
      <4>2. /\ (\E j \in DOMAIN marked.wire : Starts(marked.wire[j], c))
                 <=> (Starts(frame, c) \/ \E j \in DOMAIN closed.wire : Starts(closed.wire[j], c))
            /\ (\E j \in DOMAIN marked.wire : Ends(marked.wire[j], c))
                 <=> (Ends(frame, c) \/ \E j \in DOMAIN closed.wire : Ends(closed.wire[j], c))
        BY <2>2, <3>1, <3>2, AppendStartsEnds
      <4> QED
        BY <2>2, <2>3, <3>2, <4>1, <4>2
    <3> QED
      BY <2>1, <2>7, <3>2, <3>3, <3>4 DEF EmitterInv
  <2>8. CASE ~Wrote(closed, frame)
    <3>1. sent.wire = closed.wire
      BY <2>2, <2>8, EmitEffect DEF sent
    <3>2. EmitterInv(sent)
      BY <1>1, <2>6, <3>1 DEF EmitterInv, RemembersCalls, SameCalls
    <3>3. ToolStart(e, call, name, parent) = sent
      BY <2>1, <2>8, Zenon
    <3> QED
      BY <3>2, <3>3
  <2> QED
    BY <2>7, <2>8
<1> QED
  BY <1>2, <1>3, <1>4

LEMMA ToolArgsKeepsInv ==
    ASSUME NEW e, EmitterInv(e), NEW call \in ToolID, NEW delta \in Delta
    PROVE  EmitterInv(ToolArgs(e, call, delta))
<1> DEFINE closed == CloseOpenBlocks(e)
           frame  == CallFrame("TOOL_CALL_ARGS", call, delta)
           sent   == Emit(closed, frame)
<1>1. EmitterInv(closed) /\ SameCalls(closed, e)
  BY CloseKeepsInv
<1>2. CASE call = NoID \/ delta = NoDelta \/ ~ToolStarted(e, call) \/ ToolEnded(e, call)
  BY <1>2 DEF ToolArgs
<1>3. CASE call # NoID /\ delta # NoDelta /\ ToolStarted(e, call) /\ ~ToolEnded(e, call)
  <2>1. ToolArgs(e, call, delta) = sent
    BY <1>3 DEF ToolArgs
  <2>2. call \in ToolIDs /\ frame \in Frames /\ closed \in EmitterType
        /\ closed.wire \in Seq(Frames)
    BY <1>1, <1>3, NoDeltaType
       DEF ToolID, Name, CallFrame, Frames, FrameTypes, ToolTypes, CallTypes, EmitterInv, EmitterType
  <2>3. /\ \A c \in ToolIDs : Feeds(frame, c) => c = call
        /\ \A c \in ToolIDs : ~Starts(frame, c) /\ ~Ends(frame, c)
    BY DEF CallFrame, Starts, Feeds, Ends
  <2>4. call \in closed.startedToolCalls /\ call \notin closed.endedToolCalls
    BY <1>1, <1>3 DEF SameCalls, ToolStarted, ToolEnded
  <2>5. /\ \E i \in DOMAIN closed.wire : Starts(closed.wire[i], call)
        /\ \A i \in DOMAIN closed.wire : ~Ends(closed.wire[i], call)
    BY <1>1, <2>2, <2>4 DEF EmitterInv, RemembersCalls
  <2>6. sent \in EmitterType /\ SameCalls(sent, closed) /\ CancelsOnce(sent)
    BY <1>1, <2>2, EmitType, EmitEffect DEF SameCalls, EmitterInv
  <2> HIDE DEF closed, frame, sent
  <2>7. CASE Wrote(closed, frame)
    <3>1. sent.wire = Append(closed.wire, frame)
      BY <2>2, <2>7, EmitEffect DEF sent
    <3>2. OneLifecycle(sent.wire)
      BY <1>1, <2>2, <2>3, <2>5, <3>1, AppendKeepsLifecycles DEF EmitterInv
    <3>3. RemembersCalls(sent)
      BY <1>1, <2>2, <2>3, <2>6, <3>1, AppendStartsEnds DEF EmitterInv, RemembersCalls, SameCalls
    <3> QED
      BY <2>1, <2>6, <3>2, <3>3 DEF EmitterInv
  <2>8. CASE ~Wrote(closed, frame)
    <3>1. sent.wire = closed.wire
      BY <2>2, <2>8, EmitEffect DEF sent
    <3> QED
      BY <1>1, <2>1, <2>6, <3>1 DEF EmitterInv, RemembersCalls, SameCalls
  <2> QED
    BY <2>7, <2>8
<1> QED
  BY <1>2, <1>3

LEMMA ToolEndKeepsInv ==
    ASSUME NEW e, EmitterInv(e), NEW call \in ToolID
    PROVE  EmitterInv(ToolEnd(e, call))
<1> DEFINE closed == CloseOpenBlocks(e)
           frame  == CallFrame("TOOL_CALL_END", call, NoDelta)
           sent   == Emit(closed, frame)
           marked == [sent EXCEPT !.endedToolCalls = @ \cup {call}]
<1>1. EmitterInv(closed) /\ SameCalls(closed, e)
  BY CloseKeepsInv
<1>2. CASE call = NoID \/ ~ToolStarted(e, call) \/ ToolEnded(e, call)
  BY <1>2 DEF ToolEnd
<1>3. CASE call # NoID /\ ToolStarted(e, call) /\ ~ToolEnded(e, call)
  <2>1. ToolEnd(e, call) = IF Wrote(closed, frame) THEN marked ELSE sent
    BY <1>3 DEF ToolEnd
  <2>2. call \in ToolIDs /\ frame \in Frames /\ closed \in EmitterType
        /\ closed.wire \in Seq(Frames)
    BY <1>1, <1>3, NoDeltaType
       DEF ToolID, Name, CallFrame, Frames, FrameTypes, ToolTypes, CallTypes, EmitterInv, EmitterType
  <2>3. /\ Ends(frame, call) /\ \A c \in ToolIDs : Ends(frame, c) => c = call
        /\ \A c \in ToolIDs : ~Starts(frame, c) /\ ~Feeds(frame, c)
    BY DEF CallFrame, Starts, Feeds, Ends
  <2>4. call \in closed.startedToolCalls /\ call \notin closed.endedToolCalls
    BY <1>1, <1>3 DEF SameCalls, ToolStarted, ToolEnded
  <2>5. /\ \E i \in DOMAIN closed.wire : Starts(closed.wire[i], call)
        /\ \A i \in DOMAIN closed.wire : ~Ends(closed.wire[i], call)
    BY <1>1, <2>2, <2>4 DEF EmitterInv, RemembersCalls
  <2>6. sent \in EmitterType /\ SameCalls(sent, closed) /\ CancelsOnce(sent)
    BY <1>1, <2>2, EmitType, EmitEffect DEF SameCalls, EmitterInv
  <2> HIDE DEF closed, frame, sent
  <2>7. CASE Wrote(closed, frame)
    <3>1. sent.wire = Append(closed.wire, frame)
      BY <2>2, <2>7, EmitEffect DEF sent
    <3>2. /\ marked \in EmitterType /\ marked.wire = sent.wire /\ CancelsOnce(marked)
          /\ marked.endedToolCalls = closed.endedToolCalls \cup {call}
          /\ marked.startedToolCalls = closed.startedToolCalls
      BY <2>2, <2>6 DEF EmitterType, SameCalls, CancelsOnce
    <3>3. OneLifecycle(marked.wire)
      BY <1>1, <2>2, <2>3, <2>5, <3>1, <3>2, AppendKeepsLifecycles DEF EmitterInv
    <3> HIDE DEF marked
    <3>4. RemembersCalls(marked)
      <4> SUFFICES ASSUME NEW c \in ToolIDs
                   PROVE  /\ c \in marked.startedToolCalls
                                <=> \E j \in DOMAIN marked.wire : Starts(marked.wire[j], c)
                          /\ c \in marked.endedToolCalls
                                <=> \E j \in DOMAIN marked.wire : Ends(marked.wire[j], c)
        BY DEF RemembersCalls
      <4>1. /\ c \in closed.startedToolCalls
                 <=> \E j \in DOMAIN closed.wire : Starts(closed.wire[j], c)
            /\ c \in closed.endedToolCalls
                 <=> \E j \in DOMAIN closed.wire : Ends(closed.wire[j], c)
        BY <1>1 DEF EmitterInv, RemembersCalls
      <4>2. /\ (\E j \in DOMAIN marked.wire : Starts(marked.wire[j], c))
                 <=> (Starts(frame, c) \/ \E j \in DOMAIN closed.wire : Starts(closed.wire[j], c))
            /\ (\E j \in DOMAIN marked.wire : Ends(marked.wire[j], c))
                 <=> (Ends(frame, c) \/ \E j \in DOMAIN closed.wire : Ends(closed.wire[j], c))
        BY <2>2, <3>1, <3>2, AppendStartsEnds
      <4> QED
        BY <2>2, <2>3, <3>2, <4>1, <4>2
    <3> QED
      BY <2>1, <2>7, <3>2, <3>3, <3>4 DEF EmitterInv
  <2>8. CASE ~Wrote(closed, frame)
    <3>1. sent.wire = closed.wire
      BY <2>2, <2>8, EmitEffect DEF sent
    <3>2. EmitterInv(sent)
      BY <1>1, <2>6, <3>1 DEF EmitterInv, RemembersCalls, SameCalls
    <3>3. ToolEnd(e, call) = sent
      BY <2>1, <2>8, Zenon
    <3> QED
      BY <3>2, <3>3
  <2> QED
    BY <2>7, <2>8
<1> QED
  BY <1>2, <1>3

LEMMA ToolResultKeepsInv ==
    ASSUME NEW e, EmitterInv(e), NEW msg \in Nat, NEW call \in ToolID, NEW content \in Delta
    PROVE  EmitterInv(ToolResult(e, msg, call, content))
<1> DEFINE frame == [type |-> "TOOL_CALL_RESULT", msg |-> msg, call |-> call, name |-> NoName,
                     delta |-> IF content = NoDelta THEN EmptyContent ELSE content]
<1>1. EmitterInv(CloseOpenBlocks(e))
  BY CloseKeepsInv
<1>2. Neutral(frame)
  BY DEF Neutral, Frames, FrameTypes, ToolTypes, CallTypes, Name, Delta
<1>3. EmitterInv(Emit(CloseOpenBlocks(e), frame))
  BY <1>1, <1>2, EmitNeutral
<1> QED
  BY <1>3 DEF ToolResult

LEMMA OtherHelpers ==
    ASSUME NEW e, EmitterInv(e), NEW empty \in BOOLEAN
    PROVE  EmitterInv(SendEvent(e)) /\ EmitterInv(SendPatch(e, empty)) /\ EmitterInv(EmitNil(e))
<1>1. Neutral(OtherFrame("EVENT")) /\ Neutral(OtherFrame("PATCH"))
  BY NoDeltaType DEF Neutral, OtherFrame, Frames, FrameTypes, OtherTypes, CallTypes, ToolID, Name
<1>2. EmitterInv(SendEvent(e)) /\ EmitterInv(SendPatch(e, empty))
  BY <1>1, EmitNeutral DEF SendEvent, SendPatch
<1>3. EmitterInv(EmitNil(e))
  BY DEF EmitNil, EmitterInv, EmitterType, RemembersCalls, CancelsOnce
<1> QED
  BY <1>2, <1>3
-----------------------------------------------------------------------------
(***************************************************************************)
(* Text and reasoning blocks: the block a helper opened last, if it is     *)
(* still open on the wire, is the one the emitter remembers - so           *)
(* closeOpenBlocks leaves none of them open and a tool frame lands         *)
(* outside.  That holds while no frame was lost; after a transport failure *)
(* the wire is frozen, after a rejection nothing is claimed.               *)
(***************************************************************************)
Good(e) == ~e.err /\ ~e.encErr

MessagesNamed(w) == \A j \in DOMAIN w : w[j].type \in BlockTypes => w[j].msg # NoMessage

(* Of the blocks of this kind, the last one is ended or is that of id.      *)
Tracks(w, kind, id) ==
    \A i \in DOMAIN w :
        LastBefore(w, kind, i, Len(w) + 1) /\ OpenBefore(w, kind, i, Len(w) + 1) => w[i].msg = id

TracksAll(w, text, reasoning, message) ==
    /\ Tracks(w, TextKind, text)
    /\ Tracks(w, ReasoningKind, reasoning)
    /\ Tracks(w, ReasoningMessageKind, message)

(* Two parts: what holds of any wire, and what the open ids say of it.      *)
WireInv(e) == MessagesNamed(e.wire) /\ (~e.encErr => ToolsOutsideBlocks(e.wire))

BlockInv(e) ==
    /\ e \in EmitterType
    /\ WireInv(e)
    /\ Good(e) => TracksAll(e.wire, e.openTextID, e.openReasoningID, e.openReasoningMessageID)

-----------------------------------------------------------------------------
(* A longer wire. *)

LEMMA AppendFacts ==
    ASSUME NEW w \in Seq(Frames), NEW frame \in Frames
    PROVE  /\ Append(w, frame) \in Seq(Frames) /\ Len(w) \in Nat
           /\ Len(Append(w, frame)) = Len(w) + 1
           /\ DOMAIN w = 1..Len(w) /\ DOMAIN Append(w, frame) = 1..(Len(w) + 1)
           /\ Append(w, frame)[Len(w) + 1] = frame
           /\ \A i \in 1..Len(w) : Append(w, frame)[i] = w[i]
  OBVIOUS

LEMMA KindFacts ==
    \A kind \in Kinds : kind.start # kind.end /\ kind.start \in BlockTypes
  BY DEF Kinds, TextKind, ReasoningKind, ReasoningMessageKind, BlockTypes

(* Which blocks are open before position k only depends on the frames before. *)
LEMMA SamePrefix ==
    ASSUME NEW w \in Seq(Frames), NEW frame \in Frames, NEW kind \in Kinds,
           NEW k \in 1..(Len(w) + 1), NEW i \in 1..(k - 1)
    PROVE  /\ LastBefore(Append(w, frame), kind, i, k) <=> LastBefore(w, kind, i, k)
           /\ OpenBefore(Append(w, frame), kind, i, k) <=> OpenBefore(w, kind, i, k)
           /\ Append(w, frame)[i] = w[i]
<1> DEFINE v == Append(w, frame)
<1>1. Len(w) \in Nat /\ \A j \in 1..Len(w) : v[j] = w[j]
  BY AppendFacts
<1> HIDE DEF v
<1>2. i \in 1..Len(w) /\ \A j \in (i+1)..(k-1) : j \in 1..Len(w)
  BY <1>1
<1>3. v[i] = w[i] /\ \A j \in (i+1)..(k-1) : v[j] = w[j]
  BY <1>1, <1>2
<1> QED
  BY <1>3 DEF LastBefore, OpenBefore, v

(* A block that is last and open in the longer wire was so before, unless   *)
(* the new frame started it; and the new frame neither starts nor ends it.  *)
LEMMA OpenBeforeAppend ==
    ASSUME NEW w \in Seq(Frames), NEW frame \in Frames, NEW kind \in Kinds,
           NEW i \in 1..Len(w),
           LastBefore(Append(w, frame), kind, i, Len(w) + 2),
           OpenBefore(Append(w, frame), kind, i, Len(w) + 2)
    PROVE  /\ LastBefore(w, kind, i, Len(w) + 1) /\ OpenBefore(w, kind, i, Len(w) + 1)
           /\ frame.type # kind.start
           /\ ~(frame.type = kind.end /\ frame.msg = w[i].msg)
<1> DEFINE v == Append(w, frame)
           n == Len(w) + 1
<1>1. n \in Nat /\ i \in 1..(n - 1) /\ n \in (i+1)..((n + 1) - 1) /\ n + 1 = Len(w) + 2
      /\ \A j \in (i+1)..(n-1) : j \in (i+1)..((n + 1) - 1)
  BY AppendFacts
<1>2. v[n] = frame /\ v[i] = w[i]
  BY AppendFacts
<1> HIDE DEF v, n
<1>3. v[n].type # kind.start /\ ~(v[n].type = kind.end /\ v[n].msg = v[i].msg)
  BY <1>1 DEF LastBefore, OpenBefore, v
<1>4. LastBefore(v, kind, i, n) /\ OpenBefore(v, kind, i, n)
  BY <1>1 DEF LastBefore, OpenBefore, v
<1>5. LastBefore(w, kind, i, n) /\ OpenBefore(w, kind, i, n)
  <2>1. n \in 1..(Len(w) + 1)
    BY <1>1 DEF n
  <2> QED
    BY <1>1, <1>4, <2>1, SamePrefix DEF v
<1> QED
  BY <1>2, <1>3, <1>5 DEF n

LEMMA TracksOther ==
    ASSUME NEW w \in Seq(Frames), NEW frame \in Frames, NEW kind \in Kinds, NEW id \in Nat,
           Tracks(w, kind, id), frame.type # kind.start
    PROVE  Tracks(Append(w, frame), kind, id)
<1> DEFINE v == Append(w, frame)
<1> SUFFICES ASSUME NEW i \in DOMAIN v, LastBefore(v, kind, i, Len(v) + 1),
                    OpenBefore(v, kind, i, Len(v) + 1)
             PROVE  v[i].msg = id
  BY DEF Tracks
<1>1. v[i].type = kind.start
  BY DEF LastBefore
<1>2. i \in 1..Len(w) /\ v[i] = w[i] /\ Len(v) + 1 = Len(w) + 2 /\ i \in DOMAIN w
  BY <1>1, AppendFacts
<1>3. LastBefore(w, kind, i, Len(w) + 1) /\ OpenBefore(w, kind, i, Len(w) + 1)
  BY <1>2, OpenBeforeAppend
<1> QED
  BY <1>2, <1>3 DEF Tracks

LEMMA TracksStart ==
    ASSUME NEW w \in Seq(Frames), NEW frame \in Frames, NEW kind \in Kinds,
           frame.type = kind.start
    PROVE  Tracks(Append(w, frame), kind, frame.msg)
<1> DEFINE v == Append(w, frame)
<1> SUFFICES ASSUME NEW i \in DOMAIN v, LastBefore(v, kind, i, Len(v) + 1),
                    OpenBefore(v, kind, i, Len(v) + 1)
             PROVE  v[i].msg = frame.msg
  BY DEF Tracks
<1>1. Len(v) + 1 = Len(w) + 2 /\ (i \in 1..Len(w) \/ v[i] = frame)
  BY AppendFacts
<1> QED
  BY <1>1, OpenBeforeAppend

LEMMA TracksEnd ==
    ASSUME NEW w \in Seq(Frames), NEW frame \in Frames, NEW kind \in Kinds, NEW id \in Nat,
           Tracks(w, kind, id), frame.type = kind.end, frame.msg = id, NEW x \in Nat
    PROVE  Tracks(Append(w, frame), kind, x)
<1> DEFINE v == Append(w, frame)
<1> SUFFICES ASSUME NEW i \in DOMAIN v, LastBefore(v, kind, i, Len(v) + 1),
                    OpenBefore(v, kind, i, Len(v) + 1)
             PROVE  FALSE
  BY DEF Tracks
<1>1. v[i].type = kind.start
  BY DEF LastBefore
<1>2. i \in 1..Len(w) /\ v[i] = w[i] /\ Len(v) + 1 = Len(w) + 2 /\ i \in DOMAIN w
  BY <1>1, AppendFacts, KindFacts
<1>3. /\ LastBefore(w, kind, i, Len(w) + 1) /\ OpenBefore(w, kind, i, Len(w) + 1)
      /\ ~(frame.type = kind.end /\ frame.msg = w[i].msg)
  BY <1>2, OpenBeforeAppend
<1> QED
  BY <1>2, <1>3 DEF Tracks

LEMMA ToolsAppend ==
    ASSUME NEW w \in Seq(Frames), NEW frame \in Frames, ToolsOutsideBlocks(w), MessagesNamed(w),
           frame.type \in ToolTypes => TracksAll(w, NoMessage, NoMessage, NoMessage)
    PROVE  ToolsOutsideBlocks(Append(w, frame))
<1> DEFINE v == Append(w, frame)
<1> SUFFICES ASSUME NEW k \in DOMAIN v, v[k].type \in ToolTypes,
                    NEW kind \in Kinds, NEW i \in 1..(k-1), LastBefore(v, kind, i, k)
             PROVE  ~OpenBefore(v, kind, i, k)
  BY DEF ToolsOutsideBlocks
<1>1. k \in 1..(Len(w) + 1) /\ Len(w) \in Nat
  BY AppendFacts
<1>2. LastBefore(w, kind, i, k) /\ (OpenBefore(v, kind, i, k) <=> OpenBefore(w, kind, i, k))
  BY <1>1, SamePrefix
<1>3. CASE k \in 1..Len(w)
  <2>1. k \in DOMAIN w /\ w[k].type \in ToolTypes
    BY <1>3, AppendFacts
  <2> QED
    BY <1>2, <2>1 DEF ToolsOutsideBlocks
<1>4. CASE k = Len(w) + 1
  <2>1. frame.type \in ToolTypes /\ i \in DOMAIN w
    BY <1>1, <1>4, AppendFacts
  <2>2. Tracks(w, kind, NoMessage)
    BY <2>1 DEF TracksAll, Kinds
  <2>3. w[i].msg # NoMessage
    BY <1>2, <2>1, KindFacts DEF MessagesNamed, LastBefore
  <2> QED
    BY <1>2, <1>4, <2>1, <2>2, <2>3 DEF Tracks
<1> QED
  BY <1>1, <1>3, <1>4

-----------------------------------------------------------------------------
(* Emitting a frame, as far as the blocks are concerned. *)

SameOpen(e, f) ==
    /\ e.openTextID = f.openTextID
    /\ e.openReasoningID = f.openReasoningID
    /\ e.openReasoningMessageID = f.openReasoningMessageID

LEMMA EmitBlocks ==
    ASSUME NEW e \in EmitterType, WireInv(e), NEW frame \in Frames,
           (frame.type \in ToolTypes /\ Good(e)) =>
               TracksAll(e.wire, NoMessage, NoMessage, NoMessage)
    PROVE  LET s == Emit(e, frame) IN
           /\ s \in EmitterType /\ WireInv(s) /\ SameOpen(s, e)
           /\ Good(s) => Good(e) /\ Wrote(e, frame) /\ Valid(frame)
                         /\ s.wire = Append(e.wire, frame)
<1> DEFINE s == Emit(e, frame)
<1>1. s \in EmitterType /\ e.wire \in Seq(Frames)
  BY EmitType DEF EmitterType
<1>2. SameOpen(s, e)
  BY DEF Emit, SameOpen, EmitterType
<1>3. CASE e.err
  BY <1>1, <1>3 DEF Emit, SameOpen, Good
<1>4. CASE ~e.err /\ Wrote(e, frame)
  <2>1. /\ s.wire = Append(e.wire, frame) /\ Valid(frame)
        /\ (s.encErr <=> e.encErr)
    BY <1>4 DEF Emit, Wrote, WriteEvent, EmitterType
  <2>2. MessagesNamed(s.wire)
    BY <1>1, <2>1, AppendFacts DEF WireInv, MessagesNamed, Valid
  <2>3. ~s.encErr => ToolsOutsideBlocks(s.wire)
    BY <1>1, <1>4, <2>1, ToolsAppend DEF WireInv, Good
  <2> QED
    BY <1>1, <1>2, <1>4, <2>1, <2>2, <2>3 DEF WireInv, Good
<1>5. CASE ~e.err /\ ~Wrote(e, frame)
  <2>1. s.wire = e.wire /\ (e.encErr => s.encErr) /\ (s.err \/ s.encErr)
    <3>1. WriteEvent(e, frame) \in Outcomes /\ WriteEvent(e, frame) # "written"
      BY <1>5 DEF WriteEvent, EmitterType, Outcomes, Wrote
    <3> QED
      BY <1>5, <3>1 DEF Emit, EmitterType, Outcomes
  <2> QED
    BY <1>1, <1>2, <2>1 DEF WireInv, Good
<1> QED
  BY <1>3, <1>4, <1>5

(* A frame about no block leaves the open ids right.                        *)
LEMMA EmitOther ==
    ASSUME NEW e, BlockInv(e), NEW frame \in Frames,
           \A kind \in Kinds : frame.type # kind.start,
           frame.type \in ToolTypes /\ Good(e) =>
               TracksAll(e.wire, NoMessage, NoMessage, NoMessage)
    PROVE  BlockInv(Emit(e, frame)) /\ SameOpen(Emit(e, frame), e)
<1> DEFINE s == Emit(e, frame)
<1>1. e \in EmitterType /\ WireInv(e)
  BY DEF BlockInv
<1>2. /\ s \in EmitterType /\ WireInv(s) /\ SameOpen(s, e)
      /\ Good(s) => Good(e) /\ s.wire = Append(e.wire, frame)
  BY <1>1, EmitBlocks
<1> HIDE DEF s
<1>3. ASSUME Good(s)
      PROVE  TracksAll(s.wire, s.openTextID, s.openReasoningID, s.openReasoningMessageID)
  <2>1. TracksAll(e.wire, e.openTextID, e.openReasoningID, e.openReasoningMessageID)
    BY <1>2, <1>3 DEF BlockInv
  <2>2. e.wire \in Seq(Frames) /\ e.openTextID \in Nat /\ e.openReasoningID \in Nat
        /\ e.openReasoningMessageID \in Nat
    BY <1>1 DEF EmitterType
  <2>3. \A kind \in Kinds, id \in Nat :
          Tracks(e.wire, kind, id) => Tracks(Append(e.wire, frame), kind, id)
    BY <2>2, TracksOther
  <2>4. TextKind \in Kinds /\ ReasoningKind \in Kinds /\ ReasoningMessageKind \in Kinds
    BY DEF Kinds
  <2> QED
    BY <1>2, <1>3, <2>1, <2>2, <2>3, <2>4 DEF TracksAll, SameOpen
<1>4. BlockInv(s)
  BY <1>2, <1>3 DEF BlockInv
<1> QED
  BY <1>2, <1>4 DEF s

(* What a block frame does to the blocks of each kind, if nothing is lost.  *)
LEMMA EmitBlockFrame ==
    ASSUME NEW e \in EmitterType, WireInv(e),
           NEW type \in BlockTypes, NEW id \in Nat, NEW delta \in Delta
    PROVE  LET frame == BlockFrame(type, id, delta)
               s     == Emit(e, frame)
           IN  /\ s \in EmitterType /\ WireInv(s) /\ SameOpen(s, e)
               /\ Good(s) =>
                    /\ Good(e) /\ Wrote(e, frame) /\ id # NoMessage
                    /\ \A kind \in Kinds :
                         /\ type = kind.start => Tracks(s.wire, kind, id)
                         /\ \A x \in Nat :
                              /\ type # kind.start /\ Tracks(e.wire, kind, x)
                                   => Tracks(s.wire, kind, x)
                              /\ type = kind.end /\ Tracks(e.wire, kind, id)
                                   => Tracks(s.wire, kind, x)
<1> DEFINE frame == BlockFrame(type, id, delta)
           s     == Emit(e, frame)
<1>1. frame \in Frames /\ frame.type = type /\ frame.msg = id /\ frame.type \notin ToolTypes
  BY FramesAreFrames DEF Neutral, BlockFrame, BlockTypes, ToolTypes, CallTypes
<1>2. e.wire \in Seq(Frames)
  BY DEF EmitterType
<1> HIDE DEF frame
<1>3. /\ s \in EmitterType /\ WireInv(s) /\ SameOpen(s, e)
      /\ Good(s) => Good(e) /\ Wrote(e, frame) /\ Valid(frame) /\ s.wire = Append(e.wire, frame)
  BY <1>1, EmitBlocks
<1>4. Valid(frame) => id # NoMessage
  BY <1>1 DEF Valid
<1> HIDE DEF s
<1>5. ASSUME Good(s), NEW kind \in Kinds, type = kind.start
      PROVE  Tracks(s.wire, kind, id)
  BY <1>1, <1>2, <1>3, <1>5, TracksStart
<1>6. ASSUME Good(s), NEW kind \in Kinds, NEW x \in Nat, type # kind.start,
             Tracks(e.wire, kind, x)
      PROVE  Tracks(s.wire, kind, x)
  BY <1>1, <1>2, <1>3, <1>6, TracksOther
<1>7. ASSUME Good(s), NEW kind \in Kinds, NEW x \in Nat, type = kind.end,
             Tracks(e.wire, kind, id)
      PROVE  Tracks(s.wire, kind, x)
  BY <1>1, <1>2, <1>3, <1>7, TracksEnd
<1> QED
  BY <1>3, <1>4, <1>5, <1>6, <1>7 DEF s, frame

LEMMA KindsAre ==
    /\ TextKind \in Kinds /\ ReasoningKind \in Kinds /\ ReasoningMessageKind \in Kinds
    /\ TextKind.start = "TEXT_START" /\ TextKind.end = "TEXT_END"
    /\ ReasoningKind.start = "REASONING_START" /\ ReasoningKind.end = "REASONING_END"
    /\ ReasoningMessageKind.start = "REASONING_MESSAGE_START"
    /\ ReasoningMessageKind.end = "REASONING_MESSAGE_END"
    /\ {"TEXT_START", "TEXT_CONTENT", "TEXT_END", "REASONING_START", "REASONING_MESSAGE_START",
         "REASONING_CONTENT", "REASONING_MESSAGE_END", "REASONING_END"} = BlockTypes
  BY DEF Kinds, TextKind, ReasoningKind, ReasoningMessageKind, BlockTypes

LEMMA TypedBlocks ==
    ASSUME NEW e, BlockInv(e)
    PROVE  /\ e \in EmitterType /\ WireInv(e)
           /\ e.openTextID \in Nat /\ e.openReasoningID \in Nat /\ e.openReasoningMessageID \in Nat
  BY DEF BlockInv, EmitterType

-----------------------------------------------------------------------------
(* The helpers that start a block. *)

LEMMA TextStartBlocks ==
    ASSUME NEW e, BlockInv(e), NEW id \in Nat
    PROVE  BlockInv(TextStart(e, id))
<1> DEFINE frame == BlockFrame("TEXT_START", id, NoDelta)
           s     == Emit(e, frame)
           r     == [s EXCEPT !.openTextID = id]
<1>1. /\ s \in EmitterType /\ WireInv(s) /\ SameOpen(s, e)
      /\ Good(s) => /\ Good(e) /\ Wrote(e, frame) /\ id # NoMessage
                    /\ Tracks(s.wire, TextKind, id)
                    /\ \A x \in Nat : Tracks(e.wire, ReasoningKind, x)
                                         => Tracks(s.wire, ReasoningKind, x)
                    /\ \A x \in Nat : Tracks(e.wire, ReasoningMessageKind, x)
                                         => Tracks(s.wire, ReasoningMessageKind, x)
  BY EmitBlockFrame, KindsAre, TypedBlocks, NoDeltaType
<1>2. TextStart(e, id) = IF id # NoMessage /\ Wrote(e, frame) THEN r ELSE s
  BY DEF TextStart
<1> HIDE DEF s, frame
<1>3. /\ r \in EmitterType /\ r.wire = s.wire /\ (r.encErr <=> s.encErr) /\ (r.err <=> s.err)
      /\ r.openTextID = id /\ r.openReasoningID = s.openReasoningID
      /\ r.openReasoningMessageID = s.openReasoningMessageID
  BY <1>1 DEF EmitterType
<1> HIDE DEF r
<1>4. CASE ~Good(s)
  BY <1>1, <1>2, <1>3, <1>4 DEF BlockInv, WireInv, Good
<1>5. CASE Good(s)
  <2>1. TextStart(e, id) = r
    BY <1>1, <1>2, <1>5
  <2>2. TracksAll(s.wire, id, e.openReasoningID, e.openReasoningMessageID)
    BY <1>1, <1>5, TypedBlocks DEF BlockInv, TracksAll
  <2> QED
    BY <1>1, <1>3, <2>1, <2>2 DEF BlockInv, WireInv, SameOpen
<1> QED
  BY <1>4, <1>5

LEMMA ReasoningStartBlocks ==
    ASSUME NEW e, BlockInv(e), NEW id \in Nat
    PROVE  BlockInv(ReasoningStart(e, id))
<1> DEFINE frame == BlockFrame("REASONING_START", id, NoDelta)
           s     == Emit(e, frame)
           r     == [s EXCEPT !.openReasoningID = id]
<1>1. /\ s \in EmitterType /\ WireInv(s) /\ SameOpen(s, e)
      /\ Good(s) => /\ Good(e) /\ Wrote(e, frame) /\ id # NoMessage
                    /\ Tracks(s.wire, ReasoningKind, id)
                    /\ \A x \in Nat : Tracks(e.wire, TextKind, x) => Tracks(s.wire, TextKind, x)
                    /\ \A x \in Nat : Tracks(e.wire, ReasoningMessageKind, x)
                                         => Tracks(s.wire, ReasoningMessageKind, x)
  BY EmitBlockFrame, KindsAre, TypedBlocks, NoDeltaType
<1>2. ReasoningStart(e, id) = IF id # NoMessage /\ Wrote(e, frame) THEN r ELSE s
  BY DEF ReasoningStart
<1> HIDE DEF s, frame
<1>3. /\ r \in EmitterType /\ r.wire = s.wire /\ (r.encErr <=> s.encErr) /\ (r.err <=> s.err)
      /\ r.openReasoningID = id /\ r.openTextID = s.openTextID
      /\ r.openReasoningMessageID = s.openReasoningMessageID
  BY <1>1 DEF EmitterType
<1> HIDE DEF r
<1>4. CASE ~Good(s)
  BY <1>1, <1>2, <1>3, <1>4 DEF BlockInv, WireInv, Good
<1>5. CASE Good(s)
  <2>1. ReasoningStart(e, id) = r
    BY <1>1, <1>2, <1>5
  <2>2. TracksAll(s.wire, e.openTextID, id, e.openReasoningMessageID)
    BY <1>1, <1>5, TypedBlocks DEF BlockInv, TracksAll
  <2> QED
    BY <1>1, <1>3, <2>1, <2>2 DEF BlockInv, WireInv, SameOpen
<1> QED
  BY <1>4, <1>5

LEMMA ReasoningMessageStartBlocks ==
    ASSUME NEW e, BlockInv(e), NEW id \in Nat
    PROVE  BlockInv(ReasoningMessageStart(e, id))
<1> DEFINE frame == BlockFrame("REASONING_MESSAGE_START", id, NoDelta)
           s     == Emit(e, frame)
           r     == [s EXCEPT !.openReasoningMessageID = id]
<1>1. /\ s \in EmitterType /\ WireInv(s) /\ SameOpen(s, e)
      /\ Good(s) => /\ Good(e) /\ Wrote(e, frame) /\ id # NoMessage
                    /\ Tracks(s.wire, ReasoningMessageKind, id)
                    /\ \A x \in Nat : Tracks(e.wire, TextKind, x) => Tracks(s.wire, TextKind, x)
                    /\ \A x \in Nat : Tracks(e.wire, ReasoningKind, x)
                                         => Tracks(s.wire, ReasoningKind, x)
  BY EmitBlockFrame, KindsAre, TypedBlocks, NoDeltaType
<1>2. ReasoningMessageStart(e, id) = IF id # NoMessage /\ Wrote(e, frame) THEN r ELSE s
  BY DEF ReasoningMessageStart
<1> HIDE DEF s, frame
<1>3. /\ r \in EmitterType /\ r.wire = s.wire /\ (r.encErr <=> s.encErr) /\ (r.err <=> s.err)
      /\ r.openReasoningMessageID = id /\ r.openTextID = s.openTextID
      /\ r.openReasoningID = s.openReasoningID
  BY <1>1 DEF EmitterType
<1> HIDE DEF r
<1>4. CASE ~Good(s)
  BY <1>1, <1>2, <1>3, <1>4 DEF BlockInv, WireInv, Good
<1>5. CASE Good(s)
  <2>1. ReasoningMessageStart(e, id) = r
    BY <1>1, <1>2, <1>5
  <2>2. TracksAll(s.wire, e.openTextID, e.openReasoningID, id)
    BY <1>1, <1>5, TypedBlocks DEF BlockInv, TracksAll
  <2> QED
    BY <1>1, <1>3, <2>1, <2>2 DEF BlockInv, WireInv, SameOpen
<1> QED
  BY <1>4, <1>5

(* Content frames, and all other frames but the tool frames.                *)
LEMMA ContentBlocks ==
    ASSUME NEW e, BlockInv(e), NEW id \in Nat, NEW delta \in Delta
    PROVE  BlockInv(TextContent(e, id, delta)) /\ BlockInv(ReasoningContent(e, id, delta))
<1>1. ASSUME NEW type \in {"TEXT_CONTENT", "REASONING_CONTENT"}
      PROVE  BlockInv(Emit(e, BlockFrame(type, id, delta)))
  <2> DEFINE frame == BlockFrame(type, id, delta)
  <2>1. type \in BlockTypes /\ frame.type = type /\ type \notin ToolTypes
    BY DEF BlockFrame, BlockTypes, ToolTypes, CallTypes
  <2>2. frame \in Frames
    BY <2>1, FramesAreFrames DEF Neutral
  <2> HIDE DEF frame
  <2>3. \A kind \in Kinds : frame.type # kind.start
    BY <2>1 DEF Kinds, TextKind, ReasoningKind, ReasoningMessageKind
  <2> QED
    BY <2>1, <2>2, <2>3, EmitOther DEF frame
<1> QED
  BY <1>1 DEF TextContent, ReasoningContent

LEMMA OtherBlocks ==
    ASSUME NEW e, BlockInv(e), NEW empty \in BOOLEAN
    PROVE  BlockInv(SendEvent(e)) /\ BlockInv(SendPatch(e, empty)) /\ BlockInv(EmitNil(e))
<1>1. ASSUME NEW type \in OtherTypes
      PROVE  BlockInv(Emit(e, OtherFrame(type)))
  <2>1. /\ OtherFrame(type) \in Frames
        /\ \A kind \in Kinds : OtherFrame(type).type # kind.start
        /\ OtherFrame(type).type \notin ToolTypes
    BY <1>1, NoDeltaType
       DEF OtherFrame, Kinds, TextKind, ReasoningKind, ReasoningMessageKind, Frames, FrameTypes,
           ToolTypes, CallTypes, OtherTypes, RunTypes, ToolID, Name
  <2> QED
    BY <2>1, EmitOther
<1>2. BlockInv(EmitNil(e))
  BY DEF EmitNil, BlockInv, WireInv, Good, EmitterType
<1> QED
  BY <1>1, <1>2 DEF SendEvent, SendPatch, OtherTypes

-----------------------------------------------------------------------------
(* The helpers that end a block.  The caller may end another block than the *)
(* one remembered: then the remembered one stays remembered.                *)

LEMMA TextEndBlocks ==
    ASSUME NEW e, BlockInv(e), NEW id \in Nat
    PROVE  BlockInv(TextEnd(e, id))
<1> DEFINE frame == BlockFrame("TEXT_END", id, NoDelta)
           s     == Emit(e, frame)
           r     == [s EXCEPT !.openTextID = NoMessage]
<1>1. /\ s \in EmitterType /\ WireInv(s) /\ SameOpen(s, e)
      /\ Good(s) => /\ Good(e)
                    /\ \A x \in Nat : /\ Tracks(e.wire, TextKind, x) => Tracks(s.wire, TextKind, x)
                                      /\ Tracks(e.wire, TextKind, id) => Tracks(s.wire, TextKind, x)
                                      /\ Tracks(e.wire, ReasoningKind, x)
                                           => Tracks(s.wire, ReasoningKind, x)
                                      /\ Tracks(e.wire, ReasoningMessageKind, x)
                                           => Tracks(s.wire, ReasoningMessageKind, x)
  BY EmitBlockFrame, KindsAre, TypedBlocks, NoDeltaType
<1>2. TextEnd(e, id) = IF s.openTextID = id THEN r ELSE s
  BY DEF TextEnd
<1> HIDE DEF s, frame
<1>3. /\ r \in EmitterType /\ r.wire = s.wire /\ (r.encErr <=> s.encErr) /\ (r.err <=> s.err)
      /\ r.openTextID = NoMessage /\ r.openReasoningID = s.openReasoningID
      /\ r.openReasoningMessageID = s.openReasoningMessageID
  BY <1>1, NoDeltaType DEF EmitterType
<1> HIDE DEF r
<1>4. ASSUME Good(s)
      PROVE  /\ TracksAll(s.wire, e.openTextID, e.openReasoningID, e.openReasoningMessageID)
             /\ e.openTextID = id =>
                  TracksAll(s.wire, NoMessage, e.openReasoningID, e.openReasoningMessageID)
  BY <1>1, <1>4, TypedBlocks, NoDeltaType DEF BlockInv, TracksAll
<1>5. BlockInv(s)
  BY <1>1, <1>4 DEF BlockInv, SameOpen
<1>6. s.openTextID = id => BlockInv(r)
  BY <1>1, <1>3, <1>4 DEF BlockInv, WireInv, SameOpen, Good
<1> QED
  BY <1>2, <1>5, <1>6

LEMMA ReasoningEndBlocks ==
    ASSUME NEW e, BlockInv(e), NEW id \in Nat
    PROVE  BlockInv(ReasoningEnd(e, id))
<1> DEFINE frame == BlockFrame("REASONING_END", id, NoDelta)
           s     == Emit(e, frame)
           r     == [s EXCEPT !.openReasoningID = NoMessage]
<1>1. /\ s \in EmitterType /\ WireInv(s) /\ SameOpen(s, e)
      /\ Good(s) => /\ Good(e)
                    /\ \A x \in Nat : /\ Tracks(e.wire, TextKind, x) => Tracks(s.wire, TextKind, x)
                                      /\ Tracks(e.wire, ReasoningKind, x)
                                           => Tracks(s.wire, ReasoningKind, x)
                                      /\ Tracks(e.wire, ReasoningKind, id)
                                           => Tracks(s.wire, ReasoningKind, x)
                                      /\ Tracks(e.wire, ReasoningMessageKind, x)
                                           => Tracks(s.wire, ReasoningMessageKind, x)
  BY EmitBlockFrame, KindsAre, TypedBlocks, NoDeltaType
<1>2. ReasoningEnd(e, id) = IF s.openReasoningID = id THEN r ELSE s
  BY DEF ReasoningEnd
<1> HIDE DEF s, frame
<1>3. /\ r \in EmitterType /\ r.wire = s.wire /\ (r.encErr <=> s.encErr) /\ (r.err <=> s.err)
      /\ r.openReasoningID = NoMessage /\ r.openTextID = s.openTextID
      /\ r.openReasoningMessageID = s.openReasoningMessageID
  BY <1>1, NoDeltaType DEF EmitterType
<1> HIDE DEF r
<1>4. ASSUME Good(s)
      PROVE  /\ TracksAll(s.wire, e.openTextID, e.openReasoningID, e.openReasoningMessageID)
             /\ e.openReasoningID = id =>
                  TracksAll(s.wire, e.openTextID, NoMessage, e.openReasoningMessageID)
  BY <1>1, <1>4, TypedBlocks, NoDeltaType DEF BlockInv, TracksAll
<1>5. BlockInv(s)
  BY <1>1, <1>4 DEF BlockInv, SameOpen
<1>6. s.openReasoningID = id => BlockInv(r)
  BY <1>1, <1>3, <1>4 DEF BlockInv, WireInv, SameOpen, Good
<1> QED
  BY <1>2, <1>5, <1>6

LEMMA ReasoningMessageEndBlocks ==
    ASSUME NEW e, BlockInv(e), NEW id \in Nat
    PROVE  BlockInv(ReasoningMessageEnd(e, id))
<1> DEFINE frame == BlockFrame("REASONING_MESSAGE_END", id, NoDelta)
           s     == Emit(e, frame)
           r     == [s EXCEPT !.openReasoningMessageID = NoMessage]
<1>1. /\ s \in EmitterType /\ WireInv(s) /\ SameOpen(s, e)
      /\ Good(s) => /\ Good(e)
                    /\ \A x \in Nat : /\ Tracks(e.wire, TextKind, x) => Tracks(s.wire, TextKind, x)
                                      /\ Tracks(e.wire, ReasoningKind, x)
                                           => Tracks(s.wire, ReasoningKind, x)
                                      /\ Tracks(e.wire, ReasoningMessageKind, x)
                                           => Tracks(s.wire, ReasoningMessageKind, x)
                                      /\ Tracks(e.wire, ReasoningMessageKind, id)
                                           => Tracks(s.wire, ReasoningMessageKind, x)
  BY EmitBlockFrame, KindsAre, TypedBlocks, NoDeltaType
<1>2. ReasoningMessageEnd(e, id) = IF s.openReasoningMessageID = id THEN r ELSE s
  BY DEF ReasoningMessageEnd
<1> HIDE DEF s, frame
<1>3. /\ r \in EmitterType /\ r.wire = s.wire /\ (r.encErr <=> s.encErr) /\ (r.err <=> s.err)
      /\ r.openReasoningMessageID = NoMessage /\ r.openTextID = s.openTextID
      /\ r.openReasoningID = s.openReasoningID
  BY <1>1, NoDeltaType DEF EmitterType
<1> HIDE DEF r
<1>4. ASSUME Good(s)
      PROVE  /\ TracksAll(s.wire, e.openTextID, e.openReasoningID, e.openReasoningMessageID)
             /\ e.openReasoningMessageID = id =>
                  TracksAll(s.wire, e.openTextID, e.openReasoningID, NoMessage)
  BY <1>1, <1>4, TypedBlocks, NoDeltaType DEF BlockInv, TracksAll
<1>5. BlockInv(s)
  BY <1>1, <1>4 DEF BlockInv, SameOpen
<1>6. s.openReasoningMessageID = id => BlockInv(r)
  BY <1>1, <1>3, <1>4 DEF BlockInv, WireInv, SameOpen, Good
<1> QED
  BY <1>2, <1>5, <1>6

-----------------------------------------------------------------------------
(* closeOpenBlocks: each part is the END of the remembered block, which is  *)
(* then forgotten; afterwards none is remembered, so none is open.          *)

(* Forgetting an open block changes nothing else. *)
LEMMA ForgettingABlock ==
    ASSUME NEW e \in EmitterType
    PROVE  /\ LET f == [e EXCEPT !.openTextID = NoMessage] IN
                 /\ f \in EmitterType /\ f.wire = e.wire /\ (f.err <=> e.err)
                 /\ (f.encErr <=> e.encErr) /\ f.openTextID = NoMessage
                 /\ f.openReasoningID = e.openReasoningID
                 /\ f.openReasoningMessageID = e.openReasoningMessageID
           /\ LET f == [e EXCEPT !.openReasoningMessageID = NoMessage] IN
                 /\ f \in EmitterType /\ f.wire = e.wire /\ (f.err <=> e.err)
                 /\ (f.encErr <=> e.encErr) /\ f.openReasoningMessageID = NoMessage
                 /\ f.openTextID = e.openTextID /\ f.openReasoningID = e.openReasoningID
           /\ LET f == [e EXCEPT !.openReasoningID = NoMessage] IN
                 /\ f \in EmitterType /\ f.wire = e.wire /\ (f.err <=> e.err)
                 /\ (f.encErr <=> e.encErr) /\ f.openReasoningID = NoMessage
                 /\ f.openTextID = e.openTextID
                 /\ f.openReasoningMessageID = e.openReasoningMessageID
  BY NoDeltaType DEF EmitterType, NoMessage

LEMMA CloseTextBlocks ==
    ASSUME NEW e, BlockInv(e)
    PROVE  LET c == CloseOpenText(e) IN
           /\ BlockInv(c) /\ c.openTextID = NoMessage
           /\ c.openReasoningID = e.openReasoningID
           /\ c.openReasoningMessageID = e.openReasoningMessageID
<1>1. CASE e.openTextID = NoMessage
  BY <1>1 DEF CloseOpenText
<1>2. CASE e.openTextID # NoMessage
  <2> DEFINE e0    == [e EXCEPT !.openTextID = NoMessage]
             id    == e.openTextID
             s     == Emit(e0, BlockFrame("TEXT_END", id, NoDelta))
  <2>1. /\ e0 \in EmitterType /\ e0.wire = e.wire /\ (e0.err <=> e.err)
        /\ (e0.encErr <=> e.encErr) /\ e0.openTextID = NoMessage
        /\ e0.openReasoningID = e.openReasoningID
        /\ e0.openReasoningMessageID = e.openReasoningMessageID
    BY ForgettingABlock DEF BlockInv
  <2>2. CloseOpenText(e) = s
    BY <1>2 DEF CloseOpenText
  <2> HIDE DEF e0
  <2>3. WireInv(e0) /\ (Good(e0) <=> Good(e)) /\ id \in Nat
    BY <2>1, TypedBlocks DEF WireInv, Good
  <2>4. /\ s \in EmitterType /\ WireInv(s) /\ SameOpen(s, e0)
        /\ Good(s) => /\ Good(e0)
                      /\ \A x \in Nat :
                           /\ Tracks(e0.wire, TextKind, id) => Tracks(s.wire, TextKind, x)
                           /\ Tracks(e0.wire, ReasoningKind, x) => Tracks(s.wire, ReasoningKind, x)
                           /\ Tracks(e0.wire, ReasoningMessageKind, x)
                                => Tracks(s.wire, ReasoningMessageKind, x)
    BY <2>1, <2>3, EmitBlockFrame, KindsAre, NoDeltaType
  <2> HIDE DEF s
  <2>5. Good(s) => TracksAll(s.wire, NoMessage, e.openReasoningID, e.openReasoningMessageID)
    BY <2>1, <2>3, <2>4, TypedBlocks, NoDeltaType DEF BlockInv, TracksAll
  <2> QED
    BY <2>1, <2>2, <2>4, <2>5 DEF BlockInv, SameOpen
<1> QED
  BY <1>1, <1>2

LEMMA CloseReasoningMessageBlocks ==
    ASSUME NEW e, BlockInv(e)
    PROVE  LET c == CloseOpenReasoningMessage(e) IN
           /\ BlockInv(c) /\ c.openReasoningMessageID = NoMessage
           /\ c.openTextID = e.openTextID /\ c.openReasoningID = e.openReasoningID
<1>1. CASE e.openReasoningMessageID = NoMessage
  BY <1>1 DEF CloseOpenReasoningMessage
<1>2. CASE e.openReasoningMessageID # NoMessage
  <2> DEFINE e0    == [e EXCEPT !.openReasoningMessageID = NoMessage]
             id    == e.openReasoningMessageID
             s     == Emit(e0, BlockFrame("REASONING_MESSAGE_END", id, NoDelta))
  <2>1. /\ e0 \in EmitterType /\ e0.wire = e.wire /\ (e0.err <=> e.err)
        /\ (e0.encErr <=> e.encErr) /\ e0.openReasoningMessageID = NoMessage
        /\ e0.openTextID = e.openTextID /\ e0.openReasoningID = e.openReasoningID
    BY ForgettingABlock DEF BlockInv
  <2>2. CloseOpenReasoningMessage(e) = s
    BY <1>2 DEF CloseOpenReasoningMessage
  <2> HIDE DEF e0
  <2>3. WireInv(e0) /\ (Good(e0) <=> Good(e)) /\ id \in Nat
    BY <2>1, TypedBlocks DEF WireInv, Good
  <2>4. /\ s \in EmitterType /\ WireInv(s) /\ SameOpen(s, e0)
        /\ Good(s) => /\ Good(e0)
                      /\ \A x \in Nat :
                           /\ Tracks(e0.wire, TextKind, x) => Tracks(s.wire, TextKind, x)
                           /\ Tracks(e0.wire, ReasoningKind, x) => Tracks(s.wire, ReasoningKind, x)
                           /\ Tracks(e0.wire, ReasoningMessageKind, id)
                                => Tracks(s.wire, ReasoningMessageKind, x)
    BY <2>1, <2>3, EmitBlockFrame, KindsAre, NoDeltaType
  <2> HIDE DEF s
  <2>5. Good(s) => TracksAll(s.wire, e.openTextID, e.openReasoningID, NoMessage)
    BY <2>1, <2>3, <2>4, TypedBlocks, NoDeltaType DEF BlockInv, TracksAll
  <2> QED
    BY <2>1, <2>2, <2>4, <2>5 DEF BlockInv, SameOpen
<1> QED
  BY <1>1, <1>2

LEMMA CloseReasoningBlocks ==
    ASSUME NEW e, BlockInv(e)
    PROVE  LET c == CloseOpenReasoning(e) IN
           /\ BlockInv(c) /\ c.openReasoningID = NoMessage
           /\ c.openTextID = e.openTextID
           /\ c.openReasoningMessageID = e.openReasoningMessageID
<1>1. CASE e.openReasoningID = NoMessage
  BY <1>1 DEF CloseOpenReasoning
<1>2. CASE e.openReasoningID # NoMessage
  <2> DEFINE e0    == [e EXCEPT !.openReasoningID = NoMessage]
             id    == e.openReasoningID
             s     == Emit(e0, BlockFrame("REASONING_END", id, NoDelta))
  <2>1. /\ e0 \in EmitterType /\ e0.wire = e.wire /\ (e0.err <=> e.err)
        /\ (e0.encErr <=> e.encErr) /\ e0.openReasoningID = NoMessage
        /\ e0.openTextID = e.openTextID
        /\ e0.openReasoningMessageID = e.openReasoningMessageID
    BY ForgettingABlock DEF BlockInv
  <2>2. CloseOpenReasoning(e) = s
    BY <1>2 DEF CloseOpenReasoning
  <2> HIDE DEF e0
  <2>3. WireInv(e0) /\ (Good(e0) <=> Good(e)) /\ id \in Nat
    BY <2>1, TypedBlocks DEF WireInv, Good
  <2>4. /\ s \in EmitterType /\ WireInv(s) /\ SameOpen(s, e0)
        /\ Good(s) => /\ Good(e0)
                      /\ \A x \in Nat :
                           /\ Tracks(e0.wire, TextKind, x) => Tracks(s.wire, TextKind, x)
                           /\ Tracks(e0.wire, ReasoningKind, id) => Tracks(s.wire, ReasoningKind, x)
                           /\ Tracks(e0.wire, ReasoningMessageKind, x)
                                => Tracks(s.wire, ReasoningMessageKind, x)
    BY <2>1, <2>3, EmitBlockFrame, KindsAre, NoDeltaType
  <2> HIDE DEF s
  <2>5. Good(s) => TracksAll(s.wire, e.openTextID, NoMessage, e.openReasoningMessageID)
    BY <2>1, <2>3, <2>4, TypedBlocks, NoDeltaType DEF BlockInv, TracksAll
  <2> QED
    BY <2>1, <2>2, <2>4, <2>5 DEF BlockInv, SameOpen
<1> QED
  BY <1>1, <1>2

LEMMA CloseOpenBlocksCloses ==
    ASSUME NEW e, BlockInv(e)
    PROVE  LET c == CloseOpenBlocks(e) IN
           BlockInv(c) /\ (Good(c) => TracksAll(c.wire, NoMessage, NoMessage, NoMessage))
<1> DEFINE t == CloseOpenText(e)
           m == CloseOpenReasoningMessage(t)
           r == CloseOpenReasoning(m)
<1>1. BlockInv(t) /\ t.openTextID = NoMessage
  BY CloseTextBlocks
<1> HIDE DEF t
<1>2. BlockInv(m) /\ m.openTextID = NoMessage /\ m.openReasoningMessageID = NoMessage
  BY <1>1, CloseReasoningMessageBlocks
<1> HIDE DEF m
<1>3. /\ BlockInv(r) /\ r.openTextID = NoMessage /\ r.openReasoningMessageID = NoMessage
      /\ r.openReasoningID = NoMessage
  BY <1>2, CloseReasoningBlocks
<1> HIDE DEF r
<1>4. Good(r) => TracksAll(r.wire, NoMessage, NoMessage, NoMessage)
  BY <1>3 DEF BlockInv
<1> QED
  BY <1>3, <1>4 DEF CloseOpenBlocks, r, m, t

-----------------------------------------------------------------------------
(* The tool helpers. *)

LEMMA ToolFrameBlocks ==
    ASSUME NEW e, BlockInv(e), NEW frame \in Frames, frame.type \in ToolTypes
    PROVE  BlockInv(Emit(CloseOpenBlocks(e), frame))
<1>1. \A kind \in Kinds : frame.type # kind.start
  BY DEF ToolTypes, CallTypes, Kinds, TextKind, ReasoningKind, ReasoningMessageKind
<1> QED
  BY <1>1, CloseOpenBlocksCloses, EmitOther

LEMMA CallSetsAreFree ==
    ASSUME NEW e, BlockInv(e), NEW call \in ToolIDs
    PROVE  /\ BlockInv([e EXCEPT !.startedToolCalls = @ \cup {call}])
           /\ BlockInv([e EXCEPT !.endedToolCalls = @ \cup {call}])
  BY DEF BlockInv, WireInv, Good, EmitterType

LEMMA ToolBlocks ==
    ASSUME NEW e, BlockInv(e), NEW call \in ToolID, NEW name \in Name, NEW msg \in Nat,
           NEW delta \in Delta
    PROVE  /\ BlockInv(ToolStart(e, call, name, msg))
           /\ BlockInv(ToolArgs(e, call, delta))
           /\ BlockInv(ToolEnd(e, call))
           /\ BlockInv(ToolResult(e, msg, call, delta))
<1> DEFINE closed == CloseOpenBlocks(e)
           start  == ToolStartFrame(call, name, msg)
           args   == CallFrame("TOOL_CALL_ARGS", call, delta)
           end    == CallFrame("TOOL_CALL_END", call, NoDelta)
           answer == [type |-> "TOOL_CALL_RESULT", msg |-> msg, call |-> call, name |-> NoName,
                      delta |-> IF delta = NoDelta THEN EmptyContent ELSE delta]
<1>1. /\ start \in Frames /\ start.type \in ToolTypes /\ args \in Frames /\ args.type \in ToolTypes
      /\ end \in Frames /\ end.type \in ToolTypes
      /\ answer \in Frames /\ answer.type \in ToolTypes
  BY NoDeltaType
     DEF ToolStartFrame, CallFrame, Frames, FrameTypes, ToolTypes, CallTypes, Name, Delta
<1> HIDE DEF start, args, end, answer
<1>2. /\ BlockInv(closed) /\ BlockInv(Emit(closed, start)) /\ BlockInv(Emit(closed, args))
      /\ BlockInv(Emit(closed, end)) /\ BlockInv(Emit(closed, answer))
  BY <1>1, ToolFrameBlocks, CloseOpenBlocksCloses
<1>3. call # NoID =>
        /\ BlockInv([Emit(closed, start) EXCEPT !.startedToolCalls = @ \cup {call}])
        /\ BlockInv([Emit(closed, end) EXCEPT !.endedToolCalls = @ \cup {call}])
  BY <1>2, CallSetsAreFree DEF ToolID
<1>4. BlockInv(ToolStart(e, call, name, msg))
  BY <1>2, <1>3 DEF ToolStart, start
<1>5. BlockInv(ToolArgs(e, call, delta)) /\ BlockInv(ToolResult(e, msg, call, delta))
  BY <1>2 DEF ToolArgs, ToolResult, args, answer
<1>6. BlockInv(ToolEnd(e, call))
  BY <1>2, <1>3 DEF ToolEnd, end
<1> QED
  BY <1>4, <1>5, <1>6

LEMMA FreshBlocks ==
    ASSUME NEW script \in Seq(Outcomes)
    PROVE  BlockInv(NewEmitter(script))
<1>1. NewEmitter(script) \in EmitterType
  BY DEF NewEmitter, EmitterType, NoMessage
<1>2. WireInv(NewEmitter(script))
  BY DEF NewEmitter, WireInv, MessagesNamed, ToolsOutsideBlocks
<1>3. NewEmitter(script).wire = <<>>
  BY DEF NewEmitter
<1> QED
  BY <1>1, <1>2, <1>3 DEF BlockInv, TracksAll, Tracks

-----------------------------------------------------------------------------
(***************************************************************************)
(* A caller that starts a block only where none is open: then the blocks   *)
(* open on the wire are exactly the ones the emitter remembers, blocks and *)
(* tool calls keep apart, and frames land inside the block they name.      *)
(***************************************************************************)

(* A block of this kind and message is open at the end of the wire.         *)
OpenNow(w, kind, id) ==
    \E i \in DOMAIN w : OpenBefore(w, kind, i, Len(w) + 1) /\ w[i].msg = id

LEMMA OpenNowAppend ==
    ASSUME NEW w \in Seq(Frames), NEW frame \in Frames, NEW kind \in Kinds, NEW id
    PROVE  OpenNow(Append(w, frame), kind, id) <=>
               \/ frame.type = kind.start /\ frame.msg = id
               \/ OpenNow(w, kind, id) /\ ~(frame.type = kind.end /\ frame.msg = id)
<1> DEFINE v == Append(w, frame)
           n == Len(w) + 1
<1>1. /\ n \in Nat /\ Len(v) = n /\ DOMAIN w = 1..(n - 1) /\ DOMAIN v = 1..n
      /\ v[n] = frame /\ \A i \in 1..(n - 1) : v[i] = w[i]
      /\ Len(w) + 1 = n
  BY AppendFacts
<1> HIDE DEF v, n
<1>2. OpenBefore(v, kind, n, n + 1) <=> frame.type = kind.start
  BY <1>1 DEF OpenBefore
<1>3. ASSUME NEW i \in 1..(n - 1)
      PROVE  OpenBefore(v, kind, i, n + 1) <=>
                 OpenBefore(w, kind, i, n) /\ ~(frame.type = kind.end /\ frame.msg = w[i].msg)
  <2>1. (i+1)..((n + 1) - 1) = ((i+1)..(n - 1)) \cup {n}
    BY <1>1
  <2>2. v[i] = w[i] /\ \A j \in (i+1)..(n - 1) : v[j] = w[j]
    BY <1>1
  <2> QED
    BY <1>1, <2>1, <2>2 DEF OpenBefore
<1>4. OpenNow(v, kind, id) <=> \E i \in 1..n : OpenBefore(v, kind, i, n + 1) /\ v[i].msg = id
  BY <1>1 DEF OpenNow
<1>5. OpenNow(w, kind, id) <=> \E i \in 1..(n - 1) : OpenBefore(w, kind, i, n) /\ w[i].msg = id
  BY <1>1 DEF OpenNow
<1>6. \A i : i \in 1..n <=> i \in 1..(n - 1) \/ i = n
  BY <1>1
<1> QED
  BY <1>1, <1>2, <1>3, <1>4, <1>5, <1>6 DEF v

(* What BlocksNeverOverlap and FramesInsideTheirBlock say of the wire.      *)
ApartAt(w, k) ==
    /\ w[k].type \in {"TEXT_START", "REASONING_START"} \cup CallTypes =>
         ~ \E kind \in Kinds, i \in 1..(k-1) : OpenBefore(w, kind, i, k)
    /\ w[k].type \in {"TEXT_START", "REASONING_START"} =>
         \A i \in 1..(k-1) : w[i].type = "TOOL_CALL_START" =>
             \E j \in (i+1)..(k-1) : w[j].type = "TOOL_CALL_END" /\ w[j].call = w[i].call

InsideAt(w, k) ==
    \A kind \in Kinds :
        w[k].type \in kind.inner \cup {kind.end} =>
            \E i \in 1..(k-1) : OpenBefore(w, kind, i, k) /\ w[i].msg = w[k].msg

Apart(w)        == \A k \in DOMAIN w : ApartAt(w, k)
InsideBlocks(w) == \A k \in DOMAIN w : InsideAt(w, k)

NoneOpen(w)  == \A kind \in Kinds : \A id : ~OpenNow(w, kind, id)
CallsOver(w) ==
    \A i \in DOMAIN w : w[i].type = "TOOL_CALL_START" =>
        \E j \in (i+1)..Len(w) : w[j].type = "TOOL_CALL_END" /\ w[j].call = w[i].call

(* The frames before the k-th decide.  *)
LEMMA SameAt ==
    ASSUME NEW w \in Seq(Frames), NEW frame \in Frames, NEW k \in DOMAIN w
    PROVE  /\ ApartAt(Append(w, frame), k) <=> ApartAt(w, k)
           /\ InsideAt(Append(w, frame), k) <=> InsideAt(w, k)
<1> DEFINE v == Append(w, frame)
<1>1. /\ k \in 1..(Len(w) + 1) /\ v[k] = w[k] /\ \A i \in 1..(k-1) : v[i] = w[i]
      /\ \A i : \A j \in (i+1)..(k-1) : i \in 1..(k-1) => v[j] = w[j]
  BY AppendFacts
<1>2. \A kind \in Kinds, i \in 1..(k-1) : OpenBefore(v, kind, i, k) <=> OpenBefore(w, kind, i, k)
  BY <1>1, SamePrefix
<1> HIDE DEF v
<1>3. ApartAt(v, k) <=> ApartAt(w, k)
  <2>1. (\E kind \in Kinds, i \in 1..(k-1) : OpenBefore(v, kind, i, k))
        <=> (\E kind \in Kinds, i \in 1..(k-1) : OpenBefore(w, kind, i, k))
    BY <1>2
  <2>2. ASSUME NEW i \in 1..(k-1)
        PROVE  /\ v[i].type = "TOOL_CALL_START" <=> w[i].type = "TOOL_CALL_START"
               /\ (\E j \in (i+1)..(k-1) : v[j].type = "TOOL_CALL_END" /\ v[j].call = v[i].call)
                  <=> (\E j \in (i+1)..(k-1) : w[j].type = "TOOL_CALL_END" /\ w[j].call = w[i].call)
    BY <1>1, <2>2
  <2> QED
    BY <1>1, <2>1, <2>2 DEF ApartAt
<1>4. InsideAt(v, k) <=> InsideAt(w, k)
  BY <1>1, <1>2 DEF InsideAt
<1> QED
  BY <1>3, <1>4 DEF v

LEMMA ApartAppend ==
    ASSUME NEW w \in Seq(Frames), NEW frame \in Frames, Apart(w),
           frame.type \in {"TEXT_START", "REASONING_START"} \cup CallTypes => NoneOpen(w),
           frame.type \in {"TEXT_START", "REASONING_START"} => CallsOver(w)
    PROVE  Apart(Append(w, frame))
<1> DEFINE v == Append(w, frame)
           n == Len(w) + 1
<1>1. /\ DOMAIN v = DOMAIN w \cup {n} /\ v[n] = frame /\ n \in Nat /\ DOMAIN w = 1..(n - 1)
      /\ \A i \in 1..(n - 1) : v[i] = w[i]
      /\ n \in 1..(Len(w) + 1) /\ n - 1 = Len(w)
  BY AppendFacts
<1>2. \A kind \in Kinds, i \in 1..(n - 1) : OpenBefore(v, kind, i, n) <=> OpenBefore(w, kind, i, n)
  BY <1>1, SamePrefix
<1>3. NoneOpen(w) => \A kind \in Kinds, i \in 1..(n - 1) : ~OpenBefore(w, kind, i, n)
  BY <1>1 DEF NoneOpen, OpenNow
<1>4. \A k \in DOMAIN w : ApartAt(v, k)
  BY SameAt DEF Apart
<1> HIDE DEF v, n
<1>5. CallsOver(w) => \A i \in 1..(n - 1) : w[i].type = "TOOL_CALL_START" =>
          \E j \in (i+1)..(n - 1) : w[j].type = "TOOL_CALL_END" /\ w[j].call = w[i].call
  BY <1>1 DEF CallsOver
<1>6. CallsOver(w) => \A i \in 1..(n - 1) : v[i].type = "TOOL_CALL_START" =>
          \E j \in (i+1)..(n - 1) : v[j].type = "TOOL_CALL_END" /\ v[j].call = v[i].call
  BY <1>1, <1>5
<1>7. ApartAt(v, n)
  BY <1>1, <1>2, <1>3, <1>6 DEF ApartAt
<1> QED
  BY <1>1, <1>4, <1>7 DEF Apart, v

LEMMA InsideAppend ==
    ASSUME NEW w \in Seq(Frames), NEW frame \in Frames, InsideBlocks(w),
           \A kind \in Kinds :
             frame.type \in kind.inner \cup {kind.end} => OpenNow(w, kind, frame.msg)
    PROVE  InsideBlocks(Append(w, frame))
<1> DEFINE v == Append(w, frame)
           n == Len(w) + 1
<1>1. /\ DOMAIN v = DOMAIN w \cup {n} /\ v[n] = frame /\ n \in Nat /\ DOMAIN w = 1..(n - 1)
      /\ \A i \in 1..(n - 1) : v[i] = w[i]
      /\ n \in 1..(Len(w) + 1) /\ n = Len(w) + 1
  BY AppendFacts
<1>2. \A kind \in Kinds, i \in 1..(n - 1) : OpenBefore(v, kind, i, n) <=> OpenBefore(w, kind, i, n)
  BY <1>1, SamePrefix
<1>3. \A k \in DOMAIN w : InsideAt(v, k)
  BY SameAt DEF InsideBlocks
<1> HIDE DEF v, n
<1>4. ASSUME NEW kind \in Kinds, OpenNow(w, kind, frame.msg)
      PROVE  \E i \in 1..(n - 1) : OpenBefore(v, kind, i, n) /\ v[i].msg = frame.msg
  BY <1>1, <1>2, <1>4 DEF OpenNow
<1>5. InsideAt(v, n)
  BY <1>1, <1>4 DEF InsideAt
<1> QED
  BY <1>1, <1>3, <1>5 DEF InsideBlocks, v

-----------------------------------------------------------------------------
(* The emitter that goes with such a wire. *)

CallsNamed(w) == \A i \in DOMAIN w : w[i].type = "TOOL_CALL_START" => w[i].call \in ToolIDs

Marks(w, kind, id) == \A x : OpenNow(w, kind, x) <=> x = id /\ id # NoMessage

MarksAll(e) ==
    /\ Marks(e.wire, TextKind, e.openTextID)
    /\ Marks(e.wire, ReasoningKind, e.openReasoningID)
    /\ Marks(e.wire, ReasoningMessageKind, e.openReasoningMessageID)

(* The part about the wire, and the whole. *)
Orderly(e) ==
    /\ CallsNamed(e.wire)
    /\ ~e.encErr => Apart(e.wire)
    /\ Good(e) => MarksAll(e)

WireOK(e) == EmitterInv(e) /\ Orderly(e)

Within(e) == ~e.encErr => InsideBlocks(e.wire)

Forgot(e) ==
    /\ e.openTextID = NoMessage /\ e.openReasoningID = NoMessage
    /\ e.openReasoningMessageID = NoMessage

LEMMA ForgotNone ==
    ASSUME NEW e, MarksAll(e), Forgot(e)
    PROVE  NoneOpen(e.wire)
  BY DEF MarksAll, Marks, Forgot, NoneOpen, Kinds

LEMMA EndedCallsAreOver ==
    ASSUME NEW e, EmitterInv(e), CallsNamed(e.wire), e.startedToolCalls \subseteq e.endedToolCalls
    PROVE  CallsOver(e.wire)
<1> DEFINE w == e.wire
<1> SUFFICES ASSUME NEW i \in DOMAIN w, w[i].type = "TOOL_CALL_START"
             PROVE  \E j \in (i+1)..Len(w) : w[j].type = "TOOL_CALL_END" /\ w[j].call = w[i].call
  BY DEF CallsOver
<1> DEFINE c == w[i].call
<1>1. w \in Seq(Frames) /\ DOMAIN w = 1..Len(w) /\ Len(w) \in Nat /\ c \in ToolIDs
  BY DEF EmitterInv, EmitterType, CallsNamed
<1>2. Starts(w[i], c) /\ c \in e.endedToolCalls
  BY <1>1 DEF Starts, EmitterInv, RemembersCalls
<1>3. PICK j \in DOMAIN w : Ends(w[j], c)
  BY <1>1, <1>2 DEF EmitterInv, RemembersCalls
<1>4. j # i
  BY <1>2, <1>3 DEF Starts, Ends
<1>5. ~(j \in 1..(i - 1))
  BY <1>1, <1>2, <1>3 DEF EmitterInv, OneLifecycle
<1>6. j \in (i+1)..Len(w)
  BY <1>1, <1>3, <1>4, <1>5
<1> QED
  BY <1>3, <1>6 DEF Ends

(* What a frame may be when it is sent. *)
Starting == {"TEXT_START", "REASONING_START"}

Sendable(e, frame) ==
    /\ frame \in Frames
    /\ frame.type = "TOOL_CALL_START" => frame.call \in ToolIDs
    /\ Good(e) /\ frame.type \in Starting \cup CallTypes => Forgot(e)
    /\ Good(e) /\ frame.type \in Starting => e.startedToolCalls \subseteq e.endedToolCalls

Belongs(w, frame) ==
    \A kind \in Kinds : frame.type \in kind.inner \cup {kind.end} => OpenNow(w, kind, frame.msg)

LEMMA EmitFact ==
    ASSUME NEW e \in EmitterType, NEW frame \in Frames
    PROVE  LET s == Emit(e, frame) IN
           /\ s \in EmitterType /\ SameOpen(s, e) /\ SameCalls(s, e)
           /\ IF Wrote(e, frame)
              THEN /\ s.wire = Append(e.wire, frame) /\ Valid(frame)
                   /\ ~e.err /\ ~s.err /\ (s.encErr <=> e.encErr)
              ELSE /\ s.wire = e.wire /\ ~Good(s)
                   /\ (e.err => s.err) /\ (e.encErr => s.encErr)
<1> DEFINE s == Emit(e, frame)
<1>1. s \in EmitterType
  BY EmitType
<1>2. SameOpen(s, e) /\ SameCalls(s, e)
  BY DEF Emit, SameOpen, SameCalls, EmitterType
<1>3. CASE e.err
  BY <1>1, <1>3 DEF Emit, SameOpen, SameCalls, Good, Wrote
<1>4. CASE ~e.err /\ Wrote(e, frame)
  <2>1. /\ s.wire = Append(e.wire, frame) /\ Valid(frame) /\ ~s.err /\ (s.encErr <=> e.encErr)
    BY <1>4 DEF Emit, Wrote, WriteEvent, EmitterType
  <2> QED
    BY <1>1, <1>2, <1>4, <2>1
<1>5. CASE ~e.err /\ ~Wrote(e, frame)
  <2>1. WriteEvent(e, frame) \in Outcomes /\ WriteEvent(e, frame) # "written"
    BY <1>5 DEF WriteEvent, EmitterType, Outcomes, Wrote
  <2>2. s.wire = e.wire /\ (e.encErr => s.encErr) /\ (s.err \/ s.encErr)
    BY <1>5, <2>1 DEF Emit, EmitterType, Outcomes
  <2> QED
    BY <1>1, <1>2, <1>5, <2>2 DEF Good
<1> QED
  BY <1>3, <1>4, <1>5

(* What the frame changes of the blocks open. *)
Shifts(w, frame, v) ==
    \A kind \in Kinds : \A x :
        OpenNow(v, kind, x) <=>
            \/ frame.type = kind.start /\ frame.msg = x
            \/ OpenNow(w, kind, x) /\ ~(frame.type = kind.end /\ frame.msg = x)

Sends(e, frame, s) ==
    /\ CallsNamed(s.wire) /\ (~s.encErr => Apart(s.wire))
    /\ Within(e) /\ (Good(e) => Belongs(e.wire, frame)) => Within(s)
    /\ Good(s) => /\ Good(e) /\ Wrote(e, frame) /\ Valid(frame)
                  /\ s.wire = Append(e.wire, frame) /\ Shifts(e.wire, frame, s.wire)

LEMMA EmitOrderly ==
    ASSUME NEW e, WireOK(e), NEW frame, Sendable(e, frame)
    PROVE  Sends(e, frame, Emit(e, frame))
<1> DEFINE s == Emit(e, frame)
<1> SUFFICES Sends(e, frame, s)
  OBVIOUS
<1>1. e \in EmitterType /\ e.wire \in Seq(Frames) /\ frame \in Frames
  BY DEF WireOK, EmitterInv, EmitterType, Sendable
<1>2. /\ s \in EmitterType
      /\ IF Wrote(e, frame)
         THEN /\ s.wire = Append(e.wire, frame) /\ Valid(frame)
              /\ ~e.err /\ ~s.err /\ (s.encErr <=> e.encErr)
         ELSE /\ s.wire = e.wire /\ ~Good(s)
              /\ (e.err => s.err) /\ (e.encErr => s.encErr)
  BY <1>1, EmitFact
<1> HIDE DEF s
<1>3. CASE ~Wrote(e, frame)
  BY <1>2, <1>3 DEF WireOK, Orderly, Within, Sends
<1>4. CASE Wrote(e, frame)
  <2>1. CallsNamed(s.wire)
    BY <1>1, <1>2, <1>4, AppendFacts DEF WireOK, Orderly, CallsNamed, Sendable
  <2>2. ASSUME ~s.encErr PROVE Apart(s.wire)
    <3>1. Good(e) /\ Apart(e.wire) /\ MarksAll(e)
      BY <1>2, <1>4, <2>2 DEF WireOK, Orderly, Good
    <3>2. frame.type \in Starting \cup CallTypes => NoneOpen(e.wire)
      BY <3>1, ForgotNone DEF Sendable
    <3>3. frame.type \in Starting => CallsOver(e.wire)
      BY <3>1, EndedCallsAreOver DEF Sendable, WireOK, Orderly
    <3> QED
      BY <1>1, <1>2, <1>4, <3>1, <3>2, <3>3, ApartAppend DEF Starting
  <2>3. Within(e) /\ (Good(e) => Belongs(e.wire, frame)) => Within(s)
    BY <1>1, <1>2, <1>4, InsideAppend DEF Within, Belongs, Good
  <2>4. Shifts(e.wire, frame, s.wire)
    <3>1. s.wire = Append(e.wire, frame)
      BY <1>2, <1>4
    <3>2. ASSUME NEW kind \in Kinds, NEW x
          PROVE  OpenNow(Append(e.wire, frame), kind, x) <=>
                   \/ frame.type = kind.start /\ frame.msg = x
                   \/ OpenNow(e.wire, kind, x) /\ ~(frame.type = kind.end /\ frame.msg = x)
      BY <1>1, OpenNowAppend
    <3> QED
      BY <3>1, <3>2 DEF Shifts
  <2>5. Good(s) => Good(e)
    BY <1>2, <1>4 DEF Good
  <2> QED
    BY <1>2, <1>4, <2>1, <2>2, <2>3, <2>4, <2>5 DEF Sends
<1> QED
  BY <1>3, <1>4

-----------------------------------------------------------------------------
(* Every text and reasoning helper sends one frame and moves the ids so.    *)
Moved(type, id, r, e) ==
    /\ r.openTextID = IF type = "TEXT_START" THEN id
                      ELSE IF type = "TEXT_END" /\ e.openTextID = id THEN NoMessage
                      ELSE e.openTextID
    /\ r.openReasoningID = IF type = "REASONING_START" THEN id
                           ELSE IF type = "REASONING_END" /\ e.openReasoningID = id
                           THEN NoMessage ELSE e.openReasoningID
    /\ r.openReasoningMessageID =
           IF type = "REASONING_MESSAGE_START" THEN id
           ELSE IF type = "REASONING_MESSAGE_END" /\ e.openReasoningMessageID = id
           THEN NoMessage ELSE e.openReasoningMessageID

(* Where a block of that type may start. *)
Startable(type, e) ==
    /\ type \in Starting => Forgot(e) /\ e.startedToolCalls \subseteq e.endedToolCalls
    /\ type = "REASONING_MESSAGE_START" => e.openReasoningMessageID = NoMessage

LEMMA KindsShift ==
    ASSUME NEW w, NEW v, NEW type, NEW id, NEW delta, Shifts(w, BlockFrame(type, id, delta), v)
    PROVE  \A x :
             /\ OpenNow(v, TextKind, x) <=>
                  \/ type = "TEXT_START" /\ id = x
                  \/ OpenNow(w, TextKind, x) /\ ~(type = "TEXT_END" /\ id = x)
             /\ OpenNow(v, ReasoningKind, x) <=>
                  \/ type = "REASONING_START" /\ id = x
                  \/ OpenNow(w, ReasoningKind, x) /\ ~(type = "REASONING_END" /\ id = x)
             /\ OpenNow(v, ReasoningMessageKind, x) <=>
                  \/ type = "REASONING_MESSAGE_START" /\ id = x
                  \/ OpenNow(w, ReasoningMessageKind, x)
                       /\ ~(type = "REASONING_MESSAGE_END" /\ id = x)
  BY KindsAre DEF Shifts, BlockFrame

LEMMA MarksMoved ==
    ASSUME NEW e, NEW r, NEW type, NEW id, id # NoMessage, NEW delta, MarksAll(e),
           Shifts(e.wire, BlockFrame(type, id, delta), r.wire), Moved(type, id, r, e),
           Startable(type, e)
    PROVE  MarksAll(r)
<1>1. Marks(r.wire, TextKind, r.openTextID)
  BY KindsShift DEF MarksAll, Marks, Moved, Startable, Starting, Forgot
<1>2. Marks(r.wire, ReasoningKind, r.openReasoningID)
  BY KindsShift DEF MarksAll, Marks, Moved, Startable, Starting, Forgot
<1>3. Marks(r.wire, ReasoningMessageKind, r.openReasoningMessageID)
  BY KindsShift DEF MarksAll, Marks, Moved, Startable, Starting, Forgot
<1> QED
  BY <1>1, <1>2, <1>3 DEF MarksAll

Opening == {"TEXT_START", "REASONING_START", "REASONING_MESSAGE_START"}

(* r is e after the helper of that frame.                                   *)
SentAs(type, id, delta, r, e) ==
    LET frame == BlockFrame(type, id, delta)
        s     == Emit(e, frame)
    IN  /\ r.wire = s.wire /\ r.err = s.err /\ r.encErr = s.encErr /\ SameCalls(r, e)
        /\ IF type \in Opening /\ ~(Wrote(e, frame) /\ id # NoMessage)
           THEN SameOpen(r, e) ELSE Moved(type, id, r, e)

LEMMA BlockFrameSent ==
    ASSUME NEW e, WireOK(e), NEW type \in BlockTypes, NEW id \in Nat, NEW delta \in Delta,
           NEW r, EmitterInv(r), SentAs(type, id, delta, r, e), Good(e) => Startable(type, e)
    PROVE  /\ WireOK(r)
           /\ Within(e) /\ (Good(e) => Belongs(e.wire, BlockFrame(type, id, delta))) => Within(r)
           /\ Good(r) => Good(e) /\ id # NoMessage /\ Moved(type, id, r, e)
<1> DEFINE frame == BlockFrame(type, id, delta)
           s     == Emit(e, frame)
<1>1. frame \in Frames /\ frame.type = type /\ frame.msg = id
  BY FramesAreFrames DEF Neutral, BlockFrame
<1>2. type \notin CallTypes
  BY DEF BlockTypes, CallTypes
<1>3. Sendable(e, frame)
  BY <1>1, <1>2 DEF Sendable, Startable, CallTypes
<1>4. Sends(e, frame, s)
  BY <1>3, EmitOrderly
<1>5. Valid(frame) => id # NoMessage
  BY <1>1 DEF Valid
<1>6. /\ r.wire = s.wire /\ r.err = s.err /\ r.encErr = s.encErr
      /\ Wrote(e, frame) /\ id # NoMessage => Moved(type, id, r, e)
  BY DEF SentAs
<1> HIDE DEF s
<1>7. Good(r) => Good(s)
  BY <1>6 DEF Good
<1>8. Good(r) => /\ Good(e) /\ id # NoMessage /\ Moved(type, id, r, e)
                 /\ Shifts(e.wire, frame, r.wire)
  BY <1>4, <1>5, <1>6, <1>7 DEF Sends
<1>9. Good(r) => MarksAll(r)
  BY <1>8, MarksMoved DEF WireOK, Orderly
<1>10. CallsNamed(r.wire) /\ (~r.encErr => Apart(r.wire))
  BY <1>4, <1>6 DEF Sends
<1>11. Within(e) /\ (Good(e) => Belongs(e.wire, frame)) => Within(r)
  BY <1>4, <1>6 DEF Sends, Within
<1> QED
  BY <1>8, <1>9, <1>10, <1>11 DEF WireOK, Orderly

LEMMA HelpersSend ==
    ASSUME NEW e, EmitterInv(e), NEW id \in Nat, NEW delta \in Delta, delta # NoDelta
    PROVE  /\ SentAs("TEXT_START", id, NoDelta, TextStart(e, id), e)
           /\ SentAs("TEXT_CONTENT", id, delta, TextContent(e, id, delta), e)
           /\ SentAs("TEXT_END", id, NoDelta, TextEnd(e, id), e)
           /\ SentAs("REASONING_START", id, NoDelta, ReasoningStart(e, id), e)
           /\ SentAs("REASONING_MESSAGE_START", id, NoDelta, ReasoningMessageStart(e, id), e)
           /\ SentAs("REASONING_CONTENT", id, delta, ReasoningContent(e, id, delta), e)
           /\ SentAs("REASONING_MESSAGE_END", id, NoDelta, ReasoningMessageEnd(e, id), e)
           /\ SentAs("REASONING_END", id, NoDelta, ReasoningEnd(e, id), e)
<1>1. ASSUME NEW type \in BlockTypes, NEW d \in Delta
      PROVE  LET s == Emit(e, BlockFrame(type, id, d))
             IN  s \in EmitterType /\ SameOpen(s, e) /\ SameCalls(s, e)
  <2>1. BlockFrame(type, id, d) \in Frames /\ e \in EmitterType
    BY FramesAreFrames DEF Neutral, EmitterInv
  <2> QED
    BY <2>1, EmitFact
<1>2. {"TEXT_START", "TEXT_CONTENT", "TEXT_END", "REASONING_START", "REASONING_MESSAGE_START",
       "REASONING_CONTENT", "REASONING_MESSAGE_END", "REASONING_END"} = BlockTypes
  BY DEF BlockTypes
<1>3. /\ SentAs("TEXT_START", id, NoDelta, TextStart(e, id), e)
      /\ SentAs("REASONING_START", id, NoDelta, ReasoningStart(e, id), e)
      /\ SentAs("REASONING_MESSAGE_START", id, NoDelta, ReasoningMessageStart(e, id), e)
  <2>1. SentAs("TEXT_START", id, NoDelta, TextStart(e, id), e)
    <3> DEFINE frame == BlockFrame("TEXT_START", id, NoDelta)
               s     == Emit(e, frame)
               r     == TextStart(e, id)
    <3>1. s \in EmitterType /\ SameOpen(s, e) /\ SameCalls(s, e)
      BY <1>1, <1>2, NoDeltaType
    <3>2. r = IF id # NoMessage /\ Wrote(e, frame) THEN [s EXCEPT !.openTextID = id] ELSE s
      BY DEF TextStart
    <3> SUFFICES /\ r.wire = s.wire /\ r.err = s.err /\ r.encErr = s.encErr /\ SameCalls(r, e)
                 /\ IF "TEXT_START" \in Opening /\ ~(Wrote(e, frame) /\ id # NoMessage)
                    THEN SameOpen(r, e) ELSE Moved("TEXT_START", id, r, e)
      BY DEF SentAs
    <3> HIDE DEF frame, s, r
    <3> QED
      BY <3>1, <3>2 DEF Opening, Moved, SameOpen, SameCalls, EmitterType
  <2>2. SentAs("REASONING_START", id, NoDelta, ReasoningStart(e, id), e)
    <3> DEFINE frame == BlockFrame("REASONING_START", id, NoDelta)
               s     == Emit(e, frame)
               r     == ReasoningStart(e, id)
    <3>1. s \in EmitterType /\ SameOpen(s, e) /\ SameCalls(s, e)
      BY <1>1, <1>2, NoDeltaType
    <3>2. r = IF id # NoMessage /\ Wrote(e, frame) THEN [s EXCEPT !.openReasoningID = id] ELSE s
      BY DEF ReasoningStart
    <3> SUFFICES /\ r.wire = s.wire /\ r.err = s.err /\ r.encErr = s.encErr /\ SameCalls(r, e)
                 /\ IF "REASONING_START" \in Opening /\ ~(Wrote(e, frame) /\ id # NoMessage)
                    THEN SameOpen(r, e) ELSE Moved("REASONING_START", id, r, e)
      BY DEF SentAs
    <3> HIDE DEF frame, s, r
    <3> QED
      BY <3>1, <3>2 DEF Opening, Moved, SameOpen, SameCalls, EmitterType
  <2>3. SentAs("REASONING_MESSAGE_START", id, NoDelta, ReasoningMessageStart(e, id), e)
    <3> DEFINE frame == BlockFrame("REASONING_MESSAGE_START", id, NoDelta)
               s     == Emit(e, frame)
               r     == ReasoningMessageStart(e, id)
    <3>1. s \in EmitterType /\ SameOpen(s, e) /\ SameCalls(s, e)
      BY <1>1, <1>2, NoDeltaType
    <3>2. r = IF id # NoMessage /\ Wrote(e, frame) THEN [s EXCEPT !.openReasoningMessageID = id] ELSE s
      BY DEF ReasoningMessageStart
    <3> SUFFICES /\ r.wire = s.wire /\ r.err = s.err /\ r.encErr = s.encErr /\ SameCalls(r, e)
                 /\ IF "REASONING_MESSAGE_START" \in Opening /\ ~(Wrote(e, frame) /\ id # NoMessage)
                    THEN SameOpen(r, e) ELSE Moved("REASONING_MESSAGE_START", id, r, e)
      BY DEF SentAs
    <3> HIDE DEF frame, s, r
    <3> QED
      BY <3>1, <3>2 DEF Opening, Moved, SameOpen, SameCalls, EmitterType
  <2> QED
    BY <2>1, <2>2, <2>3
<1>4. /\ SentAs("TEXT_END", id, NoDelta, TextEnd(e, id), e)
      /\ SentAs("REASONING_MESSAGE_END", id, NoDelta, ReasoningMessageEnd(e, id), e)
      /\ SentAs("REASONING_END", id, NoDelta, ReasoningEnd(e, id), e)
  <2>1. SentAs("TEXT_END", id, NoDelta, TextEnd(e, id), e)
    <3> DEFINE frame == BlockFrame("TEXT_END", id, NoDelta)
               s     == Emit(e, frame)
               r     == TextEnd(e, id)
    <3>1. s \in EmitterType /\ SameOpen(s, e) /\ SameCalls(s, e)
      BY <1>1, <1>2, NoDeltaType
    <3>2. r = IF s.openTextID = id THEN [s EXCEPT !.openTextID = NoMessage] ELSE s
      BY DEF TextEnd
    <3> SUFFICES /\ r.wire = s.wire /\ r.err = s.err /\ r.encErr = s.encErr /\ SameCalls(r, e)
                 /\ IF "TEXT_END" \in Opening /\ ~(Wrote(e, frame) /\ id # NoMessage)
                    THEN SameOpen(r, e) ELSE Moved("TEXT_END", id, r, e)
      BY DEF SentAs
    <3> HIDE DEF frame, s, r
    <3> QED
      BY <3>1, <3>2 DEF Opening, Moved, SameOpen, SameCalls, EmitterType
  <2>2. SentAs("REASONING_MESSAGE_END", id, NoDelta, ReasoningMessageEnd(e, id), e)
    <3> DEFINE frame == BlockFrame("REASONING_MESSAGE_END", id, NoDelta)
               s     == Emit(e, frame)
               r     == ReasoningMessageEnd(e, id)
    <3>1. s \in EmitterType /\ SameOpen(s, e) /\ SameCalls(s, e)
      BY <1>1, <1>2, NoDeltaType
    <3>2. r = IF s.openReasoningMessageID = id THEN [s EXCEPT !.openReasoningMessageID = NoMessage] ELSE s
      BY DEF ReasoningMessageEnd
    <3> SUFFICES /\ r.wire = s.wire /\ r.err = s.err /\ r.encErr = s.encErr /\ SameCalls(r, e)
                 /\ IF "REASONING_MESSAGE_END" \in Opening /\ ~(Wrote(e, frame) /\ id # NoMessage)
                    THEN SameOpen(r, e) ELSE Moved("REASONING_MESSAGE_END", id, r, e)
      BY DEF SentAs
    <3> HIDE DEF frame, s, r
    <3> QED
      BY <3>1, <3>2 DEF Opening, Moved, SameOpen, SameCalls, EmitterType
  <2>3. SentAs("REASONING_END", id, NoDelta, ReasoningEnd(e, id), e)
    <3> DEFINE frame == BlockFrame("REASONING_END", id, NoDelta)
               s     == Emit(e, frame)
               r     == ReasoningEnd(e, id)
    <3>1. s \in EmitterType /\ SameOpen(s, e) /\ SameCalls(s, e)
      BY <1>1, <1>2, NoDeltaType
    <3>2. r = IF s.openReasoningID = id THEN [s EXCEPT !.openReasoningID = NoMessage] ELSE s
      BY DEF ReasoningEnd
    <3> SUFFICES /\ r.wire = s.wire /\ r.err = s.err /\ r.encErr = s.encErr /\ SameCalls(r, e)
                 /\ IF "REASONING_END" \in Opening /\ ~(Wrote(e, frame) /\ id # NoMessage)
                    THEN SameOpen(r, e) ELSE Moved("REASONING_END", id, r, e)
      BY DEF SentAs
    <3> HIDE DEF frame, s, r
    <3> QED
      BY <3>1, <3>2 DEF Opening, Moved, SameOpen, SameCalls, EmitterType
  <2> QED
    BY <2>1, <2>2, <2>3
<1>5. /\ SentAs("TEXT_CONTENT", id, delta, TextContent(e, id, delta), e)
      /\ SentAs("REASONING_CONTENT", id, delta, ReasoningContent(e, id, delta), e)
  BY <1>1, <1>2 DEF TextContent, ReasoningContent, SentAs, Opening, Moved, SameOpen, SameCalls
<1> QED
  BY <1>3, <1>4, <1>5

(* closeOpenBlocks ends what is remembered. *)
LEMMA ClosesEnd ==
    ASSUME NEW e, EmitterInv(e)
    PROVE  /\ CloseOpenText(e) = IF e.openTextID = NoMessage THEN e ELSE TextEnd(e, e.openTextID)
           /\ CloseOpenReasoningMessage(e) =
                  IF e.openReasoningMessageID = NoMessage THEN e
                  ELSE ReasoningMessageEnd(e, e.openReasoningMessageID)
           /\ CloseOpenReasoning(e) = IF e.openReasoningID = NoMessage THEN e
                                      ELSE ReasoningEnd(e, e.openReasoningID)
<1>1. ASSUME NEW frame \in Frames
      PROVE  /\ Emit([e EXCEPT !.openTextID = NoMessage], frame)
                    = [Emit(e, frame) EXCEPT !.openTextID = NoMessage]
             /\ Emit([e EXCEPT !.openReasoningMessageID = NoMessage], frame)
                    = [Emit(e, frame) EXCEPT !.openReasoningMessageID = NoMessage]
             /\ Emit([e EXCEPT !.openReasoningID = NoMessage], frame)
                    = [Emit(e, frame) EXCEPT !.openReasoningID = NoMessage]
             /\ SameOpen(Emit(e, frame), e)
  <2>1. SameOpen(Emit(e, frame), e)
    BY EmitFact DEF EmitterInv
  <2> QED
    BY <2>1, ZenonT(90) DEF Emit, WriteEvent, RestOfScript, EmitterInv, EmitterType
<1>2. /\ BlockFrame("TEXT_END", e.openTextID, NoDelta) \in Frames
      /\ BlockFrame("REASONING_MESSAGE_END", e.openReasoningMessageID, NoDelta) \in Frames
      /\ BlockFrame("REASONING_END", e.openReasoningID, NoDelta) \in Frames
  BY FramesAreFrames, NoDeltaType DEF Neutral, EmitterInv, EmitterType, BlockTypes
<1> QED
  BY <1>1, <1>2 DEF CloseOpenText, CloseOpenReasoningMessage, CloseOpenReasoning, TextEnd,
                    ReasoningMessageEnd, ReasoningEnd, SameOpen

-----------------------------------------------------------------------------
(* closeOpenBlocks, and the tool frames that follow it. *)

(* The reasoning message remembered is the one of the reasoning block.      *)
Paired(e) == e.openReasoningMessageID # NoMessage => e.openReasoningMessageID = e.openReasoningID

(* What ending one remembered block leaves: d is e with less open.          *)
LessOpen(d, e) ==
    /\ WireOK(d) /\ SameCalls(d, e)
    /\ Within(e) /\ (Good(e) => Paired(e)) => Within(d)
    /\ Good(d) => /\ Good(e)
                  /\ d.openTextID \in {e.openTextID, NoMessage}
                  /\ d.openReasoningID \in {e.openReasoningID, NoMessage}
                  /\ d.openReasoningMessageID \in {e.openReasoningMessageID, NoMessage}

(* The blocks remembered are where their frames belong. *)
LEMMA BelongsThere ==
    ASSUME NEW e, MarksAll(e), NEW id, id # NoMessage, NEW delta
    PROVE  /\ Belongs(e.wire, BlockFrame("TEXT_START", id, delta))
           /\ Belongs(e.wire, BlockFrame("REASONING_START", id, delta))
           /\ e.openTextID = id =>
                  /\ Belongs(e.wire, BlockFrame("TEXT_CONTENT", id, delta))
                  /\ Belongs(e.wire, BlockFrame("TEXT_END", id, delta))
           /\ e.openReasoningID = id =>
                  /\ Belongs(e.wire, BlockFrame("REASONING_MESSAGE_START", id, delta))
                  /\ Belongs(e.wire, BlockFrame("REASONING_END", id, delta))
           /\ e.openReasoningID = id /\ e.openReasoningMessageID = id =>
                  /\ Belongs(e.wire, BlockFrame("REASONING_CONTENT", id, delta))
                  /\ Belongs(e.wire, BlockFrame("REASONING_MESSAGE_END", id, delta))
  BY DEF MarksAll, Marks, Belongs, BlockFrame, Kinds, TextKind, ReasoningKind,
         ReasoningMessageKind

LEMMA SameWithNothingSent ==
    ASSUME NEW e, WireOK(e)
    PROVE  LessOpen(e, e)
  BY DEF LessOpen, SameCalls

LEMMA ClosesOne ==
    ASSUME NEW e, WireOK(e)
    PROVE  /\ LessOpen(CloseOpenText(e), e)
           /\ Good(CloseOpenText(e)) => CloseOpenText(e).openTextID = NoMessage
           /\ LessOpen(CloseOpenReasoningMessage(e), e)
           /\ Good(CloseOpenReasoningMessage(e)) =>
                  CloseOpenReasoningMessage(e).openReasoningMessageID = NoMessage
           /\ LessOpen(CloseOpenReasoning(e), e)
           /\ Good(CloseOpenReasoning(e)) => CloseOpenReasoning(e).openReasoningID = NoMessage
<1>1. /\ EmitterInv(e) /\ e.openTextID \in Nat /\ e.openReasoningID \in Nat
      /\ e.openReasoningMessageID \in Nat /\ NoDelta \in Delta
      /\ (Good(e) => MarksAll(e))
  BY NoDeltaType DEF WireOK, Orderly, EmitterInv, EmitterType
<1>2. PICK delta \in Delta : delta # NoDelta
  BY NoDeltaAssumption DEF Delta
<1>3. ASSUME NEW type \in {"TEXT_END", "REASONING_END", "REASONING_MESSAGE_END"}, NEW id \in Nat,
             NEW r, EmitterInv(r), SentAs(type, id, NoDelta, r, e),
             Good(e) => id # NoMessage /\ (Paired(e) => Belongs(e.wire, BlockFrame(type, id, NoDelta)))
      PROVE  LessOpen(r, e) /\ (Good(r) => Moved(type, id, r, e))
  <2>1. type \in BlockTypes /\ Startable(type, e)
    BY DEF BlockTypes, Startable, Starting
  <2>2. /\ WireOK(r)
        /\ Within(e) /\ (Good(e) => Belongs(e.wire, BlockFrame(type, id, NoDelta))) => Within(r)
        /\ Good(r) => Good(e) /\ id # NoMessage /\ Moved(type, id, r, e)
    BY <1>1, <1>3, <2>1, BlockFrameSent DEF WireOK
  <2>3. SameCalls(r, e)
    BY <1>3 DEF SentAs
  <2> QED
    BY <1>3, <2>2, <2>3 DEF LessOpen, Moved
<1>4. LessOpen(CloseOpenText(e), e)
      /\ (Good(CloseOpenText(e)) => CloseOpenText(e).openTextID = NoMessage)
  <2>1. CASE e.openTextID = NoMessage
    BY <2>1, SameWithNothingSent DEF CloseOpenText
  <2>2. CASE e.openTextID # NoMessage
    <3> DEFINE r == CloseOpenText(e)
               id == e.openTextID
    <3>1. EmitterInv(r) /\ r = TextEnd(e, id)
      BY <1>1, <2>2, CloseOneKind, ClosesEnd
    <3>2. SentAs("TEXT_END", id, NoDelta, r, e)
      BY <1>1, <1>2, <3>1, HelpersSend
    <3>3. Good(e) => Belongs(e.wire, BlockFrame("TEXT_END", id, NoDelta))
      BY <1>1, <2>2, BelongsThere
    <3> HIDE DEF r
    <3>4. LessOpen(r, e) /\ (Good(r) => Moved("TEXT_END", id, r, e))
      BY <1>1, <1>3, <2>2, <3>1, <3>2, <3>3
    <3> QED
      BY <3>4 DEF Moved, r
  <2> QED
    BY <2>1, <2>2
<1>5. LessOpen(CloseOpenReasoningMessage(e), e)
      /\ (Good(CloseOpenReasoningMessage(e)) =>
              CloseOpenReasoningMessage(e).openReasoningMessageID = NoMessage)
  <2>1. CASE e.openReasoningMessageID = NoMessage
    BY <2>1, SameWithNothingSent DEF CloseOpenReasoningMessage
  <2>2. CASE e.openReasoningMessageID # NoMessage
    <3> DEFINE r == CloseOpenReasoningMessage(e)
               id == e.openReasoningMessageID
    <3>1. EmitterInv(r) /\ r = ReasoningMessageEnd(e, id)
      BY <1>1, <2>2, CloseOneKind, ClosesEnd
    <3>2. SentAs("REASONING_MESSAGE_END", id, NoDelta, r, e)
      BY <1>1, <1>2, <3>1, HelpersSend
    <3>3. Good(e) /\ Paired(e) => Belongs(e.wire, BlockFrame("REASONING_MESSAGE_END", id, NoDelta))
      BY <1>1, <2>2, BelongsThere DEF Paired
    <3> HIDE DEF r
    <3>4. LessOpen(r, e) /\ (Good(r) => Moved("REASONING_MESSAGE_END", id, r, e))
      BY <1>1, <1>3, <2>2, <3>1, <3>2, <3>3
    <3> QED
      BY <3>4 DEF Moved, r
  <2> QED
    BY <2>1, <2>2
<1>6. LessOpen(CloseOpenReasoning(e), e)
      /\ (Good(CloseOpenReasoning(e)) => CloseOpenReasoning(e).openReasoningID = NoMessage)
  <2>1. CASE e.openReasoningID = NoMessage
    BY <2>1, SameWithNothingSent DEF CloseOpenReasoning
  <2>2. CASE e.openReasoningID # NoMessage
    <3> DEFINE r == CloseOpenReasoning(e)
               id == e.openReasoningID
    <3>1. EmitterInv(r) /\ r = ReasoningEnd(e, id)
      BY <1>1, <2>2, CloseOneKind, ClosesEnd
    <3>2. SentAs("REASONING_END", id, NoDelta, r, e)
      BY <1>1, <1>2, <3>1, HelpersSend
    <3>3. Good(e) => Belongs(e.wire, BlockFrame("REASONING_END", id, NoDelta))
      BY <1>1, <2>2, BelongsThere
    <3> HIDE DEF r
    <3>4. LessOpen(r, e) /\ (Good(r) => Moved("REASONING_END", id, r, e))
      BY <1>1, <1>3, <2>2, <3>1, <3>2, <3>3
    <3> QED
      BY <3>4 DEF Moved, r
  <2> QED
    BY <2>1, <2>2
<1> QED
  BY <1>4, <1>5, <1>6

LEMMA LessAndLess ==
    ASSUME NEW e, NEW d, NEW c, LessOpen(d, e), LessOpen(c, d), Good(d) => (Paired(e) => Paired(d))
    PROVE  LessOpen(c, e)
  BY DEF LessOpen, SameCalls

LEMMA CloseOrderly ==
    ASSUME NEW e, WireOK(e)
    PROVE  /\ LessOpen(CloseOpenBlocks(e), e)
           /\ Good(CloseOpenBlocks(e)) => Forgot(CloseOpenBlocks(e))
<1> DEFINE t == CloseOpenText(e)
           m == CloseOpenReasoningMessage(t)
           r == CloseOpenReasoning(m)
<1>1. LessOpen(t, e) /\ (Good(t) => t.openTextID = NoMessage)
  BY ClosesOne
<1>2. Good(t) => (Paired(e) => Paired(t))
  <2>1. t.openReasoningID = e.openReasoningID /\ t.openReasoningMessageID = e.openReasoningMessageID
    BY DEF CloseOpenText, Emit, WireOK, EmitterInv, EmitterType
  <2> QED
    BY <2>1 DEF Paired
<1> HIDE DEF t
<1>3. LessOpen(m, t) /\ (Good(m) => m.openReasoningMessageID = NoMessage)
  BY <1>1, ClosesOne DEF LessOpen
<1> HIDE DEF m
<1>4. LessOpen(r, m) /\ (Good(r) => r.openReasoningID = NoMessage)
  BY <1>3, ClosesOne DEF LessOpen
<1> HIDE DEF r
<1>5. LessOpen(m, e)
  BY <1>1, <1>2, <1>3, LessAndLess
<1>6. Good(m) => Paired(m)
  BY <1>3 DEF Paired
<1>7. LessOpen(r, e)
  BY <1>4, <1>5, <1>6, LessAndLess
<1>8. Good(r) => Forgot(r)
  BY <1>1, <1>3, <1>4 DEF LessOpen, Forgot
<1> QED
  BY <1>7, <1>8 DEF CloseOpenBlocks, r, m, t

(* A tool frame sent where no block is remembered. *)
LEMMA ToolFrameSent ==
    ASSUME NEW e, WireOK(e), Good(e) => Forgot(e), NEW frame \in Frames, frame.type \in CallTypes,
           frame.call \in ToolIDs, NEW r, EmitterInv(r), SameOpen(r, e),
           r.wire = Emit(e, frame).wire, r.err = Emit(e, frame).err,
           r.encErr = Emit(e, frame).encErr
    PROVE  /\ WireOK(r) /\ (Within(e) => Within(r))
           /\ Good(r) => Good(e) /\ Wrote(e, frame)
<1> DEFINE s == Emit(e, frame)
<1>1. /\ frame.type \notin Starting
      /\ \A kind \in Kinds :
            frame.type \notin kind.inner \cup {kind.end} /\ frame.type # kind.start
  BY DEF Starting, CallTypes, Kinds, TextKind, ReasoningKind, ReasoningMessageKind
<1>2. Sendable(e, frame) /\ Belongs(e.wire, frame)
  BY <1>1 DEF Sendable, Belongs
<1>3. Sends(e, frame, s)
  BY <1>2, EmitOrderly
<1>4. r.wire = s.wire /\ (Good(r) <=> Good(s)) /\ r.encErr = s.encErr
  BY DEF Good
<1> HIDE DEF s
<1>5. CallsNamed(r.wire) /\ (~r.encErr => Apart(r.wire)) /\ (Within(e) => Within(r))
  BY <1>2, <1>3, <1>4 DEF Sends, Within
<1>6. Good(r) => Good(e) /\ Wrote(e, frame) /\ Shifts(e.wire, frame, r.wire)
  BY <1>3, <1>4 DEF Sends
<1>7. Good(r) => \A kind \in Kinds : \A x : OpenNow(r.wire, kind, x) <=> OpenNow(e.wire, kind, x)
  BY <1>1, <1>6 DEF Shifts
<1>8. Good(r) => MarksAll(r)
  BY <1>6, <1>7, KindsAre DEF WireOK, Orderly, MarksAll, Marks, SameOpen
<1> QED
  BY <1>5, <1>6, <1>8 DEF WireOK, Orderly

(* What a tool helper leaves. *)
ToolSent(r, e) ==
    /\ WireOK(r)
    /\ Within(e) /\ (Good(e) => Paired(e)) => Within(r)
    /\ Good(r) => Good(e) /\ (SameOpen(r, e) \/ Forgot(r))

LEMMA AfterClosing ==
    ASSUME NEW e, WireOK(e), NEW frame \in Frames, frame.type \in CallTypes, frame.call \in ToolIDs,
           NEW r, EmitterInv(r), SameOpen(r, CloseOpenBlocks(e)),
           r.wire = Emit(CloseOpenBlocks(e), frame).wire,
           r.err = Emit(CloseOpenBlocks(e), frame).err,
           r.encErr = Emit(CloseOpenBlocks(e), frame).encErr
    PROVE  ToolSent(r, e) /\ (Good(r) => Wrote(CloseOpenBlocks(e), frame))
<1> DEFINE closed == CloseOpenBlocks(e)
<1>1. LessOpen(closed, e) /\ (Good(closed) => Forgot(closed))
  BY CloseOrderly
<1> HIDE DEF closed
<1>2. WireOK(r) /\ (Within(closed) => Within(r)) /\ (Good(r) => Good(closed) /\ Wrote(closed, frame))
  BY <1>1, ToolFrameSent DEF LessOpen, closed
<1>3. SameOpen(r, closed)
  BY DEF closed
<1>4. Good(r) => Forgot(r)
  BY <1>1, <1>2, <1>3 DEF SameOpen, Forgot
<1> QED
  BY <1>1, <1>2, <1>4 DEF ToolSent, LessOpen, closed

LEMMA NoToolFrame ==
    ASSUME NEW e, WireOK(e)
    PROVE  ToolSent(e, e) /\ ToolSent(CloseOpenBlocks(e), e)
  BY CloseOrderly DEF ToolSent, LessOpen, SameOpen

LEMMA ToolFramesAreFrames ==
    ASSUME NEW id \in ToolID, NEW name \in Name, NEW parent \in Nat, NEW delta \in Delta
    PROVE  /\ ToolStartFrame(id, name, parent) \in Frames
           /\ CallFrame("TOOL_CALL_ARGS", id, delta) \in Frames
           /\ CallFrame("TOOL_CALL_END", id, NoDelta) \in Frames
  BY NoDeltaType DEF ToolStartFrame, CallFrame, Frames, FrameTypes, ToolTypes, CallTypes, Name

LEMMA ToolStartOrderly ==
    ASSUME NEW e, WireOK(e), NEW id \in ToolID, NEW name \in Name, NEW parent \in Nat
    PROVE  LET r == ToolStart(e, id, name, parent) IN
           /\ ToolSent(r, e)
           /\ r.startedToolCalls \in {e.startedToolCalls, e.startedToolCalls \cup {id}}
           /\ r.endedToolCalls = e.endedToolCalls
<1> DEFINE r      == ToolStart(e, id, name, parent)
           closed == CloseOpenBlocks(e)
           frame  == ToolStartFrame(id, name, parent)
           sent   == Emit(closed, frame)
<1>1. EmitterInv(e) /\ EmitterInv(closed) /\ SameCalls(closed, e) /\ EmitterInv(r)
  BY CloseKeepsInv, ToolStartKeepsInv DEF WireOK
<1>2. frame \in Frames /\ frame.type \in CallTypes /\ frame.call = id
  BY ToolFramesAreFrames, NoDeltaType DEF ToolStartFrame, CallTypes
<1>3. sent \in EmitterType /\ SameOpen(sent, closed) /\ SameCalls(sent, closed)
  BY <1>1, <1>2, EmitFact DEF EmitterInv
<1>4. CASE r \in {e, closed}
  <2>1. SameCalls(r, e)
    BY <1>1, <1>4 DEF SameCalls
  <2> QED
    BY <1>4, <2>1, NoToolFrame DEF SameCalls
<1>5. CASE r \notin {e, closed}
  <2>1. /\ id # NoID
        /\ r = IF Wrote(closed, frame) THEN [sent EXCEPT !.startedToolCalls = @ \cup {id}] ELSE sent
    BY <1>5 DEF ToolStart
  <2> HIDE DEF sent, closed, r
  <2>2. /\ SameOpen(r, closed) /\ r.wire = sent.wire /\ r.err = sent.err /\ r.encErr = sent.encErr
        /\ r.startedToolCalls \in {e.startedToolCalls, e.startedToolCalls \cup {id}}
        /\ r.endedToolCalls = e.endedToolCalls
    BY <1>1, <1>3, <2>1 DEF SameOpen, SameCalls, EmitterType
  <2>3. frame.call \in ToolIDs
    BY <1>2, <2>1 DEF ToolID
  <2>4. ToolSent(r, e)
    BY <1>1, <1>2, <2>2, <2>3, AfterClosing DEF sent, closed
  <2> QED
    BY <2>2, <2>4 DEF r
<1> QED
  BY <1>4, <1>5

LEMMA ToolArgsOrderly ==
    ASSUME NEW e, WireOK(e), NEW id \in ToolID, NEW delta \in Delta
    PROVE  ToolSent(ToolArgs(e, id, delta), e) /\ SameCalls(ToolArgs(e, id, delta), e)
<1> DEFINE r      == ToolArgs(e, id, delta)
           closed == CloseOpenBlocks(e)
           frame  == CallFrame("TOOL_CALL_ARGS", id, delta)
<1>1. EmitterInv(e) /\ EmitterInv(closed) /\ SameCalls(closed, e) /\ EmitterInv(r)
  BY CloseKeepsInv, ToolArgsKeepsInv DEF WireOK
<1>2. PICK name \in Name : TRUE
  BY DEF Name
<1>3. frame \in Frames /\ frame.type \in CallTypes /\ frame.call = id
  BY <1>2, ToolFramesAreFrames, NoDeltaType DEF CallFrame, CallTypes
<1>4. CASE r = e
  BY <1>4, NoToolFrame DEF SameCalls
<1>5. CASE r # e
  <2>1. id \in ToolIDs /\ r = Emit(closed, frame)
    BY <1>5 DEF ToolArgs, ToolID
  <2>2. SameOpen(r, closed) /\ SameCalls(r, closed)
    BY <1>1, <1>3, <2>1, EmitFact DEF EmitterInv
  <2>3. ToolSent(r, e)
    BY <1>1, <1>3, <2>1, <2>2, AfterClosing
  <2> QED
    BY <1>1, <2>2, <2>3 DEF SameCalls
<1> QED
  BY <1>4, <1>5

LEMMA ToolEndOrderly ==
    ASSUME NEW e, WireOK(e), NEW id \in ToolID
    PROVE  LET r == ToolEnd(e, id) IN
           /\ ToolSent(r, e)
           /\ r.startedToolCalls = e.startedToolCalls
           /\ e.endedToolCalls \subseteq r.endedToolCalls
           /\ Good(r) /\ id \in e.startedToolCalls => id \in r.endedToolCalls
<1> DEFINE r      == ToolEnd(e, id)
           closed == CloseOpenBlocks(e)
           frame  == CallFrame("TOOL_CALL_END", id, NoDelta)
           sent   == Emit(closed, frame)
<1>1. EmitterInv(e) /\ EmitterInv(closed) /\ SameCalls(closed, e) /\ EmitterInv(r)
  BY CloseKeepsInv, ToolEndKeepsInv DEF WireOK
<1>2. PICK name \in Name : TRUE
  BY DEF Name
<1>3. frame \in Frames /\ frame.type \in CallTypes /\ frame.call = id
  BY <1>2, ToolFramesAreFrames, NoDeltaType DEF CallFrame, CallTypes
<1>4. sent \in EmitterType /\ SameOpen(sent, closed) /\ SameCalls(sent, closed)
  BY <1>1, <1>3, EmitFact DEF EmitterInv
<1>5. CASE id = NoID \/ ~ToolStarted(e, id) \/ ToolEnded(e, id)
  <2>1. r = e /\ NoID \notin ToolIDs /\ e.startedToolCalls \subseteq ToolIDs
    BY <1>1, <1>5, NoIDAssumption DEF ToolEnd, EmitterInv, EmitterType
  <2> QED
    BY <1>5, <2>1, NoToolFrame DEF ToolStarted, ToolEnded
<1>6. CASE ~(id = NoID \/ ~ToolStarted(e, id) \/ ToolEnded(e, id))
  <2>1. /\ id \in ToolIDs
        /\ r = IF Wrote(closed, frame) THEN [sent EXCEPT !.endedToolCalls = @ \cup {id}] ELSE sent
    BY <1>6 DEF ToolEnd, ToolID
  <2> HIDE DEF sent, closed, r
  <2>2. /\ SameOpen(r, closed) /\ r.wire = sent.wire /\ r.err = sent.err /\ r.encErr = sent.encErr
        /\ r.startedToolCalls = e.startedToolCalls
        /\ e.endedToolCalls \subseteq r.endedToolCalls
        /\ Wrote(closed, frame) => id \in r.endedToolCalls
    BY <1>1, <1>4, <2>1 DEF SameOpen, SameCalls, EmitterType
  <2>3. ToolSent(r, e) /\ (Good(r) => Wrote(closed, frame))
    BY <1>1, <1>3, <2>1, <2>2, AfterClosing DEF sent, closed
  <2> QED
    BY <2>2, <2>3 DEF r
<1> QED
  BY <1>5, <1>6

LEMMA FreshOrderly ==
    ASSUME NEW script \in Seq(Outcomes)
    PROVE  WireOK(NewEmitter(script)) /\ Within(NewEmitter(script))
<1> DEFINE e == NewEmitter(script)
<1>1. /\ e.wire = <<>> /\ e.startedToolCalls = {} /\ e.endedToolCalls = {}
      /\ e.openTextID = NoMessage /\ e.openReasoningID = NoMessage
      /\ e.openReasoningMessageID = NoMessage /\ ~e.err /\ e.cancels = 0
  BY DEF NewEmitter
<1>2. e \in EmitterType
  BY DEF NewEmitter, EmitterType, NoMessage
<1> HIDE DEF e
<1>3. EmitterInv(e)
  BY <1>1, <1>2 DEF EmitterInv, OneLifecycle, RemembersCalls, CancelsOnce
<1>4. MarksAll(e)
  BY <1>1 DEF MarksAll, Marks, OpenNow
<1> QED
  BY <1>1, <1>3, <1>4 DEF WireOK, Orderly, Within, InsideBlocks, Apart, CallsNamed, e

-----------------------------------------------------------------------------
(* The frames written, and one helper's share of them. *)

Sent(e) == {e.wire[k] : k \in DOMAIN e.wire}

LEMMA EmitSent ==
    ASSUME NEW e \in EmitterType, NEW frame \in Frames
    PROVE  /\ Sent(Emit(e, frame)) \subseteq Sent(e) \cup {frame}
           /\ ~Valid(frame) => Sent(Emit(e, frame)) = Sent(e)
<1> DEFINE s == Emit(e, frame)
<1>1. e.wire \in Seq(Frames)
  BY DEF EmitterType
<1>2. s.wire = e.wire \/ (s.wire = Append(e.wire, frame) /\ Valid(frame))
  BY EmitFact
<1> HIDE DEF s
<1>3. CASE s.wire = e.wire
  BY <1>3 DEF Sent, s
<1>4. CASE s.wire = Append(e.wire, frame) /\ Valid(frame)
  BY <1>1, <1>4, AppendFacts DEF Sent, s
<1> QED
  BY <1>2, <1>3, <1>4

(* What a text or reasoning helper leaves. *)
HelperStep(type, id, delta, r, e) ==
    LET frame == BlockFrame(type, id, delta) IN
    /\ WireOK(r) /\ SameCalls(r, e)
    /\ Sent(r) \subseteq Sent(e) \cup {frame}
    /\ Within(e) /\ (Good(e) => Belongs(e.wire, frame)) => Within(r)
    /\ Good(r) => Good(e) /\ id # NoMessage /\ Moved(type, id, r, e)

LEMMA HelperSteps ==
    ASSUME NEW e, WireOK(e), NEW id \in Nat, NEW delta \in Delta, delta # NoDelta
    PROVE  /\ HelperStep("TEXT_CONTENT", id, delta, TextContent(e, id, delta), e)
           /\ HelperStep("TEXT_END", id, NoDelta, TextEnd(e, id), e)
           /\ HelperStep("REASONING_CONTENT", id, delta, ReasoningContent(e, id, delta), e)
           /\ HelperStep("REASONING_MESSAGE_END", id, NoDelta, ReasoningMessageEnd(e, id), e)
           /\ HelperStep("REASONING_END", id, NoDelta, ReasoningEnd(e, id), e)
           /\ (Good(e) => Forgot(e) /\ e.startedToolCalls \subseteq e.endedToolCalls) =>
                  /\ HelperStep("TEXT_START", id, NoDelta, TextStart(e, id), e)
                  /\ HelperStep("REASONING_START", id, NoDelta, ReasoningStart(e, id), e)
           /\ (Good(e) => e.openReasoningMessageID = NoMessage) =>
                  HelperStep("REASONING_MESSAGE_START", id, NoDelta, ReasoningMessageStart(e, id), e)
<1>1. EmitterInv(e) /\ e \in EmitterType /\ NoDelta \in Delta
  BY NoDeltaType DEF WireOK, EmitterInv
<1>2. ASSUME NEW type \in BlockTypes, NEW d \in Delta, NEW r, EmitterInv(r),
             SentAs(type, id, d, r, e), Good(e) => Startable(type, e)
      PROVE  HelperStep(type, id, d, r, e)
  <2> DEFINE frame == BlockFrame(type, id, d)
  <2>1. frame \in Frames
    BY FramesAreFrames DEF Neutral
  <2>2. r.wire = Emit(e, frame).wire /\ SameCalls(r, e)
    BY <1>2 DEF SentAs
  <2>3. Sent(r) \subseteq Sent(e) \cup {frame}
    BY <1>1, <2>1, <2>2, EmitSent DEF Sent
  <2>4. /\ WireOK(r)
        /\ Within(e) /\ (Good(e) => Belongs(e.wire, frame)) => Within(r)
        /\ Good(r) => Good(e) /\ id # NoMessage /\ Moved(type, id, r, e)
    BY <1>2, BlockFrameSent
  <2> HIDE DEF frame
  <2> QED
    BY <2>2, <2>3, <2>4 DEF HelperStep, frame
<1>3. {"TEXT_START", "TEXT_CONTENT", "TEXT_END", "REASONING_START", "REASONING_MESSAGE_START",
       "REASONING_CONTENT", "REASONING_MESSAGE_END", "REASONING_END"} = BlockTypes
  BY DEF BlockTypes
<1>4. /\ Startable("TEXT_CONTENT", e) /\ Startable("TEXT_END", e)
      /\ Startable("REASONING_CONTENT", e) /\ Startable("REASONING_MESSAGE_END", e)
      /\ Startable("REASONING_END", e)
      /\ Forgot(e) /\ e.startedToolCalls \subseteq e.endedToolCalls =>
             Startable("TEXT_START", e) /\ Startable("REASONING_START", e)
      /\ e.openReasoningMessageID = NoMessage => Startable("REASONING_MESSAGE_START", e)
  BY DEF Startable, Starting
<1>5. /\ EmitterInv(TextStart(e, id)) /\ EmitterInv(TextContent(e, id, delta))
      /\ EmitterInv(TextEnd(e, id))
      /\ EmitterInv(ReasoningStart(e, id)) /\ EmitterInv(ReasoningMessageStart(e, id))
      /\ EmitterInv(ReasoningContent(e, id, delta))
      /\ EmitterInv(ReasoningMessageEnd(e, id)) /\ EmitterInv(ReasoningEnd(e, id))
  BY <1>1, BlockHelpers
<1>6. /\ SentAs("TEXT_START", id, NoDelta, TextStart(e, id), e)
      /\ SentAs("TEXT_CONTENT", id, delta, TextContent(e, id, delta), e)
      /\ SentAs("TEXT_END", id, NoDelta, TextEnd(e, id), e)
      /\ SentAs("REASONING_START", id, NoDelta, ReasoningStart(e, id), e)
      /\ SentAs("REASONING_MESSAGE_START", id, NoDelta, ReasoningMessageStart(e, id), e)
      /\ SentAs("REASONING_CONTENT", id, delta, ReasoningContent(e, id, delta), e)
      /\ SentAs("REASONING_MESSAGE_END", id, NoDelta, ReasoningMessageEnd(e, id), e)
      /\ SentAs("REASONING_END", id, NoDelta, ReasoningEnd(e, id), e)
  BY <1>1, HelpersSend
<1> QED
  BY <1>1, <1>2, <1>3, <1>4, <1>5, <1>6

(* What closeOpenBlocks sends, and what a tool helper sends. *)
EndsSent(e) ==
    { BlockFrame(type, id, NoDelta) :
        type \in {"TEXT_END", "REASONING_END", "REASONING_MESSAGE_END"},
        id \in {e.openTextID, e.openReasoningID, e.openReasoningMessageID} \ {NoMessage} }

LEMMA CloseSent ==
    ASSUME NEW e, EmitterInv(e)
    PROVE  Sent(CloseOpenBlocks(e)) \subseteq Sent(e) \cup EndsSent(e)
<1> DEFINE t == CloseOpenText(e)
           m == CloseOpenReasoningMessage(t)
           r == CloseOpenReasoning(m)
<1>1. ASSUME NEW f, EmitterInv(f)
      PROVE  /\ Sent(CloseOpenText(f)) \subseteq Sent(f) \cup EndsSent(f)
             /\ Sent(CloseOpenReasoningMessage(f)) \subseteq Sent(f) \cup EndsSent(f)
             /\ Sent(CloseOpenReasoning(f)) \subseteq Sent(f) \cup EndsSent(f)
  <2>1. /\ f \in EmitterType /\ f.openTextID \in Nat /\ f.openReasoningID \in Nat
        /\ f.openReasoningMessageID \in Nat
    BY <1>1 DEF EmitterInv, EmitterType
  <2>2. ASSUME NEW type \in {"TEXT_END", "REASONING_END", "REASONING_MESSAGE_END"},
               NEW id \in {f.openTextID, f.openReasoningID, f.openReasoningMessageID},
               id # NoMessage, NEW g \in EmitterType, g.wire = f.wire
        PROVE  Sent(Emit(g, BlockFrame(type, id, NoDelta))) \subseteq Sent(f) \cup EndsSent(f)
    <3>1. BlockFrame(type, id, NoDelta) \in Frames
      BY <2>1, FramesAreFrames, NoDeltaType DEF Neutral, BlockTypes
    <3>2. BlockFrame(type, id, NoDelta) \in EndsSent(f)
      BY <2>2 DEF EndsSent
    <3> QED
      BY <2>2, <3>1, <3>2, EmitSent DEF Sent
  <2>3. /\ [f EXCEPT !.openTextID = NoMessage] \in EmitterType
        /\ [f EXCEPT !.openReasoningID = NoMessage] \in EmitterType
        /\ [f EXCEPT !.openReasoningMessageID = NoMessage] \in EmitterType
        /\ [f EXCEPT !.openTextID = NoMessage].wire = f.wire
        /\ [f EXCEPT !.openReasoningID = NoMessage].wire = f.wire
        /\ [f EXCEPT !.openReasoningMessageID = NoMessage].wire = f.wire
    BY <2>1 DEF EmitterType, NoMessage
  <2> QED
    BY <2>2, <2>3 DEF CloseOpenText, CloseOpenReasoning, CloseOpenReasoningMessage
<1>2. EmitterInv(t) /\ EndsSent(t) \subseteq EndsSent(e)
  <2>1. t.openTextID \in {e.openTextID, NoMessage} /\ t.openReasoningID = e.openReasoningID
        /\ t.openReasoningMessageID = e.openReasoningMessageID
    BY DEF CloseOpenText, Emit, EmitterInv, EmitterType
  <2> QED
    BY <2>1, CloseOneKind DEF EndsSent
<1>3. Sent(t) \subseteq Sent(e) \cup EndsSent(e)
  BY <1>1
<1> HIDE DEF t
<1>4. EmitterInv(m) /\ EndsSent(m) \subseteq EndsSent(t)
  <2>1. m.openTextID = t.openTextID /\ m.openReasoningID = t.openReasoningID
        /\ m.openReasoningMessageID \in {t.openReasoningMessageID, NoMessage}
    BY <1>2 DEF CloseOpenReasoningMessage, Emit, EmitterInv, EmitterType
  <2> QED
    BY <1>2, <2>1, CloseOneKind DEF EndsSent
<1>5. Sent(m) \subseteq Sent(t) \cup EndsSent(t)
  BY <1>1, <1>2
<1> HIDE DEF m
<1>6. Sent(r) \subseteq Sent(m) \cup EndsSent(m)
  BY <1>1, <1>4
<1> QED
  BY <1>2, <1>3, <1>4, <1>5, <1>6 DEF CloseOpenBlocks, r, m, t

LEMMA ToolsSend ==
    ASSUME NEW e, EmitterInv(e), NEW id \in ToolID, NEW name \in Name, NEW parent \in Nat,
           NEW delta \in Delta, NEW frame,
           \/ frame \in Sent(ToolStart(e, id, name, parent))
           \/ frame \in Sent(ToolArgs(e, id, delta))
           \/ frame \in Sent(ToolEnd(e, id))
    PROVE  frame \in Sent(e) \cup EndsSent(e) \/ frame.type \in CallTypes
<1> DEFINE closed == CloseOpenBlocks(e)
<1>1. EmitterInv(closed) /\ Sent(closed) \subseteq Sent(e) \cup EndsSent(e)
  BY CloseSent, CloseKeepsInv
<1>2. ASSUME NEW f \in Frames, f.type \in CallTypes, NEW r, r.wire = Emit(closed, f).wire, frame \in Sent(r)
      PROVE  frame \in Sent(e) \cup EndsSent(e) \/ frame.type \in CallTypes
  <2>1. Sent(Emit(closed, f)) \subseteq Sent(closed) \cup {f}
    BY <1>1, <1>2, EmitSent DEF EmitterInv
  <2>2. Sent(r) = Sent(Emit(closed, f))
    BY <1>2 DEF Sent
  <2> HIDE DEF closed
  <2> QED
    BY <1>1, <1>2, <2>1, <2>2
<1>3. /\ ToolStartFrame(id, name, parent) \in Frames
      /\ CallFrame("TOOL_CALL_ARGS", id, delta) \in Frames
      /\ CallFrame("TOOL_CALL_END", id, NoDelta) \in Frames
      /\ ToolStartFrame(id, name, parent).type \in CallTypes
      /\ CallFrame("TOOL_CALL_ARGS", id, delta).type \in CallTypes
      /\ CallFrame("TOOL_CALL_END", id, NoDelta).type \in CallTypes
  BY ToolFramesAreFrames DEF ToolStartFrame, CallFrame, CallTypes
<1> HIDE DEF closed
<1>4. /\ ToolStart(e, id, name, parent) \in {e, closed}
         \/ ToolStart(e, id, name, parent).wire = Emit(closed, ToolStartFrame(id, name, parent)).wire
      /\ ToolArgs(e, id, delta) = e
         \/ ToolArgs(e, id, delta).wire = Emit(closed, CallFrame("TOOL_CALL_ARGS", id, delta)).wire
      /\ ToolEnd(e, id) = e
         \/ ToolEnd(e, id).wire = Emit(closed, CallFrame("TOOL_CALL_END", id, NoDelta)).wire
  BY DEF ToolStart, ToolArgs, ToolEnd, closed
<1> QED
  BY <1>1, <1>2, <1>3, <1>4
=============================================================================
