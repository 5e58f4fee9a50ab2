---------------------------- MODULE AgentRunProofs ----------------------------
(***************************************************************************)
(* What holds of a whole run, for every value of the constants.  A turn    *)
(* that is one of many keeps the invariants it keeps alone; between the    *)
(* turns the emitter is settled - no block and no call is open - and every *)
(* helper only adds frames to the wire.  So every call a turn returns is   *)
(* on the wire before its result, and the result's id is its own.          *)
(***************************************************************************)
EXTENDS AgentRun, TurnDataProofs

-----------------------------------------------------------------------------
(***************************************************************************)
(* What a step adds to the wire.  The wire of d is the one of e with more  *)
(* frames, all in added; an error is kept, and nothing is written after a  *)
(* transport error.                                                        *)
(***************************************************************************)
More(d, e, added) ==
    /\ d \in EmitterType /\ e \in EmitterType
    /\ Len(e.wire) <= Len(d.wire)
    /\ \A k \in 1..Len(e.wire) : d.wire[k] = e.wire[k]
    /\ \A k \in 1..Len(d.wire) : k > Len(e.wire) => d.wire[k] \in added
    /\ e.err => d.err /\ d.wire = e.wire
    /\ e.encErr => d.encErr

BlockFrames == {f \in Frames : f.type \in BlockTypes}
LifecycleFrames == {f \in Frames : f.type \in CallTypes}
TurnFrames  == BlockFrames \cup LifecycleFrames

LEMMA WireTyped ==
    ASSUME NEW e \in EmitterType
    PROVE  /\ e.wire \in Seq(Frames) /\ Len(e.wire) \in Nat /\ DOMAIN e.wire = 1..Len(e.wire)
           /\ e.err \in BOOLEAN /\ e.encErr \in BOOLEAN
  BY DEF EmitterType

LEMMA MoreNone ==
    ASSUME NEW e \in EmitterType, NEW added
    PROVE  More(e, e, added)
  BY WireTyped DEF More

LEMMA MoreAndMore ==
    ASSUME NEW c, NEW d, NEW e, NEW F, NEW G, NEW H, More(d, e, F), More(c, d, G),
           F \subseteq H, G \subseteq H
    PROVE  More(c, e, H)
<1>1. /\ Len(c.wire) \in Nat /\ Len(d.wire) \in Nat /\ Len(e.wire) \in Nat
  BY WireTyped DEF More
<1>2. Len(e.wire) <= Len(c.wire) /\ \A k \in 1..Len(e.wire) : c.wire[k] = e.wire[k]
  BY <1>1 DEF More
<1>3. ASSUME NEW k \in 1..Len(c.wire), k > Len(e.wire)
      PROVE  c.wire[k] \in H
  <2>1. CASE k > Len(d.wire)
    BY <1>3, <2>1 DEF More
  <2>2. CASE k <= Len(d.wire)
    <3>1. k \in 1..Len(d.wire) /\ c.wire[k] = d.wire[k]
      BY <1>1, <2>2 DEF More
    <3> QED
      BY <1>3, <3>1 DEF More
  <2> QED
    BY <1>1, <2>1, <2>2
<1> QED
  BY <1>2, <1>3 DEF More

(* r may differ from what Emit leaves in what the emitter remembers only.   *)
LEMMA EmitMore ==
    ASSUME NEW e \in EmitterType, NEW frame \in Frames, NEW r \in EmitterType,
           r.wire = Emit(e, frame).wire, r.err = Emit(e, frame).err,
           r.encErr = Emit(e, frame).encErr
    PROVE  More(r, e, {frame})
<1> DEFINE s == Emit(e, frame)
<1>1. /\ s \in EmitterType
      /\ IF Wrote(e, frame)
         THEN /\ s.wire = Append(e.wire, frame)
              /\ ~e.err /\ ~s.err /\ (s.encErr <=> e.encErr)
         ELSE /\ s.wire = e.wire
              /\ (e.err => s.err) /\ (e.encErr => s.encErr)
  BY EmitFact
<1>2. e.err => s = e
  BY DEF Emit
<1>3. e.wire \in Seq(Frames) /\ Len(e.wire) \in Nat
  BY WireTyped
<1> HIDE DEF s
<1>4. CASE Wrote(e, frame)
  BY <1>1, <1>3, <1>4, AppendFacts DEF More, s
<1>5. CASE ~Wrote(e, frame)
  BY <1>1, <1>3, <1>5 DEF More, s
<1> QED
  BY <1>4, <1>5

LEMMA FramesTyped ==
    ASSUME NEW type \in BlockTypes, NEW id \in Nat, NEW delta \in Delta
    PROVE  BlockFrame(type, id, delta) \in BlockFrames
  BY FramesAreFrames DEF Neutral, BlockFrame, BlockFrames

(* The helpers of text and reasoning. *)
LEMMA BlocksMore ==
    ASSUME NEW e, EmitterInv(e), NEW id \in Nat, NEW delta \in Delta, delta # NoDelta
    PROVE  /\ More(TextStart(e, id), e, BlockFrames)
           /\ More(TextContent(e, id, delta), e, BlockFrames)
           /\ More(TextEnd(e, id), e, BlockFrames)
           /\ More(ReasoningStart(e, id), e, BlockFrames)
           /\ More(ReasoningMessageStart(e, id), e, BlockFrames)
           /\ More(ReasoningContent(e, id, delta), e, BlockFrames)
           /\ More(ReasoningMessageEnd(e, id), e, BlockFrames)
           /\ More(ReasoningEnd(e, id), e, BlockFrames)
<1>1. e \in EmitterType
  BY DEF EmitterInv
<1>2. ASSUME NEW type \in BlockTypes, NEW d \in Delta, NEW r, EmitterInv(r), SentAs(type, id, d, r, e)
      PROVE  More(r, e, BlockFrames)
  <2>1. BlockFrame(type, id, d) \in BlockFrames /\ BlockFrame(type, id, d) \in Frames
    BY FramesTyped DEF BlockFrames
  <2>2. More(r, e, {BlockFrame(type, id, d)})
    BY <1>1, <1>2, <2>1, EmitMore DEF SentAs, EmitterInv
  <2> QED
    BY <1>1, <2>1, <2>2, MoreNone, MoreAndMore
<1>3. /\ SentAs("TEXT_START", id, NoDelta, TextStart(e, id), e)
      /\ SentAs("TEXT_CONTENT", id, delta, TextContent(e, id, delta), e)
      /\ SentAs("TEXT_END", id, NoDelta, TextEnd(e, id), e)
      /\ SentAs("REASONING_START", id, NoDelta, ReasoningStart(e, id), e)
      /\ SentAs("REASONING_MESSAGE_START", id, NoDelta, ReasoningMessageStart(e, id), e)
      /\ SentAs("REASONING_CONTENT", id, delta, ReasoningContent(e, id, delta), e)
      /\ SentAs("REASONING_MESSAGE_END", id, NoDelta, ReasoningMessageEnd(e, id), e)
      /\ SentAs("REASONING_END", id, NoDelta, ReasoningEnd(e, id), e)
  BY HelpersSend
<1> QED
  BY <1>2, <1>3, BlockHelpers, NoDeltaType DEF BlockTypes

LEMMA CloseMore ==
    ASSUME NEW e, EmitterInv(e)
    PROVE  More(CloseOpenBlocks(e), e, BlockFrames)
<1>1. ASSUME NEW f, EmitterInv(f)
      PROVE  /\ More(CloseOpenText(f), f, BlockFrames)
             /\ More(CloseOpenReasoningMessage(f), f, BlockFrames)
             /\ More(CloseOpenReasoning(f), f, BlockFrames)
  <2>1. /\ f \in EmitterType
        /\ f.openTextID \in Nat /\ f.openReasoningID \in Nat /\ f.openReasoningMessageID \in Nat
    BY <1>1 DEF EmitterInv, EmitterType
  <2>2. PICK delta \in Delta : delta # NoDelta
    BY ANonEmptyDelta
  <2>3. /\ More(TextEnd(f, f.openTextID), f, BlockFrames)
        /\ More(ReasoningMessageEnd(f, f.openReasoningMessageID), f, BlockFrames)
        /\ More(ReasoningEnd(f, f.openReasoningID), f, BlockFrames)
    BY <1>1, <2>1, <2>2, BlocksMore
  <2>4. More(f, f, BlockFrames)
    BY <2>1, MoreNone
  <2> QED
    BY <1>1, <2>3, <2>4, ClosesEnd
<1> DEFINE t == CloseOpenText(e)
           m == CloseOpenReasoningMessage(t)
<1>2. EmitterInv(t) /\ EmitterInv(m)
  BY CloseOneKind
<1>3. More(t, e, BlockFrames) /\ More(m, t, BlockFrames)
      /\ More(CloseOpenReasoning(m), m, BlockFrames)
  BY <1>1, <1>2
<1> HIDE DEF t, m
<1>4. More(m, e, BlockFrames)
  BY <1>3, MoreAndMore
<1>5. More(CloseOpenReasoning(m), e, BlockFrames)
  BY <1>3, <1>4, MoreAndMore
<1> QED
  BY <1>5 DEF CloseOpenBlocks, t, m

(* A tool frame, sent after the blocks were closed. *)
LEMMA ClosedAndSent ==
    ASSUME NEW e, EmitterInv(e), NEW frame \in Frames, NEW r \in EmitterType,
           r.wire = Emit(CloseOpenBlocks(e), frame).wire,
           r.err = Emit(CloseOpenBlocks(e), frame).err,
           r.encErr = Emit(CloseOpenBlocks(e), frame).encErr
    PROVE  More(r, e, BlockFrames \cup {frame})
<1> DEFINE closed == CloseOpenBlocks(e)
<1>1. EmitterInv(closed) /\ closed \in EmitterType
  BY CloseKeepsInv DEF EmitterInv
<1>2. More(closed, e, BlockFrames)
  BY CloseMore
<1> HIDE DEF closed
<1>3. More(r, closed, {frame})
  BY <1>1, EmitMore DEF closed
<1> QED
  BY <1>2, <1>3, MoreAndMore

StartFrames(id, name, parent) == BlockFrames \cup {ToolStartFrame(id, name, parent)}
CallOnly(id) ==
    BlockFrames \cup {f \in LifecycleFrames :
                        f.call = id /\ f.msg = NoMessage /\ f.type # "TOOL_CALL_START"}
ResultFrame(msg, id) ==
    [type |-> "TOOL_CALL_RESULT", msg |-> msg, call |-> id, name |-> NoName, delta |-> EmptyContent]
ResultFrames(msg, id) == BlockFrames \cup {ResultFrame(msg, id)}

LEMMA ToolsMore ==
    ASSUME NEW e, EmitterInv(e), NEW id \in ToolID, NEW name \in Name, NEW parent \in Nat,
           NEW delta \in Delta
    PROVE  /\ More(ToolStart(e, id, name, parent), e, StartFrames(id, name, parent))
           /\ More(ToolArgs(e, id, delta), e, CallOnly(id))
           /\ More(ToolEnd(e, id), e, CallOnly(id))
<1> DEFINE closed == CloseOpenBlocks(e)
           start  == ToolStartFrame(id, name, parent)
           args   == CallFrame("TOOL_CALL_ARGS", id, delta)
           end    == CallFrame("TOOL_CALL_END", id, NoDelta)
<1>1. start \in Frames /\ args \in Frames /\ end \in Frames
  BY ToolFramesAreFrames
<1>2. args \in CallOnly(id) /\ end \in CallOnly(id)
  BY <1>1 DEF CallFrame, CallOnly, LifecycleFrames, CallTypes
<1>3. /\ e \in EmitterType /\ closed \in EmitterType /\ EmitterInv(closed)
      /\ More(closed, e, BlockFrames)
  BY CloseKeepsInv, CloseMore DEF EmitterInv
<1>4. /\ EmitterInv(ToolStart(e, id, name, parent)) /\ EmitterInv(ToolArgs(e, id, delta))
      /\ EmitterInv(ToolEnd(e, id))
  BY ToolStartKeepsInv, ToolArgsKeepsInv, ToolEndKeepsInv
<1> DEFINE Sent3(r, frame) == /\ r.wire = Emit(closed, frame).wire
                              /\ r.err = Emit(closed, frame).err
                              /\ r.encErr = Emit(closed, frame).encErr
<1>5. ToolStart(e, id, name, parent) \in {e, closed} \/ Sent3(ToolStart(e, id, name, parent), start)
  BY DEF ToolStart
<1>6. ToolArgs(e, id, delta) = e \/ Sent3(ToolArgs(e, id, delta), args)
  BY DEF ToolArgs
<1>7. ToolEnd(e, id) = e \/ Sent3(ToolEnd(e, id), end)
  BY DEF ToolEnd
<1>8. \A r, frame : r \in EmitterType /\ frame \in Frames /\ Sent3(r, frame) =>
          More(r, e, BlockFrames \cup {frame})
  BY ClosedAndSent
<1>9. \A F : BlockFrames \subseteq F => More(closed, e, F)
  <2>1. \A F : More(e, e, F)
    BY <1>3, MoreNone
  <2> QED
    BY <1>3, <2>1, MoreAndMore
<1>10. \A F : More(e, e, F)
  BY <1>3, MoreNone
<1> HIDE DEF closed, start, args, end, Sent3
<1>11. /\ ToolStart(e, id, name, parent) \in EmitterType /\ ToolArgs(e, id, delta) \in EmitterType
       /\ ToolEnd(e, id) \in EmitterType
  BY <1>4 DEF EmitterInv
<1>12. BlockFrames \cup {args} \subseteq CallOnly(id) /\ BlockFrames \cup {end} \subseteq CallOnly(id)
       /\ BlockFrames \subseteq StartFrames(id, name, parent)
       /\ StartFrames(id, name, parent) = BlockFrames \cup {start}
  BY <1>2 DEF CallOnly, StartFrames, start
<1>13. More(ToolStart(e, id, name, parent), e, StartFrames(id, name, parent))
  BY <1>1, <1>5, <1>8, <1>9, <1>10, <1>11, <1>12
<1>14. ASSUME NEW r \in EmitterType, NEW frame \in {args, end}, Sent3(r, frame)
       PROVE  More(r, e, CallOnly(id))
  <2>1. More(r, e, BlockFrames \cup {frame})
    BY <1>1, <1>8, <1>14
  <2> QED
    BY <1>10, <1>12, <2>1, MoreAndMore
<1>15. More(ToolArgs(e, id, delta), e, CallOnly(id))
  BY <1>6, <1>10, <1>11, <1>14
<1>16. More(ToolEnd(e, id), e, CallOnly(id))
  BY <1>7, <1>10, <1>11, <1>14
<1> QED
  BY <1>13, <1>15, <1>16

LEMMA ResultMore ==
    ASSUME NEW e, EmitterInv(e), NEW msg \in Nat, NEW id \in ToolIDs
    PROVE  /\ ResultFrame(msg, id) \in Frames
           /\ ToolResult(e, msg, id, NoDelta) = Emit(CloseOpenBlocks(e), ResultFrame(msg, id))
           /\ More(ToolResult(e, msg, id, NoDelta), e, ResultFrames(msg, id))
<1>1. ResultFrame(msg, id) \in Frames
  BY DEF ResultFrame, Frames, FrameTypes, ToolTypes, ToolID, Name, Delta
<1>2. ToolResult(e, msg, id, NoDelta) = Emit(CloseOpenBlocks(e), ResultFrame(msg, id))
  BY NoIDAssumption DEF ToolResult, ResultFrame
<1>3. CloseOpenBlocks(e) \in EmitterType
  BY CloseKeepsInv DEF EmitterInv
<1>4. More(ToolResult(e, msg, id, NoDelta), e, BlockFrames \cup {ResultFrame(msg, id)})
  BY <1>1, <1>2, <1>3, EmitType, ClosedAndSent
<1> QED
  BY <1>1, <1>2, <1>4 DEF ResultFrames

(* closeText and closeReasoning. *)
LEMMA EndsMore ==
    ASSUME NEW e, EmitterInv(e), text \in Block, reasoning \in Block
    PROVE  More(EndText(e), e, BlockFrames) /\ More(EndReasoning(e), e, BlockFrames)
<1>1. text.id \in Nat /\ reasoning.id \in Nat /\ e \in EmitterType
  BY DEF Block, EmitterInv
<1>2. PICK delta \in Delta : delta # NoDelta
  BY ANonEmptyDelta
<1> DEFINE m == ReasoningMessageEnd(e, reasoning.id)
<1>3. More(TextEnd(e, text.id), e, BlockFrames) /\ More(m, e, BlockFrames) /\ EmitterInv(m)
  BY <1>1, <1>2, BlocksMore, BlockHelpers
<1> HIDE DEF m
<1>4. More(ReasoningEnd(m, reasoning.id), m, BlockFrames)
  BY <1>1, <1>2, <1>3, BlocksMore
<1>5. More(ReasoningEnd(m, reasoning.id), e, BlockFrames)
  BY <1>3, <1>4, MoreAndMore
<1>6. More(e, e, BlockFrames)
  BY <1>1, MoreNone
<1> QED
  BY <1>3, <1>5, <1>6 DEF EndText, EndReasoning, m

LEMMA ReasoningMore ==
    ASSUME TurnInv, ApplyReasoning
    PROVE  More(em', em, BlockFrames)
<1> DEFINE closed == EndText(em)
           id     == IF reasoning.open THEN reasoning.id ELSE nextID
           begun  == ReasoningStart(closed, id)
           opened == IF reasoning.open THEN closed ELSE ReasoningMessageStart(begun, id)
<1>1. /\ EmitterInv(em) /\ text \in Block /\ reasoning \in Block /\ id \in Nat
      /\ piece(0) \in Delta /\ piece(0) # NoDelta
  BY ChunkFacts, NoDeltaAssumption DEF ApplyReasoning, TurnInv, EmitterOK, BlocksInv, Block, InChunk
<1>2. EmitterInv(closed) /\ More(closed, em, BlockFrames)
  BY <1>1, LaterEnds, EndsMore DEF Later
<1> HIDE DEF closed, id
<1>3. EmitterInv(begun) /\ More(begun, closed, BlockFrames)
  BY <1>1, <1>2, BlockHelpers, BlocksMore
<1> HIDE DEF begun
<1>4. /\ EmitterInv(ReasoningMessageStart(begun, id))
      /\ More(ReasoningMessageStart(begun, id), begun, BlockFrames)
  BY <1>1, <1>3, BlockHelpers, BlocksMore
<1>5. EmitterInv(opened) /\ More(opened, em, BlockFrames)
  <2>1. More(ReasoningMessageStart(begun, id), closed, BlockFrames)
    BY <1>3, <1>4, MoreAndMore
  <2>2. More(ReasoningMessageStart(begun, id), em, BlockFrames)
    BY <1>2, <2>1, MoreAndMore
  <2> QED
    BY <1>2, <1>4, <2>2
<1> HIDE DEF opened
<1>6. em' = ReasoningContent(opened, id, piece(0))
  BY DEF ApplyReasoning, opened, begun, closed, id
<1>7. More(em', opened, BlockFrames)
  BY <1>1, <1>5, <1>6, BlocksMore
<1> QED
  BY <1>5, <1>7, MoreAndMore

LEMMA TextMore ==
    ASSUME TurnInv, ApplyText
    PROVE  More(em', em, BlockFrames)
<1> DEFINE closed == EndReasoning(em)
           id     == IF text.open THEN text.id ELSE nextID
           opened == IF text.open THEN closed ELSE TextStart(closed, id)
<1>1. /\ EmitterInv(em) /\ text \in Block /\ reasoning \in Block /\ id \in Nat
      /\ piece(0) \in Delta /\ piece(0) # NoDelta
  BY ChunkFacts, NoDeltaAssumption DEF ApplyText, TurnInv, EmitterOK, BlocksInv, Block, InChunk
<1>2. EmitterInv(closed) /\ More(closed, em, BlockFrames)
  BY <1>1, LaterEnds, EndsMore DEF Later
<1> HIDE DEF closed, id
<1>3. EmitterInv(TextStart(closed, id)) /\ More(TextStart(closed, id), closed, BlockFrames)
  BY <1>1, <1>2, BlockHelpers, BlocksMore
<1>4. EmitterInv(opened) /\ More(opened, em, BlockFrames)
  <2>1. More(TextStart(closed, id), em, BlockFrames)
    BY <1>2, <1>3, MoreAndMore
  <2> QED
    BY <1>2, <1>3, <2>1
<1> HIDE DEF opened
<1>5. em' = TextContent(opened, id, piece(0))
  BY DEF ApplyText, opened, closed, id
<1>6. More(em', opened, BlockFrames)
  BY <1>1, <1>4, <1>5, BlocksMore
<1> QED
  BY <1>4, <1>6, MoreAndMore

LEMMA ClosingMore ==
    ASSUME TurnInv, EnsureToolOwner \/ CloseBlocks
    PROVE  More(em', em, BlockFrames)
<1> DEFINE quiet  == EndReasoning(em)
           closed == EndText(quiet)
<1>1. EmitterInv(em) /\ text \in Block /\ reasoning \in Block
  BY DEF TurnInv, EmitterOK, BlocksInv
<1>2. EmitterInv(quiet) /\ More(quiet, em, BlockFrames)
  BY <1>1, LaterEnds, EndsMore DEF Later
<1>3. em' \in {quiet, closed}
  BY DEF EnsureToolOwner, CloseBlocks
<1> HIDE DEF quiet
<1>4. More(closed, quiet, BlockFrames)
  BY <1>1, <1>2, EndsMore
<1> QED
  BY <1>2, <1>3, <1>4, MoreAndMore

LEMMA CallsMore ==
    ASSUME TurnInv, EndCall \/ FlushArg \/ AcceptFragment
    PROVE  More(em', em, TurnFrames)
<1>1. EmitterInv(em) /\ em \in EmitterType
  BY DEF TurnInv, EmitterOK, EmitterInv
<1>2. PICK id \in ToolID, name \in Name, parent \in Nat, delta \in Delta :
        em' \in {em, ToolStart(em, id, name, parent), ToolArgs(em, id, delta), ToolEnd(em, id)}
  BY ToolHelperCalled DEF ToolCalled
<1>3. /\ More(ToolStart(em, id, name, parent), em, StartFrames(id, name, parent))
      /\ More(ToolArgs(em, id, delta), em, CallOnly(id))
      /\ More(ToolEnd(em, id), em, CallOnly(id))
  BY <1>1, ToolsMore
<1>4. StartFrames(id, name, parent) \subseteq TurnFrames /\ CallOnly(id) \subseteq TurnFrames
  BY ToolFramesAreFrames
     DEF StartFrames, CallOnly, TurnFrames, LifecycleFrames, ToolStartFrame, CallTypes
<1>5. More(em, em, TurnFrames)
  BY <1>1, MoreNone
<1>6. /\ More(ToolStart(em, id, name, parent), em, TurnFrames)
      /\ More(ToolArgs(em, id, delta), em, TurnFrames) /\ More(ToolEnd(em, id), em, TurnFrames)
  BY <1>3, <1>4, <1>5, MoreAndMore
<1> QED
  BY <1>2, <1>5, <1>6

(* A turn writes frames of blocks and calls, and unwrites nothing. *)
LEMMA TurnMore ==
    ASSUME TurnInv, [Next]_vars
    PROVE  More(em', em, TurnFrames)
<1>1. em \in EmitterType /\ BlockFrames \subseteq TurnFrames
  BY DEF TurnInv, EmitterOK, EmitterInv, TurnFrames
<1>2. More(em, em, TurnFrames) /\ More(em, em, BlockFrames)
  BY <1>1, MoreNone
<1>3. CASE EndCall \/ FlushArg \/ AcceptFragment
  BY <1>3, CallsMore
<1>4. CASE ApplyReasoning \/ ApplyText \/ EnsureToolOwner \/ CloseBlocks
  <2>1. More(em', em, BlockFrames)
    BY <1>4, ReasoningMore, TextMore, ClosingMore
  <2> QED
    BY <1>1, <1>2, <2>1, MoreAndMore
<1>5. CASE UNCHANGED em
  BY <1>2, <1>5
<1> QED
  BY <1>3, <1>4, <1>5
     DEF Next, TurnStep, Recv, Apply, Finish, Cancel, OpenFails, OpenStream, CheckRequest, RecvEOF,
         RecvError, RecvChunk, RecvKeepAlive, CallsEnded, SkipFragment, RefuseFragment,
         FragmentDone, ChunkDone, ConcludeEmpty, Conclude, Returned, vars

-----------------------------------------------------------------------------
(***************************************************************************)
(* The bracket.  Between the first frame and the last the wire has no      *)
(* frame of the run, and whoever missed nothing has seen the first one.    *)
(***************************************************************************)
Closers == {"RUN_FINISHED", "RUN_ERROR"}

Amid(e) ==
    /\ ~e.encErr => \A k \in DOMAIN e.wire : /\ e.wire[k].type = "RUN_STARTED" <=> k = 1
                                             /\ e.wire[k].type \notin Closers
    /\ Good(e) => e.wire # <<>>

Over(e) ==
    ~e.encErr =>
        /\ \A k \in DOMAIN e.wire : /\ e.wire[k].type = "RUN_STARTED" <=> k = 1
                                    /\ e.wire[k].type \in Closers => k = Len(e.wire)
        /\ ~e.err => /\ e.wire[Len(e.wire)].type \in Closers
                     /\ e.startedToolCalls = e.endedToolCalls
                     /\ \A kind \in Kinds, i \in DOMAIN e.wire :
                            ~OpenBefore(e.wire, kind, i, Len(e.wire) + 1)

LEMMA AmidMore ==
    ASSUME NEW e, NEW d, NEW added, Amid(e), More(d, e, added),
           \A f \in added : f.type \notin RunTypes
    PROVE  Amid(d)
<1>1. /\ Len(e.wire) \in Nat /\ Len(d.wire) \in Nat
      /\ DOMAIN e.wire = 1..Len(e.wire) /\ DOMAIN d.wire = 1..Len(d.wire)
      /\ e.wire \in Seq(Frames) /\ d.wire \in Seq(Frames)
  BY WireTyped DEF More
<1>2. CASE e.err
  BY <1>2 DEF More, Amid, Good
<1>3. CASE ~e.err /\ ~d.encErr
  <2>1. ~e.encErr /\ Good(e) /\ Len(e.wire) > 0
    BY <1>1, <1>3 DEF More, Amid, Good
  <2>2. ASSUME NEW k \in DOMAIN d.wire
        PROVE  /\ d.wire[k].type = "RUN_STARTED" <=> k = 1
               /\ d.wire[k].type \notin Closers
    <3>1. CASE k <= Len(e.wire)
      BY <1>1, <2>1, <3>1 DEF More, Amid
    <3>2. CASE k > Len(e.wire)
      <4>1. d.wire[k].type \notin RunTypes /\ k # 1
        BY <1>1, <2>1, <3>2 DEF More
      <4> QED
        BY <4>1 DEF RunTypes, Closers
    <3> QED
      BY <1>1, <3>1, <3>2
  <2>3. Len(d.wire) > 0
    BY <1>1, <2>1 DEF More
  <2> QED
    BY <1>1, <2>2, <2>3 DEF Amid
<1>4. CASE d.encErr
  BY <1>4 DEF Amid, Good
<1> QED
  BY <1>2, <1>3, <1>4

(* A frame that is neither of a block nor of a call's lifecycle leaves the *)
(* wire as orderly as it was.                                              *)
LEMMA OtherSent ==
    ASSUME NEW e, WireOK(e), NEW frame \in Frames, frame.type \notin BlockTypes \cup CallTypes
    PROVE  LET s == Emit(e, frame) IN
           /\ WireOK(s) /\ SameOpen(s, e) /\ SameCalls(s, e)
           /\ Good(s) => Good(e) /\ Wrote(e, frame) /\ s.wire = Append(e.wire, frame)
           /\ More(s, e, {frame})
<1> DEFINE s == Emit(e, frame)
<1>1. /\ frame.type \notin Starting /\ frame.type \notin CallTypes
      /\ \A kind \in Kinds :
            frame.type \notin kind.inner \cup {kind.end} /\ frame.type # kind.start
  BY DEF Starting, BlockTypes, Kinds, TextKind, ReasoningKind, ReasoningMessageKind
<1>2. Sendable(e, frame) /\ Neutral(frame)
  BY <1>1 DEF Sendable, Neutral, CallTypes
<1>3. Sends(e, frame, s) /\ EmitterInv(s) /\ e \in EmitterType
  BY <1>2, EmitOrderly, EmitNeutral DEF WireOK, EmitterInv
<1>4. SameOpen(s, e) /\ SameCalls(s, e) /\ s \in EmitterType
  BY <1>3, EmitFact
<1>5. More(s, e, {frame})
  BY <1>3, <1>4, EmitMore
<1> HIDE DEF s
<1>6. Good(s) => \A kind \in Kinds : \A x : OpenNow(s.wire, kind, x) <=> OpenNow(e.wire, kind, x)
  BY <1>1, <1>3 DEF Sends, Shifts
<1>7. Good(s) => MarksAll(s)
  BY <1>3, <1>4, <1>6, KindsAre DEF Sends, WireOK, Orderly, MarksAll, Marks, SameOpen
<1> QED
  BY <1>3, <1>4, <1>5, <1>7 DEF Sends, WireOK, Orderly, s

(* Nothing is open, as far as the client missed nothing. *)
Settled(e) == WireOK(e) /\ (Good(e) => Forgot(e) /\ NoCallOpen(e))

(* The last frame of a run, RUN_FINISHED or RUN_ERROR. *)
LEMMA RunCloses ==
    ASSUME NEW e, Settled(e), Amid(e), NEW frame \in Frames, frame.type \in Closers
    PROVE  LET s == Emit(e, frame) IN
           Over(s) /\ (Good(s) => s.wire # <<>> /\ s.wire[Len(s.wire)].type = frame.type)
<1> DEFINE s == Emit(e, frame)
<1>1. frame.type \notin BlockTypes \cup CallTypes /\ frame.type # "RUN_STARTED"
  BY DEF Closers, BlockTypes, CallTypes
<1>2. /\ WireOK(s) /\ SameOpen(s, e) /\ SameCalls(s, e)
      /\ Good(s) => Good(e) /\ Wrote(e, frame) /\ s.wire = Append(e.wire, frame)
      /\ More(s, e, {frame})
  BY <1>1, OtherSent DEF Settled
<1>3. e \in EmitterType /\ e.wire \in Seq(Frames) /\ Len(e.wire) \in Nat /\ DOMAIN e.wire = 1..Len(e.wire)
  BY WireTyped DEF Settled, WireOK, EmitterInv
<1>4. ~Wrote(e, frame) => s.wire = e.wire /\ (e.encErr => s.encErr)
  BY <1>3, EmitFact
<1>5. Wrote(e, frame) => ~e.err /\ s.wire = Append(e.wire, frame) /\ (s.encErr <=> e.encErr)
  BY <1>3, EmitFact
<1> HIDE DEF s
<1>6. CASE ~Wrote(e, frame)
  <2>1. ~Good(s)
    BY <1>2, <1>6
  <2>2. s.wire = e.wire /\ (e.encErr => s.encErr)
    BY <1>4, <1>6
  <2> QED
    BY <2>1, <2>2 DEF Over, Amid, Good, s
<1>7. CASE Wrote(e, frame) /\ s.encErr
  BY <1>7 DEF Over, Good, s
<1>8. CASE Wrote(e, frame) /\ ~s.encErr
  <2>1. Good(e) /\ Len(e.wire) > 0 /\ s.wire = Append(e.wire, frame)
    BY <1>3, <1>5, <1>8 DEF Amid, Good
  <2>2. /\ DOMAIN s.wire = 1..(Len(e.wire) + 1) /\ Len(s.wire) = Len(e.wire) + 1
        /\ s.wire[Len(e.wire) + 1] = frame
        /\ \A k \in 1..Len(e.wire) : s.wire[k] = e.wire[k]
    BY <1>3, <2>1, AppendFacts
  <2>3. \A k \in DOMAIN s.wire : /\ s.wire[k].type = "RUN_STARTED" <=> k = 1
                                 /\ s.wire[k].type \in Closers => k = Len(s.wire)
    BY <1>1, <1>3, <2>1, <2>2 DEF Amid, Good
  <2>4. Forgot(s) /\ NoCallOpen(s)
    BY <1>2, <2>1 DEF Settled, Forgot, NoCallOpen, SameOpen, SameCalls
  <2>5. ~s.err => /\ \A kind \in Kinds, i \in DOMAIN s.wire :
                        ~OpenBefore(s.wire, kind, i, Len(s.wire) + 1)
                  /\ s.startedToolCalls = s.endedToolCalls
    BY <1>2, <1>8, <2>4, NothingOpen DEF Good
  <2>6. s.wire # <<>> /\ s.wire[Len(s.wire)].type = frame.type
    BY <1>3, <2>2
  <2> QED
    BY <2>3, <2>5, <2>6 DEF Over, s
<1> QED
  BY <1>6, <1>7, <1>8

-----------------------------------------------------------------------------
(***************************************************************************)
(* The arguments of a proposed call, one frame for each piece.             *)
(***************************************************************************)
SentBy(sent, e, id, args, N) ==
    sent = [n \in 0..N |-> IF n = 0 THEN e ELSE ToolArgs(sent[n - 1], id, args[n])]

LEMMA SentSteps ==
    ASSUME NEW sent, NEW e, NEW id, NEW args, NEW N \in Nat, SentBy(sent, e, id, args, N)
    PROVE  sent[0] = e /\ \A n \in 1..N : sent[n] = ToolArgs(sent[n - 1], id, args[n])
<1>1. \A n \in 0..N : sent[n] = IF n = 0 THEN e ELSE ToolArgs(sent[n - 1], id, args[n])
  BY DEF SentBy
<1> QED
  BY <1>1

LEMMA SentExists ==
    ASSUME NEW e, NEW id, NEW args, NEW N \in Nat
    PROVE  \E sent : SentBy(sent, e, id, args, N)
<1> DEFINE T == {n \in Nat : \E sent : SentBy(sent, e, id, args, n)}
<1>1. 0 \in T
  <2>1. SentBy([n \in 0..0 |-> e], e, id, args, 0)
    BY DEF SentBy
  <2> QED
    BY <2>1
<1>2. ASSUME NEW n \in Nat, n \in T
      PROVE  n + 1 \in T
  <2>1. PICK f : SentBy(f, e, id, args, n)
    BY <1>2
  <2> DEFINE g == [m \in 0..(n + 1) |-> IF m = n + 1 THEN ToolArgs(f[n], id, args[n + 1]) ELSE f[m]]
             h == [m \in 0..(n + 1) |-> IF m = 0 THEN e ELSE ToolArgs(g[m - 1], id, args[m])]
  <2>2. f[0] = e /\ \A m \in 1..n : f[m] = ToolArgs(f[m - 1], id, args[m])
    BY <2>1, SentSteps
  <2>3. ASSUME NEW m \in 0..(n + 1) PROVE g[m] = h[m]
    <3>1. CASE m = 0
      BY <2>2, <3>1
    <3>2. CASE m \in 1..n
      <4>1. g[m] = f[m] /\ g[m - 1] = f[m - 1]
        BY <3>2
      <4> QED
        BY <2>2, <3>2, <4>1
    <3>3. CASE m = n + 1
      <4>1. g[m] = ToolArgs(f[n], id, args[m]) /\ g[m - 1] = f[n]
        BY <3>3
      <4> QED
        BY <3>3, <4>1
    <3> QED
      BY <3>1, <3>2, <3>3
  <2>4. g = h
    <3>1. g = [m \in 0..(n + 1) |-> g[m]] /\ h = [m \in 0..(n + 1) |-> h[m]]
      OBVIOUS
    <3> HIDE DEF g, h
    <3> QED
      BY <2>3, <3>1
  <2>5. SentBy(g, e, id, args, n + 1)
    BY <2>4 DEF SentBy
  <2> QED
    BY <2>5
<1>3. Nat \subseteq T
  <2> HIDE DEF T
  <2> QED
    BY <1>1, <1>2, SetInduction
<1> QED
  BY <1>3

LEMMA ArgumentsAreSent ==
    ASSUME NEW e, NEW id, NEW args, Len(args) \in Nat
    PROVE  \E sent : SentBy(sent, e, id, args, Len(args)) /\ Arguments(e, id, args) = sent[Len(args)]
<1> DEFINE sent == CHOOSE f : SentBy(f, e, id, args, Len(args))
<1>1. SentBy(sent, e, id, args, Len(args))
  BY SentExists
<1>2. Arguments(e, id, args) = sent[Len(args)]
  BY DEF Arguments, SentBy
<1> QED
  BY <1>1, <1>2

CallFramesOnly(r, e) ==
    Good(r) /\ Forgot(e) => \A f \in Sent(r) : f \in Sent(e) \/ f.type \in CallTypes

Fed(r, e, id) ==
    /\ WireOK(r) /\ SameCalls(r, e)
    /\ More(r, e, CallOnly(id))
    /\ Good(r) => Good(e) /\ (Forgot(e) => Forgot(r))
    /\ CallFramesOnly(r, e)

LEMMA OnlyCallFrames ==
    ASSUME NEW e, EmitterInv(e), NEW id \in ToolID, NEW name \in Name, NEW parent \in Nat,
           NEW delta \in Delta
    PROVE  /\ CallFramesOnly(ToolStart(e, id, name, parent), e)
           /\ CallFramesOnly(ToolArgs(e, id, delta), e)
           /\ CallFramesOnly(ToolEnd(e, id), e)
<1>1. Forgot(e) => EndsSent(e) = {}
  BY DEF Forgot, EndsSent
<1> QED
  BY <1>1, ToolsSend DEF CallFramesOnly

LEMMA FedStep ==
    ASSUME NEW d, NEW e, NEW id \in ToolIDs, Fed(d, e, id), NEW delta \in Delta
    PROVE  Fed(ToolArgs(d, id, delta), e, id)
<1> DEFINE c == ToolArgs(d, id, delta)
<1>1. WireOK(d) /\ EmitterInv(d) /\ id \in ToolID /\ NoName \in Name /\ 0 \in Nat
  BY DEF Fed, WireOK, ToolID, Name
<1>2. ToolSent(c, d) /\ SameCalls(c, d)
  BY <1>1, ToolArgsOrderly
<1>3. More(c, d, CallOnly(id)) /\ CallFramesOnly(c, d)
  BY <1>1, ToolsMore, OnlyCallFrames
<1> HIDE DEF c
<1>4. More(c, e, CallOnly(id))
  BY <1>3, MoreAndMore DEF Fed
<1>5. WireOK(c) /\ SameCalls(c, e) /\ (Good(c) => Good(d) /\ Good(e))
  BY <1>2 DEF Fed, ToolSent, SameCalls
<1>6. ASSUME Good(c), Forgot(e)
      PROVE  Forgot(c) /\ \A f \in Sent(c) : f \in Sent(e) \/ f.type \in CallTypes
  <2>1. Good(d) /\ Forgot(d)
    BY <1>5, <1>6 DEF Fed
  <2>2. Forgot(c)
    BY <1>2, <1>6, <2>1 DEF ToolSent, SameOpen, Forgot
  <2> QED
    BY <1>3, <1>6, <2>1, <2>2 DEF Fed, CallFramesOnly
<1> QED
  BY <1>4, <1>5, <1>6 DEF Fed, CallFramesOnly, c

(* The arguments of a call that was just started are said piece by piece.   *)
LEMMA ArgumentsFed ==
    ASSUME NEW e, WireOK(e), NEW id \in ToolIDs, NEW args \in Seq(Tokens)
    PROVE  LET r == Arguments(e, id, args) IN
           /\ Fed(r, e, id)
           /\ Good(r) /\ id \in e.startedToolCalls \ e.endedToolCalls
                /\ Said(e, ArgumentFrames(id)) = <<>> => Said(r, ArgumentFrames(id)) = args
<1> DEFINE N == Len(args)
           S == ArgumentFrames(id)
           Told(r, n) == Good(r) /\ id \in e.startedToolCalls \ e.endedToolCalls /\ Said(e, S) = <<>>
                            => Said(r, S) = [i \in 1..n |-> args[i]]
<1>1. /\ N \in Nat /\ id \in ToolID /\ args = [i \in 1..N |-> args[i]]
      /\ \A n \in 1..N : args[n] \in Tokens /\ args[n] \in Delta /\ args[n] # NoDelta
  BY NoDeltaAssumption DEF ToolID, Delta
<1>2. PICK sent : SentBy(sent, e, id, args, N) /\ Arguments(e, id, args) = sent[N]
  BY <1>1, ArgumentsAreSent
<1>3. sent[0] = e /\ \A n \in 1..N : sent[n] = ToolArgs(sent[n - 1], id, args[n])
  BY <1>1, <1>2, SentSteps
<1>4. /\ Contents(S)
      /\ \A delta \in Delta : CallFrame("TOOL_CALL_ARGS", id, delta) \in S
  BY <1>1, CallFrames
<1> HIDE DEF N, S
<1> DEFINE T == {n \in Nat : n <= N => Fed(sent[n], e, id) /\ Told(sent[n], n)}
<1>5. 0 \in T
  <2>1. Fed(e, e, id)
    BY MoreNone DEF Fed, SameCalls, WireOK, EmitterInv, CallFramesOnly
  <2>2. <<>> = [i \in 1..0 |-> args[i]]
    OBVIOUS
  <2> QED
    BY <1>3, <2>1, <2>2
<1>6. ASSUME NEW n \in Nat, n \in T PROVE n + 1 \in T
  <2> SUFFICES ASSUME n + 1 <= N PROVE Fed(sent[n + 1], e, id) /\ Told(sent[n + 1], n + 1)
    OBVIOUS
  <2>1. Fed(sent[n], e, id) /\ Told(sent[n], n) /\ n + 1 \in 1..N /\ (n + 1) - 1 = n
    BY <1>1, <1>6
  <2> DEFINE d == sent[n]
             c == sent[n + 1]
             x == args[n + 1]
  <2>2. c = ToolArgs(d, id, x) /\ x \in Delta /\ x # NoDelta
    BY <1>1, <1>3, <2>1
  <2>3. Fed(d, e, id) /\ EmitterInv(d) /\ SameCalls(d, e)
    BY <2>1 DEF Fed, WireOK
  <2> HIDE DEF c, d
  <2>4. Fed(c, e, id)
    BY <2>2, <2>3, FedStep
  <2>5. ASSUME Good(c), id \in e.startedToolCalls \ e.endedToolCalls, Said(e, S) = <<>>
        PROVE  Said(c, S) = [i \in 1..(n + 1) |-> args[i]]
    <3>1. (d.err => c.err) /\ (d.encErr => c.encErr)
      BY <1>1, <1>4, <2>2, <2>3, ToolsSay, NoDeltaType DEF Name
    <3>2. Good(d) /\ EmitterInv(c)
      <4>1. d.err \in BOOLEAN /\ d.encErr \in BOOLEAN /\ EmitterInv(c)
        BY <2>3, <2>4, WireTyped DEF Fed, WireOK, EmitterInv
      <4> QED
        BY <2>5, <3>1, <4>1 DEF Good
    <3>3. Said(d, S) = [i \in 1..n |-> args[i]]
      BY <2>1, <2>5, <3>2 DEF d
    <3>4. id \in d.startedToolCalls /\ id \notin d.endedToolCalls /\ id # NoID
      BY <2>3, <2>5, NoIDAssumption DEF SameCalls
    <3>5. NoName \in Name /\ 0 \in Nat
      BY DEF Name
    <3>6. Said(c, S) = Append(Said(d, S), x)
      BY <1>1, <1>4, <2>2, <2>3, <2>5, <3>4, <3>5, ToolsSay
    <3>7. Append([i \in 1..n |-> args[i]], x) = [i \in 1..(n + 1) |-> args[i]]
      BY DEF x
    <3> QED
      BY <3>3, <3>6, <3>7
  <2> QED
    BY <2>4, <2>5 DEF c
<1>7. Nat \subseteq T
  <2> HIDE DEF T
  <2> QED
    BY <1>5, <1>6, SetInduction
<1>8. Fed(sent[N], e, id) /\ Told(sent[N], N)
  BY <1>1, <1>7
<1> HIDE DEF T
<1> QED
  BY <1>1, <1>2, <1>8 DEF S

Proposed(e, c, parent) ==
    ToolEnd(Arguments(ToolStart(e, c.id, c.name, parent), c.id, c.arguments), c.id)

ProposedFrames(c, parent) == StartFrames(c.id, c.name, parent) \cup CallOnly(c.id)

LEMMA ProposedInTurnFrames ==
    ASSUME NEW c \in CallsOf(Names), NEW parent \in Nat
    PROVE  ProposedFrames(c, parent) \subseteq TurnFrames
<1>1. c.id \in ToolID /\ c.name \in Name
  BY DEF CallsOf, ToolID, Name
<1> QED
  BY <1>1, NoDeltaType, ToolFramesAreFrames
     DEF ProposedFrames, StartFrames, CallOnly, TurnFrames, LifecycleFrames, ToolStartFrame, CallTypes

(* A proposed call is over, and nothing else is open; if it is new, all of  *)
(* its arguments are said.                                                  *)
LEMMA ProposedSettles ==
    ASSUME NEW e, Settled(e), NEW c \in CallsOf(Names), NEW parent \in Nat
    PROVE  LET r == Proposed(e, c, parent) IN
           /\ Settled(r) /\ More(r, e, ProposedFrames(c, parent)) /\ CallFramesOnly(r, e)
           /\ Good(r) => /\ Good(e) /\ r.startedToolCalls = e.startedToolCalls \cup {c.id}
                         /\ c.id \notin e.startedToolCalls => Said(r, ArgumentFrames(c.id)) = c.arguments
<1> DEFINE s == ToolStart(e, c.id, c.name, parent)
           a == Arguments(s, c.id, c.arguments)
           r == ToolEnd(a, c.id)
           S == ArgumentFrames(c.id)
           F == ProposedFrames(c, parent)
<1>1. /\ c.id \in ToolIDs /\ c.id \in ToolID /\ c.name \in Names /\ c.name \in Name
      /\ c.arguments \in Seq(Tokens) /\ WireOK(e) /\ EmitterInv(e) /\ Contents(S)
  BY CallFrames DEF CallsOf, ToolID, Name, Settled, WireOK
<1>2. /\ ToolSent(s, e) /\ s.endedToolCalls = e.endedToolCalls
      /\ s.startedToolCalls \in {e.startedToolCalls, e.startedToolCalls \cup {c.id}}
  BY <1>1, ToolStartOrderly
<1>3. More(s, e, StartFrames(c.id, c.name, parent)) /\ CallFramesOnly(s, e)
  BY <1>1, NoDeltaType, ToolsMore, OnlyCallFrames
<1>4. WireOK(s) /\ Said(s, S) = Said(e, S)
      /\ (Good(s) => s.startedToolCalls = e.startedToolCalls \cup {c.id})
  BY <1>1, <1>2, NoDeltaType, ToolsSay, StartRemembers DEF ToolSent, Continues
<1> HIDE DEF s
<1>5. /\ Fed(a, s, c.id)
      /\ Good(a) /\ c.id \in s.startedToolCalls \ s.endedToolCalls /\ Said(s, S) = <<>>
           => Said(a, S) = c.arguments
  BY <1>1, <1>4, ArgumentsFed
<1> HIDE DEF a
<1>6. WireOK(a) /\ EmitterInv(a)
  BY <1>5 DEF Fed, WireOK
<1>7. /\ ToolSent(r, a) /\ r.startedToolCalls = a.startedToolCalls
      /\ a.endedToolCalls \subseteq r.endedToolCalls
      /\ Good(r) /\ c.id \in a.startedToolCalls => c.id \in r.endedToolCalls
  BY <1>1, <1>6, ToolEndOrderly
<1>8. More(r, a, CallOnly(c.id)) /\ CallFramesOnly(r, a) /\ Said(r, S) = Said(a, S)
  BY <1>1, <1>6, NoDeltaType, ToolsMore, OnlyCallFrames, ToolsSay DEF Continues
<1>9. StartFrames(c.id, c.name, parent) \subseteq F /\ CallOnly(c.id) \subseteq F
  BY DEF ProposedFrames
<1> HIDE DEF r, F, S
<1>10. More(a, e, F)
  BY <1>3, <1>5, <1>9, MoreAndMore DEF Fed
<1>11. More(r, e, F)
  BY <1>8, <1>9, <1>10, MoreAndMore
<1>12. Good(r) => Good(a) /\ Good(s) /\ Good(e)
  BY <1>2, <1>5, <1>7 DEF ToolSent, Fed
<1>13. ASSUME Good(r), Forgot(e)
       PROVE  /\ Forgot(r)
              /\ \A f \in Sent(r) : f \in Sent(e) \/ f.type \in CallTypes
  <2>1. Forgot(s)
    BY <1>2, <1>12, <1>13 DEF ToolSent, SameOpen, Forgot
  <2>2. Forgot(a)
    BY <1>5, <1>12, <1>13, <2>1 DEF Fed
  <2>3. Forgot(r)
    BY <1>7, <1>13, <2>2 DEF ToolSent, SameOpen, Forgot
  <2> QED
    BY <1>3, <1>5, <1>8, <1>12, <1>13, <2>1, <2>2, <2>3 DEF CallFramesOnly, Fed
<1>14. Good(r) => NoCallOpen(r)
  BY <1>2, <1>5, <1>7, <1>12 DEF Fed, SameCalls, NoCallOpen, Settled
<1>15. Settled(r)
  BY <1>7, <1>12, <1>13, <1>14 DEF Settled, ToolSent
<1>16. Good(r) => r.startedToolCalls = e.startedToolCalls \cup {c.id}
  BY <1>4, <1>5, <1>7, <1>12 DEF Fed, SameCalls
<1>17. ASSUME Good(r), c.id \notin e.startedToolCalls PROVE Said(r, S) = c.arguments
  <2>1. Said(e, S) = <<>> /\ c.id \notin e.endedToolCalls
    BY <1>1, <1>17, UnstartedCall DEF S
  <2> QED
    BY <1>2, <1>4, <1>5, <1>8, <1>12, <1>17, <2>1
<1>18. r = Proposed(e, c, parent)
  BY DEF Proposed, r, a, s
<1> QED
  BY <1>11, <1>12, <1>13, <1>15, <1>16, <1>17, <1>18 DEF F, S, CallFramesOnly

LEMMA NothingToClose ==
    ASSUME NEW e, Forgot(e)
    PROVE  CloseOpenBlocks(e) = e
BY DEF CloseOpenBlocks, CloseOpenText, CloseOpenReasoningMessage, CloseOpenReasoning, Forgot

LEMMA ResultSettles ==
    ASSUME NEW e, Settled(e), NEW msg \in Nat, NEW id \in ToolIDs
    PROVE  LET r == ToolResult(e, msg, id, NoDelta) IN
           /\ Settled(r) /\ SameCalls(r, e) /\ More(r, e, ResultFrames(msg, id))
           /\ Good(r) => Good(e) /\ r.wire = Append(e.wire, ResultFrame(msg, id))
<1> DEFINE closed == CloseOpenBlocks(e)
           frame  == ResultFrame(msg, id)
           r      == Emit(closed, frame)
<1>1. EmitterInv(e) /\ WireOK(e)
  BY DEF Settled, WireOK
<1>2. /\ frame \in Frames
      /\ ToolResult(e, msg, id, NoDelta) = r
      /\ More(r, e, ResultFrames(msg, id))
  BY <1>1, ResultMore
<1>3. LessOpen(closed, e) /\ (Good(closed) => Forgot(closed)) /\ (Forgot(e) => closed = e)
  BY <1>1, CloseOrderly, NothingToClose
<1> HIDE DEF closed
<1>4. frame.type \notin BlockTypes \cup CallTypes
  BY DEF ResultFrame, BlockTypes, CallTypes
<1> HIDE DEF frame
<1>5. /\ WireOK(r) /\ SameOpen(r, closed) /\ SameCalls(r, closed)
      /\ Good(r) => Good(closed) /\ r.wire = Append(closed.wire, frame)
  BY <1>2, <1>3, <1>4, OtherSent DEF LessOpen
<1> HIDE DEF r
<1>6. Good(r) => Forgot(r) /\ NoCallOpen(r)
  BY <1>3, <1>5 DEF LessOpen, Settled, SameOpen, SameCalls, Forgot, NoCallOpen
<1>7. Good(r) => Good(e) /\ r.wire = Append(e.wire, frame)
  BY <1>3, <1>5 DEF LessOpen, Settled
<1>8. SameCalls(r, e)
  BY <1>3, <1>5 DEF LessOpen, SameCalls
<1> QED
  BY <1>2, <1>5, <1>6, <1>7, <1>8 DEF Settled, frame

-----------------------------------------------------------------------------
(***************************************************************************)
(* The invariant of a run.  In a turn it is the turn's; between the turns  *)
(* it is what the application needs, and leaves, to begin another one.     *)
(***************************************************************************)
TurnOK == TurnInv /\ TurnWireInv /\ TypesReturned

Between ==
    /\ pc = "done" /\ primary = "none" /\ late = 0
    /\ live \in BOOLEAN /\ ctxDone \in BOOLEAN /\ nextID \in Nat \ {0} /\ owner.id \in Nat
    /\ result.calls \in Seq(MergedCall) /\ todo \in Seq(CallsOf(Names))
    /\ Settled(em) /\ Amid(em)

Succeeded ==
    stage = "ended" /\ (Good(em) => wire # <<>> /\ wire[Len(wire)].type = "RUN_FINISHED") /\ ~em.err

RunInv ==
    /\ stage \in {"start", "turn", "propose", "answer", "ended"}
    /\ stage \in {"start", "turn"} => TurnOK
    /\ stage = "start" => pc = "open" /\ em.wire = <<>>
    /\ stage = "turn" => Amid(em)
    /\ stage \in {"propose", "answer"} => Between
    /\ stage = "ended" => Over(em)
    /\ outcome = "ok" => Succeeded

LEMMA RunInitInv == RunInit => RunInv
<1> SUFFICES ASSUME RunInit PROVE RunInv
  OBVIOUS
<1>1. TurnOK
  BY TurnInit, WireInit, TypesInit DEF RunInit, TurnOK
<1>2. pc = "open" /\ em.wire = <<>>
  BY DEF RunInit, Init, NewEmitter
<1> QED
  BY <1>1, <1>2 DEF RunInit, RunInv

LEMMA BeginInv ==
    ASSUME RunInv, Begin
    PROVE  RunInv'
<1> DEFINE frame == OtherFrame("RUN_STARTED")
<1>1. /\ TurnInv /\ TurnWireInv /\ TypesReturned /\ pc = "open" /\ em.wire = <<>>
      /\ em' = Emit(em, frame) /\ stage' = "turn" /\ outcome # "ok"
      /\ UNCHANGED <<live, ctxDone, late, pc, cursor, after, primary, chunks, text, reasoning,
                     wireMessages, owner, nextID, calls, usage, result, outcome, turns, todo>>
  BY DEF RunInv, TurnOK, Begin, RunStarted, request, blocks, Succeeded
<1>2. frame \in Frames /\ frame.type = "RUN_STARTED" /\ frame.type \notin BlockTypes \cup CallTypes
  BY DEF OtherFrame, Frames, FrameTypes, OtherTypes, RunTypes, ToolID, Name, Delta, NoMessage,
         BlockTypes, CallTypes
<1> HIDE DEF frame
<1>3. WireOK(em)
  BY <1>1 DEF TurnWireInv
<1>4. /\ WireOK(em') /\ SameOpen(em', em) /\ SameCalls(em', em)
      /\ Good(em') => Good(em) /\ Wrote(em, frame) /\ em'.wire = Append(em.wire, frame)
  BY <1>1, <1>2, <1>3, OtherSent
<1>5. em'.wire = Append(em.wire, frame) \/ (em'.wire = em.wire /\ ~Good(em'))
  BY <1>1, <1>2, <1>3, EmitFact DEF WireOK, EmitterInv
<1>6. Amid(em')
  <2>1. Append(em.wire, frame) = <<frame>>
    BY <1>1
  <2> QED
    BY <1>1, <1>2, <1>5, <2>1 DEF Amid, Good, Closers
<1>7. TurnInv'
  <2>1. ControlInv'
    BY <1>1 DEF TurnInv, ControlInv, InChunk
  <2>2. EmitterOK'
    BY <1>1, <1>4 DEF EmitterOK, Connected, WireOK
  <2>3. BlocksInv'
    <3>1. BlocksInv /\ ~text.open /\ ~reasoning.open /\ (Good(em') => Good(em))
      BY <1>1, <1>4 DEF TurnInv, BlocksInv, Closing
    <3>2. ~em'.err => ~em.err
      BY <1>1, <1>2, <1>3, EmitFact DEF WireOK, EmitterInv
    <3> QED
      BY <1>1, <3>1, <3>2 DEF BlocksInv
  <2>4. TranscriptInv'
    BY <1>1 DEF TurnInv, TranscriptInv
  <2>5. ReturnInv' /\ LateInv'
    BY <1>1 DEF TurnInv, ReturnInv, LateInv, Stopping
  <2>6. CallsInv'
    BY <1>1 DEF TurnInv, CallsInv
  <2> QED
    BY <2>1, <2>2, <2>3, <2>4, <2>5, <2>6 DEF TurnInv
<1>8. TurnWireInv'
  BY <1>1, <1>4 DEF TurnWireInv, TextHeld, ReasoningHeld, CallsHeld, CallsDone, SameOpen, SameCalls
<1>9. TypesReturned'
  BY <1>1 DEF TypesReturned
<1> QED
  BY <1>1, <1>6, <1>7, <1>8, <1>9 DEF RunInv, TurnOK

LEMMA TurnFramesNotOfRun == \A f \in TurnFrames : f.type \notin RunTypes
  BY DEF TurnFrames, BlockFrames, LifecycleFrames, BlockTypes, CallTypes, RunTypes

LEMMA InTurnInv ==
    ASSUME RunInv, InTurn \/ Interrupt
    PROVE  RunInv'
<1>1. /\ [Next]_vars /\ UNCHANGED <<stage, outcome>> /\ stage # "ended" /\ outcome # "ok"
      /\ stage \in {"start", "turn"}
  BY DEF InTurn, Interrupt, Next, runVars, RunInv, Succeeded, Cancel, Between
<1>2. TurnOK
  BY <1>1 DEF RunInv
<1>3. TurnOK'
  BY <1>1, <1>2, NextInv, WireNext, TypesNext DEF TurnOK
<1>4. stage = "turn" => Amid(em')
  <2>1. More(em', em, TurnFrames)
    BY <1>1, <1>2, TurnMore DEF TurnOK
  <2> QED
    BY <2>1, AmidMore, TurnFramesNotOfRun DEF RunInv
<1>5. stage = "start" => UNCHANGED <<pc, em>>
  BY DEF InTurn, Interrupt, Cancel
<1> QED
  BY <1>1, <1>3, <1>4, <1>5 DEF RunInv

LEMMA TurnSettles ==
    ASSUME RunInv, stage = "turn", pc = "done"
    PROVE  Settled(em) /\ Amid(em)
<1>1. TurnInv /\ TurnWireInv /\ Amid(em)
  BY DEF RunInv, TurnOK
<1> QED
  BY <1>1, BlocksForgotten, NoneHeld DEF Settled, TurnWireInv

LEMMA RunFrames ==
    /\ OtherFrame("RUN_ERROR") \in Frames /\ OtherFrame("RUN_FINISHED") \in Frames
    /\ OtherFrame("RUN_ERROR").type = "RUN_ERROR" /\ OtherFrame("RUN_FINISHED").type = "RUN_FINISHED"
  BY DEF OtherFrame, Frames, FrameTypes, OtherTypes, RunTypes, ToolID, Name, Delta, NoMessage

LEMMA TurnFailedInv ==
    ASSUME RunInv, TurnFailed
    PROVE  RunInv'
<1>1. Settled(em) /\ Amid(em)
  BY TurnSettles DEF TurnFailed
<1>2. em' = Emit(em, OtherFrame("RUN_ERROR")) /\ stage' = "ended" /\ outcome' = "failed"
  BY DEF TurnFailed, RunError
<1>3. Over(em')
  BY <1>1, <1>2, RunFrames, RunCloses DEF Closers
<1> QED
  BY <1>2, <1>3 DEF RunInv

LEMMA CallsSelected ==
    ASSUME NEW merged \in Seq(MergedCall)
    PROVE  /\ Server(merged) \in Seq(MergedCall) /\ Client(merged) \in Seq(MergedCall)
           /\ Named(merged) \in Seq(CallsOf(Names))
<1>1. Server(merged) \in Seq(MergedCall) /\ Client(merged) \in Seq(MergedCall)
  BY SelectedElements DEF Server, Client
<1>2. /\ Named(merged) \in Seq(MergedCall)
      /\ \A i \in DOMAIN Named(merged) : Named(merged)[i] \in CallsOf(Names)
  BY SelectedElements DEF Named
<1> HIDE DEF Named
<1>3. \A q : q \in Seq(MergedCall) /\ (\A i \in DOMAIN q : q[i] \in CallsOf(Names)) => q \in Seq(CallsOf(Names))
  OBVIOUS
<1> QED
  BY <1>1, <1>2, <1>3

LEMMA TurnSucceededInv ==
    ASSUME RunInv, TurnSucceeded
    PROVE  RunInv'
<1>1. /\ stage = "turn" /\ pc = "done" /\ primary = "none" /\ stage' \in {"answer", "propose"}
      /\ UNCHANGED <<em, live, ctxDone, late, pc, primary, nextID, owner, result, outcome>>
  BY DEF TurnSucceeded, vars
<1>2. TurnInv /\ TurnWireInv /\ TypesReturned /\ Settled(em) /\ Amid(em) /\ outcome # "ok"
  BY <1>1, TurnSettles DEF RunInv, TurnOK, Succeeded
<1>3. result.calls \in Seq(MergedCall)
  BY <1>2 DEF TypesReturned, Results
<1>4. todo' \in Seq(CallsOf(Names))
  <2>1. todo' \in {Named(Server(result.calls)), Named(Server(result.calls) \o Client(result.calls))}
    BY DEF TurnSucceeded
  <2>2. /\ Server(result.calls) \in Seq(MergedCall)
        /\ Server(result.calls) \o Client(result.calls) \in Seq(MergedCall)
    BY <1>3, CallsSelected
  <2> QED
    BY <2>1, <2>2, CallsSelected
<1>5. /\ late = 0 /\ live \in BOOLEAN /\ ctxDone \in BOOLEAN /\ nextID \in Nat \ {0}
      /\ owner.id \in Nat
  BY <1>1, <1>2 DEF TurnInv, LateInv, Stopping, ControlInv, TypesReturned, BlocksInv, TranscriptInv
<1>6. Between'
  BY <1>1, <1>2, <1>3, <1>4, <1>5 DEF Between
<1> QED
  BY <1>1, <1>2, <1>6 DEF RunInv

LEMMA ProposeInv ==
    ASSUME RunInv, Propose
    PROVE  RunInv'
<1>1. /\ Between /\ outcome # "ok" /\ todo # <<>>
      /\ em' = Proposed(em, Head(todo), owner.id) /\ todo' = Tail(todo)
      /\ stage = "propose"
      /\ UNCHANGED <<live, ctxDone, late, pc, primary, nextID, owner, result, stage, outcome>>
  BY DEF RunInv, Propose, Proposed, request, blocks, Succeeded
<1>2. Head(todo) \in CallsOf(Names) /\ Tail(todo) \in Seq(CallsOf(Names))
  BY <1>1 DEF Between
<1>3. Settled(em') /\ More(em', em, ProposedFrames(Head(todo), owner.id))
  BY <1>1, <1>2, ProposedSettles DEF Between
<1>4. Amid(em')
  <2>1. \A f \in ProposedFrames(Head(todo), owner.id) : f.type \notin RunTypes
    BY <1>1, <1>2, ProposedInTurnFrames, TurnFramesNotOfRun DEF Between
  <2> QED
    BY <1>1, <1>3, <2>1, AmidMore DEF Between
<1>5. Between'
  BY <1>1, <1>2, <1>3, <1>4 DEF Between
<1> QED
  BY <1>1, <1>5 DEF RunInv

LEMMA AllProposedInv ==
    ASSUME RunInv, AllProposed
    PROVE  RunInv'
<1>1. /\ Between /\ outcome # "ok" /\ stage' = "answer"
      /\ todo' = Named(Server(result.calls))
      /\ UNCHANGED <<em, live, ctxDone, late, pc, primary, nextID, owner, result, outcome>>
  BY DEF RunInv, AllProposed, vars, Succeeded
<1>2. todo' \in Seq(CallsOf(Names))
  BY <1>1, CallsSelected DEF Between
<1>3. Between'
  BY <1>1, <1>2 DEF Between
<1> QED
  BY <1>1, <1>3 DEF RunInv

LEMMA AnswerInv ==
    ASSUME RunInv, Answer
    PROVE  RunInv'
<1>1. /\ Between /\ outcome # "ok" /\ todo # <<>>
      /\ em' = ToolResult(em, nextID, Head(todo).id, NoDelta) /\ todo' = Tail(todo)
      /\ nextID' = nextID + 1 /\ stage = "answer"
      /\ UNCHANGED <<live, ctxDone, late, pc, primary, owner, result, stage, outcome>>
  <2>1. Between /\ outcome # "ok" /\ stage = "answer"
    BY DEF RunInv, Answer, Succeeded
  <2> QED
    BY <2>1 DEF Answer, request
<1>2. Head(todo).id \in ToolIDs /\ Tail(todo) \in Seq(CallsOf(Names)) /\ nextID \in Nat
  <2>1. Head(todo) \in CallsOf(Names) /\ Tail(todo) \in Seq(CallsOf(Names)) /\ nextID \in Nat
    BY <1>1 DEF Between
  <2> QED
    BY <2>1 DEF CallsOf
<1>3. Settled(em') /\ More(em', em, ResultFrames(nextID, Head(todo).id))
  BY <1>1, <1>2, ResultSettles DEF Between
<1>4. \A f \in ResultFrames(nextID, Head(todo).id) : f.type \notin RunTypes
  BY DEF ResultFrames, ResultFrame, BlockFrames, BlockTypes, RunTypes
<1>5. Amid(em')
  BY <1>1, <1>3, <1>4, AmidMore DEF Between
<1>6. Between'
  BY <1>1, <1>2, <1>3, <1>5 DEF Between
<1> QED
  BY <1>1, <1>6 DEF RunInv

(* A new turnState on the settled emitter is as good as a new emitter.      *)
LEMMA NextTurnInv ==
    ASSUME RunInv, NextTurn
    PROVE  RunInv'
<1>1. /\ Between /\ outcome # "ok" /\ stage' = "turn"
      /\ pc' = "open" /\ cursor' = 1 /\ after' = "conclude" /\ primary' = "none"
      /\ chunks' = <<>> /\ text' = Closed /\ reasoning' = Closed
      /\ calls' = NoCalls /\ owner' = NoOwner /\ wireMessages' = <<>>
      /\ usage' = NoUsage /\ result' = NotReturned
      /\ UNCHANGED <<em, live, ctxDone, late, nextID, outcome, todo>>
  BY DEF RunInv, NextTurn, Answered, Succeeded
<1>2. ControlInv'
  BY <1>1, BoundsAssumption DEF Between, ControlInv, Places, InChunk
<1>3. EmitterOK' /\ WireOK(em)
  BY <1>1 DEF Between, Settled, WireOK, EmitterOK, Connected
<1>4. BlocksInv'
  BY <1>1 DEF Between, BlocksInv, Closed, Block, NoMessage
<1>5. TranscriptInv'
  BY <1>1 DEF TranscriptInv, NoOwner, NoMessage
<1>6. CallsInv'
  BY <1>1 DEF CallsInv, TablesOK, IDsClaimed, CallTables, NoCalls
<1>7. ReturnInv' /\ LateInv'
  BY <1>1 DEF Between, ReturnInv, LateInv
<1>8. TurnInv'
  BY <1>2, <1>3, <1>4, <1>5, <1>6, <1>7 DEF TurnInv
<1>9. TurnWireInv'
  <2>1. Good(em) => Forgot(em) /\ em.startedToolCalls \ em.endedToolCalls = {}
    BY <1>1 DEF Between, Settled, NoCallOpen
  <2>2. calls'.order = <<>>
    BY <1>1 DEF NoCalls
  <2> QED
    BY <1>1, <1>3, <2>1, <2>2
       DEF TurnWireInv, TextHeld, ReasoningHeld, Shown, Forgot, CallsHeld, CallsDone
<1>10. TypesReturned'
  BY <1>1 DEF Between, TypesReturned, Errors, NotReturned, Results
<1> QED
  BY <1>1, <1>8, <1>9, <1>10 DEF RunInv, TurnOK, Between

LEMMA FinishedInv ==
    ASSUME RunInv, Finished
    PROVE  RunInv'
<1>1. /\ Between /\ stage' = "ended"
      /\ em' = Emit(em, OtherFrame("RUN_FINISHED"))
      /\ outcome' = "ok" => ~em'.err
  BY DEF RunInv, Finished, Answered, RunFinishedSuccess, FlushFails
<1>2. Over(em') /\ (Good(em') => em'.wire # <<>> /\ em'.wire[Len(em'.wire)].type = "RUN_FINISHED")
  BY <1>1, RunFrames, RunCloses DEF Between, Closers
<1> QED
  BY <1>1, <1>2 DEF RunInv, Succeeded, wire

LEMMA RunStutter ==
    ASSUME RunInv, UNCHANGED allVars
    PROVE  RunInv'
<1>1. UNCHANGED vars /\ UNCHANGED <<stage, outcome, turns, todo>>
  BY DEF allVars, runVars
<1>2. TurnOK => TurnOK'
  BY <1>1, NextInv, WireNext, TypesNext DEF TurnOK
<1>3. UNCHANGED <<em, live, ctxDone, late, pc, primary, nextID, owner, result>>
  BY <1>1 DEF vars
<1> QED
  BY <1>1, <1>2, <1>3 DEF RunInv, Between, Succeeded, wire

LEMMA RunNextInv == RunInv /\ [RunNext]_allVars => RunInv'
<1> SUFFICES ASSUME RunInv, [RunNext]_allVars
             PROVE  RunInv'
  OBVIOUS
<1>1. CASE Begin
  BY <1>1, BeginInv
<1>2. CASE InTurn \/ Interrupt
  BY <1>2, InTurnInv
<1>3. CASE TurnFailed
  BY <1>3, TurnFailedInv
<1>4. CASE TurnSucceeded
  BY <1>4, TurnSucceededInv
<1>5. CASE Propose
  BY <1>5, ProposeInv
<1>6. CASE AllProposed
  BY <1>6, AllProposedInv
<1>7. CASE Answer
  BY <1>7, AnswerInv
<1>8. CASE NextTurn
  BY <1>8, NextTurnInv
<1>9. CASE Finished
  BY <1>9, FinishedInv
<1>10. CASE Ended \/ UNCHANGED allVars
  BY <1>10, RunStutter DEF Ended
<1> QED
  BY <1>1, <1>2, <1>3, <1>4, <1>5, <1>6, <1>7, <1>8, <1>9, <1>10 DEF RunNext

(* Through any number of turns, tool results and failed or cancelled        *)
(* requests, main.go and agentloop.go hand the emitter from one turn to the *)
(* next settled: inside a turn the turn's own invariant holds, between      *)
(* turns no block and no call is open, and after main's last frame nothing  *)
(* follows.                                                                 *)
THEOREM RunInvariant == RunSpec => []RunInv
  BY RunInitInv, RunNextInv, PTL DEF RunSpec

(* A client that missed no frame sees RUN_STARTED first, the last frame is  *)
(* the one RUN_FINISHED or RUN_ERROR, and by then every block and call of   *)
(* every turn has ended (run of examples/stream): no turn, proposal or      *)
(* answer writes a frame of the run, and each leaves the emitter settled.   *)
THEOREM RunsAreBracketed == RunSpec => []RunBracketed
<1>1. RunInv => RunBracketed
  <2> SUFFICES ASSUME RunInv, ~em.encErr PROVE RunBracketed
    BY DEF RunBracketed
  <2>1. CASE stage = "start"
    BY <2>1 DEF RunInv, RunBracketed, wire
  <2>2. CASE stage \in {"turn", "propose", "answer"}
    <3>1. Amid(em)
      BY <2>2 DEF RunInv, Between
    <3> QED
      BY <2>2, <3>1 DEF RunBracketed, Amid, Closers, wire
  <2>3. CASE stage = "ended"
    BY <2>3 DEF RunInv, Over, RunBracketed, Closers, wire
  <2> QED
    BY <2>1, <2>2, <2>3 DEF RunInv
<1> QED
  BY <1>1, RunInvariant, PTL

(* run reports a success only if RUN_FINISHED reached the client: a failed  *)
(* turn ends it with an error, and the last flush looks at the emitter.     *)
THEOREM SuccessWasSeen == RunSpec => []SuccessIsSeen
<1>1. RunInv => SuccessIsSeen
  BY DEF RunInv, Succeeded, SuccessIsSeen, Good, wire
<1> QED
  BY <1>1, RunInvariant, PTL

-----------------------------------------------------------------------------
(***************************************************************************)
(* The names of a turn's calls.  The provider keeps the name of a call,    *)
(* so what a buffer is called was given by a fragment that belongs to it,  *)
(* and the START on the wire has the name the turn returns.                *)
(***************************************************************************)
Given(b) ==
    \E r \in Received :
        /\ FragmentAt(r).name = b.name
        /\ FragmentAt(r).index \in {b.index, NoIndex} /\ FragmentAt(r).id \in {b.id, NoID}

(* A call whose id an earlier turn used was one the server answered.        *)
OfServer(earlier)   == {f \in Frames : f.call \in earlier /\ f.name \notin ClientNames}
StartsOf(order)     == {f \in Frames : \E p \in 1..Len(order) :
                           order[p].started /\ order[p].id = f.call /\ order[p].name = f.name}

NamesInv(earlier) ==
    /\ IndexedBack(calls)
    /\ \A p \in 1..Len(calls.order) :
          LET b == calls.order[p] IN
          /\ b.name # NoName => Given(b)
          /\ b.started => b.name \in Names
          /\ live /\ b.name # NoName /\ b.id # NoID => b.started
    /\ StartsUnder(em, OfServer(earlier) \cup StartsOf(calls.order))
    /\ pc = "done" /\ primary = "none" => result.calls = MergedToolCalls(calls.order)

(***************************************************************************)
(* A call the client saw whole: its START, under the owner, its arguments  *)
(* and its END.                                                            *)
(***************************************************************************)
OnWire(e, parent, c) ==
    /\ \E s, t \in DOMAIN e.wire :
         /\ s < t /\ Starts(e.wire[s], c.id) /\ Ends(e.wire[t], c.id)
         /\ e.wire[s].msg = parent /\ e.wire[s].name = c.name
    /\ Said(e, ArgumentFrames(c.id)) = c.arguments

Proper(c) == c.id # NoID /\ c.name # NoName

TurnShown(e, t) ==
    \A i \in DOMAIN turns[t].calls :
        LET c == turns[t].calls[i] IN
        Proper(c) /\ c.id \notin EarlierIDs(t) => OnWire(e, turns[t].owner, c)

EarlierThan(t) == EarlierIDs(t) \ {NoID}

TurnCalls(earlier) == StartedInv(earlier) /\ ArgsInv(earlier) /\ NamesInv(earlier)

StartsReturned ==
    {f \in Frames : \E i \in DOMAIN result.calls :
        result.calls[i].id = f.call /\ result.calls[i].name = f.name}

(* Between the turns every proper call of the last one is on the wire, or   *)
(* still to be proposed.                                                    *)
CallsBetween(earlier) ==
    LET merged == result.calls
    IN  /\ Len(turns) > 0 /\ turns[Len(turns)] = [owner |-> owner.id, calls |-> merged]
        /\ \A i, j \in DOMAIN merged : merged[i].id = merged[j].id /\ merged[i].id # NoID => i = j
        /\ \A k \in DOMAIN todo : /\ \E i \in DOMAIN merged : merged[i] = todo[k]
                                  /\ stage = "answer" => todo[k].name \notin ClientNames
        /\ StartsUnder(em, OfServer(earlier) \cup StartsReturned)
        /\ Good(em) =>
             \A i \in DOMAIN merged : Proper(merged[i]) =>
                IF merged[i].id \in em.startedToolCalls
                THEN merged[i].id \in earlier \/ OnWire(em, owner.id, merged[i])
                ELSE stage = "propose" /\ \E k \in DOMAIN todo : todo[k] = merged[i]

Returns == [owner : Nat, calls : Seq(MergedCall)]
InBetween == stage \in {"propose", "answer"}

AllShown ==
    Good(em) => \A t \in DOMAIN turns : t < Len(turns) \/ ~InBetween => TurnShown(em, t)

ShownInv ==
    /\ turns \in Seq(Returns)
    /\ stage \in {"start", "turn"} =>
           \E earlier \in {EarlierThan(Len(turns) + 1)} : TurnCalls(earlier)
    /\ InBetween => \E earlier \in {EarlierThan(Len(turns))} : CallsBetween(earlier)
    /\ AllShown

(***************************************************************************)
(* Results.                                                                *)
(***************************************************************************)
Follows(w, k) ==
    \E s, t \in 1..(k - 1) : /\ Starts(w[s], w[k].call) /\ Ends(w[t], w[k].call)
                             /\ w[s].name \notin ClientNames

Following(e) ==
    Good(e) => \A k \in DOMAIN e.wire : e.wire[k].type = "TOOL_CALL_RESULT" => Follows(e.wire, k)

(* The ids a turn may still put on the wire. *)
InUse == {NoMessage, owner.id} \cup OpenIds

SpentInv ==
    Good(em) =>
        /\ InUse \subseteq 0..(nextID - 1)
        /\ \A f \in Sent(em) : f.msg \in 0..(nextID - 1)
        /\ \A k \in DOMAIN em.wire : em.wire[k].type = "TOOL_CALL_RESULT" =>
              /\ em.wire[k].msg \notin InUse
              /\ \A j \in DOMAIN em.wire : em.wire[j].msg = em.wire[k].msg => j = k

-----------------------------------------------------------------------------
(* What AcceptFragment makes of the names, ids and indices of the buffers.  *)
LEMMA NamedBuffer ==
    ASSUME TurnInv, IndexedBack(calls), AcceptFragment
    PROVE  LET pos    == Known(calls', call)
               before == WithBuffer(calls, call).order[pos]
               b      == calls'.order[pos]
           IN  /\ IndexedBack(calls') /\ b.index = before.index
               /\ b.id = IF before.ended \/ call.id = NoID THEN before.id ELSE call.id
               /\ b.name = IF before.ended \/ call.name = NoName THEN before.name ELSE call.name
               /\ b.started <=> \/ before.started
                                \/ live /\ ~before.ended /\ b.id # NoID /\ b.name # NoName
               /\ ~before.ended /\ call.index # NoIndex => call.index = before.index
               /\ \/ em' = ToolStart(em, b.id, b.name, owner.id) /\ b.started
                  \/ \E delta \in Delta : em' \in {em, ToolArgs(em, b.id, delta)}
<1> DEFINE found  == WithBuffer(calls, call)
           pos    == Known(found, call)
           delta  == IF call.args THEN piece(cursor) ELSE NoDelta
           before == found.order[pos]
           merged == Merge(before, call, delta)
           talks  == live /\ ~before.ended
           starts == talks /\ Ready(merged)
           sends  == talks /\ merged.started
           buffer == IF talks /\ ~merged.started THEN Postpone(merged, delta) ELSE merged
           stored == [buffer EXCEPT !.started = @ \/ starts]
<1>1. /\ TablesOK(calls) /\ IDsClaimed(calls) /\ live \in BOOLEAN
      /\ call \in Fragments /\ Correlatable(call) /\ piece(cursor) \in Tokens
      /\ ~Ambiguous(found, call)
  BY CallFacts DEF AcceptFragment, TurnInv, CallsInv, ControlInv
<1>2. /\ TablesOK(found) /\ found \in CallTables /\ found.order \in Seq(Buffers)
      /\ pos \in 1..Len(found.order) /\ Len(found.order) \in Nat /\ IndexedBack(found)
  BY <1>1, FoundBuffer, FoundPlaces DEF TablesOK, CallTables
<1>3. delta \in Tokens \cup {NoDelta} /\ delta \in Delta /\ call.id \in ToolID /\ call.name \in Name
  BY <1>1 DEF Fragments, Delta
<1>4. before \in Buffers /\ found.order[pos] = before
  BY <1>2
<1>5. call.index # NoIndex => call.index = before.index
  BY <1>1, <1>2, KnownType DEF Known, IndexedBack
<1>6. em' = IF sends THEN ToolArgs(em, merged.id, delta)
            ELSE IF starts THEN ToolStart(em, merged.id, merged.name, owner.id) ELSE em
  BY DEF AcceptFragment
<1>7. calls' = [Claim(found, call) EXCEPT !.order[pos] = stored]
  BY DEF AcceptFragment
<1> HIDE DEF before, delta
<1>8. /\ merged \in Buffers /\ merged.index = before.index
      /\ merged.started = before.started /\ merged.ended = before.ended
      /\ merged.id = IF before.ended \/ call.id = NoID THEN before.id ELSE call.id
      /\ merged.name = IF before.ended \/ call.name = NoName THEN before.name ELSE call.name
  <2>1. Join(before.arguments, delta) \in Seq(Tokens)
    BY <1>3, <1>4 DEF Join, Buffers
  <2> QED
    BY <1>3, <1>4, <2>1 DEF Merge, Buffers
<1> HIDE DEF merged
<1>9. /\ buffer \in Buffers /\ buffer.id = merged.id /\ buffer.index = merged.index
      /\ buffer.name = merged.name /\ buffer.started = merged.started
  <2>1. Join(merged.pendingArgs, delta) \in Seq(Tokens)
    BY <1>3, <1>8 DEF Join, Buffers
  <2> QED
    BY <1>8, <2>1 DEF Postpone, Buffers
<1>10. /\ starts \in BOOLEAN /\ merged.started \in BOOLEAN /\ before.ended \in BOOLEAN
       /\ (starts <=> talks /\ ~merged.started /\ merged.id # NoID /\ merged.name # NoName)
  BY <1>1, <1>4, <1>8 DEF Ready, Buffers
<1> HIDE DEF buffer, starts
<1>11. /\ stored \in Buffers /\ stored.id = merged.id /\ stored.index = merged.index
       /\ stored.name = merged.name /\ stored.started = (merged.started \/ starts)
  BY <1>9, <1>10 DEF Buffers
<1> HIDE DEF stored
<1>12. /\ Known(calls', call) = pos /\ calls'.order[pos] = stored
       /\ calls'.indexed = found.indexed /\ Len(calls'.order) = Len(found.order)
       /\ \A p \in 1..Len(found.order) : p # pos => calls'.order[p] = found.order[p]
  <2>1. pos \in Nat /\ Known(found, call) = pos /\ (call.id = NoID \/ call.id \in ToolIDs)
    BY <1>2, <1>3 DEF ToolID
  <2>2. /\ Claim(found, call) \in CallTables /\ Claim(found, call).order = found.order
        /\ Claim(found, call).indexed = found.indexed
    <3>1. CASE call.id = NoID
      BY <1>2, <3>1 DEF Claim
    <3>2. CASE call.id # NoID
      <4>1. Claim(found, call) = [found EXCEPT !.byID = [found.byID EXCEPT ![call.id] = pos]]
        BY <1>2, <2>1, <3>2 DEF Claim, CallTables
      <4>2. [found.byID EXCEPT ![call.id] = pos] \in [ToolIDs -> Nat]
        BY <1>2, <2>1 DEF CallTables
      <4> QED
        BY <1>2, <4>1, <4>2 DEF CallTables
    <3> QED
      BY <3>1, <3>2
  <2>3. calls'.order = [found.order EXCEPT ![pos] = stored] /\ calls'.indexed = found.indexed
    BY <1>7, <2>2 DEF CallTables
  <2>4. Known(calls', call) = pos
    <3>1. calls'.byID = Claim(found, call).byID
      BY <1>7, <2>2 DEF CallTables
    <3>2. call.index = NoIndex => Claim(found, call).byID[call.id] = pos
      BY <1>1, <1>2, <1>3 DEF Claim, Correlatable, CallTables, ToolID
    <3> QED
      BY <2>3, <3>1, <3>2 DEF Known
  <2> QED
    BY <1>2, <2>3, <2>4
<1> HIDE DEF found, pos
<1>13. IndexedBack(calls')
  <2>1. calls'.order[pos].index = found.order[pos].index
    BY <1>4, <1>8, <1>11, <1>12
  <2>2. \A p \in 1..Len(found.order) : calls'.order[p].index = found.order[p].index
    BY <1>12, <2>1
  <2>3. \A i \in Indices : calls'.indexed[i] # 0 => calls'.indexed[i] \in 1..Len(found.order)
    BY <1>2, <1>12 DEF TablesOK
  <2> QED
    BY <1>2, <1>12, <2>2, <2>3 DEF IndexedBack
<1>14. \/ em' = ToolStart(em, stored.id, stored.name, owner.id) /\ stored.started
       \/ em' \in {em, ToolArgs(em, stored.id, delta)}
  BY <1>6, <1>10, <1>11
<1>15. /\ stored.index = before.index
       /\ stored.id = IF before.ended \/ call.id = NoID THEN before.id ELSE call.id
       /\ stored.name = IF before.ended \/ call.name = NoName THEN before.name ELSE call.name
       /\ stored.started <=> \/ before.started
                             \/ live /\ ~before.ended /\ stored.id # NoID /\ stored.name # NoName
  BY <1>8, <1>10, <1>11
<1> QED
  BY <1>3, <1>5, <1>12, <1>13, <1>14, <1>15 DEF before, found, pos

LEMMA StartsMore ==
    ASSUME NEW d, NEW e, NEW added, NEW starts, NEW more, More(d, e, added),
           StartsUnder(e, starts), starts \subseteq more,
           \A f \in added : f.type = "TOOL_CALL_START" => f \in more
    PROVE  StartsUnder(d, more)
<1>1. /\ DOMAIN d.wire = 1..Len(d.wire) /\ DOMAIN e.wire = 1..Len(e.wire)
      /\ Len(d.wire) \in Nat /\ Len(e.wire) \in Nat
  BY WireTyped DEF More
<1>2. ASSUME NEW k \in DOMAIN d.wire, d.wire[k].type = "TOOL_CALL_START"
      PROVE  d.wire[k] \in more
  <2>1. CASE k <= Len(e.wire)
    BY <1>1, <1>2, <2>1 DEF More, StartsUnder
  <2>2. CASE k > Len(e.wire)
    BY <1>1, <1>2, <2>2 DEF More
  <2> QED
    BY <1>1, <2>1, <2>2
<1> QED
  BY <1>2 DEF StartsUnder

LEMMA NamesInit == Init => \A earlier : NamesInv(earlier)
<1> SUFFICES ASSUME Init, NEW earlier PROVE NamesInv(earlier)
  OBVIOUS
<1>1. em.wire = <<>> /\ calls = NoCalls /\ pc = "open"
  BY DEF Init, NewEmitter
<1>2. calls.order = <<>> /\ Len(calls.order) = 0 /\ \A i \in Indices : calls.indexed[i] = 0
  BY <1>1 DEF NoCalls
<1> QED
  BY <1>1, <1>2 DEF NamesInv, IndexedBack, StartsUnder

(* A step that renames no buffer and starts no call.                        *)
LEMMA NamesKept ==
    ASSUME NEW earlier, NamesInv(earlier), TablesOK(calls), UNCHANGED live, calls'.indexed = calls.indexed,
           Len(calls'.order) = Len(calls.order),
           \A p \in 1..Len(calls.order) : /\ calls'.order[p].id = calls.order[p].id
                                          /\ calls'.order[p].name = calls.order[p].name
                                          /\ calls'.order[p].index = calls.order[p].index
                                          /\ calls'.order[p].started = calls.order[p].started,
           \A r \in Received : r \in Received' /\ FragmentAt(r)' = FragmentAt(r),
           StartsUnder(em', OfServer(earlier) \cup StartsOf(calls.order)),
           (pc = "done" /\ primary = "none" => result.calls = MergedToolCalls(calls.order))'
    PROVE  NamesInv(earlier)'
<1>1. IndexedBack(calls)'
  <2>1. IndexedBack(calls)
    BY DEF NamesInv
  <2>2. ASSUME NEW i \in Indices, calls.indexed[i] # 0
        PROVE  calls'.order[calls.indexed[i]].index = i
    <3>1. calls.indexed[i] \in 1..Len(calls.order)
      BY <2>2 DEF TablesOK
    <3> QED
      BY <2>1, <2>2, <3>1 DEF IndexedBack
  <2> QED
    BY <2>1, <2>2 DEF IndexedBack
<1>2. \A p \in 1..Len(calls.order) : Given(calls.order[p]) => Given(calls.order[p])'
  BY DEF Given
<1>3. StartsOf(calls'.order) = StartsOf(calls.order)
  BY DEF StartsOf
<1>4. StartsUnder(em', OfServer(earlier) \cup StartsOf(calls'.order))
  BY <1>3
<1>5. \A p \in 1..Len(calls'.order) :
          /\ calls'.order[p].name # NoName => Given(calls.order[p])'
          /\ calls'.order[p].started => calls'.order[p].name \in Names
          /\ live' /\ calls'.order[p].name # NoName /\ calls'.order[p].id # NoID => calls'.order[p].started
  BY <1>2 DEF NamesInv
<1> QED
  BY <1>1, <1>4, <1>5 DEF NamesInv, OfServer

LEMMA ReceivedMore ==
    ASSUME TurnInv, [Next]_vars
    PROVE  \A r \in Received : r \in Received' /\ FragmentAt(r)' = FragmentAt(r)
<1>1. CASE UNCHANGED chunks
  BY <1>1 DEF Received, FragmentAt
<1>2. CASE RecvChunk
  <2>1. PICK c \in Chunks : chunks' = Append(chunks, c)
    BY <1>2 DEF RecvChunk
  <2>2. /\ chunks \in Seq(Chunks) /\ DOMAIN chunks = 1..Len(chunks) /\ Len(chunks) \in Nat
        /\ DOMAIN chunks' = 1..(Len(chunks) + 1)
        /\ \A k \in 1..Len(chunks) : chunks'[k] = chunks[k]
    BY <2>1 DEF TurnInv, ControlInv
  <2>3. ASSUME NEW r \in Received PROVE r \in Received' /\ FragmentAt(r)' = FragmentAt(r)
    <3>1. PICK k \in DOMAIN chunks : r \in {k} \X DOMAIN chunks[k].calls
      BY <2>3 DEF Received
    <3>2. r[1] = k /\ chunks'[k] = chunks[k] /\ k \in DOMAIN chunks'
      BY <2>2, <3>1
    <3> QED
      BY <3>1, <3>2 DEF Received, FragmentAt
  <2> QED
    BY <2>3
<1>3. UNCHANGED chunks \/ RecvChunk
  BY DEF Next, TurnStep, Recv, Apply, Finish, Cancel, OpenFails, OpenStream, CheckRequest, RecvEOF,
         RecvError, RecvKeepAlive, EndCall, CallsEnded, ApplyReasoning, ApplyText,
         SkipFragment, EnsureToolOwner, RefuseFragment, AcceptFragment, FlushArg,
         FragmentDone, ChunkDone, CloseBlocks, ConcludeEmpty, Conclude, Returned, vars
<1> QED
  BY <1>1, <1>2, <1>3

LEMMA SameNames ==
    ASSUME NEW earlier, TurnInv, NamesInv(earlier), [Next]_vars, UNCHANGED <<calls, live>>,
           StartsUnder(em', OfServer(earlier) \cup StartsOf(calls.order)),
           (pc = "done" /\ primary = "none" => result.calls = MergedToolCalls(calls.order))'
    PROVE  NamesInv(earlier)'
<1>1. TablesOK(calls)
  BY DEF TurnInv, CallsInv
<1>2. \A r \in Received : r \in Received' /\ FragmentAt(r)' = FragmentAt(r)
  BY ReceivedMore
<1> QED
  BY <1>1, <1>2, NamesKept

LEMMA QuietNames ==
    ASSUME NEW earlier, TurnInv, NamesInv(earlier),
           Quiet \/ OpenFails \/ ConcludeEmpty \/ Conclude \/ UNCHANGED vars
    PROVE  NamesInv(earlier)'
<1>1. [Next]_vars /\ UNCHANGED <<em, calls, live>>
  BY DEF Quiet, Next, TurnStep, Apply, Recv, Finish, Cancel, OpenFails, OpenStream, CheckRequest,
         RecvEOF, RecvError, RecvChunk, RecvKeepAlive, CallsEnded, SkipFragment, FragmentDone,
         ChunkDone, ConcludeEmpty, Conclude, request, blocks, vars
<1>2. StartsUnder(em', OfServer(earlier) \cup StartsOf(calls.order))
  BY <1>1 DEF NamesInv
<1>3. (pc = "done" /\ primary = "none" => result.calls = MergedToolCalls(calls.order))'
  <2>1. CASE UNCHANGED vars
    BY <2>1 DEF vars, NamesInv
  <2>2. CASE Quiet
    <3>1. pc' # "done"
      <4>1. pc \in Places /\ after \in {"reasoning", "text", "conclude"}
        BY DEF TurnInv, ControlInv
      <4> QED
        BY <2>2, <4>1 DEF Quiet, Cancel, OpenStream, CheckRequest, Recv, RecvEOF, RecvError, RecvChunk,
             RecvKeepAlive, CallsEnded, SkipFragment, FragmentDone, ChunkDone, Fail, InTools
    <3> QED
      BY <3>1
  <2>3. CASE OpenFails \/ ConcludeEmpty
    BY <2>3 DEF OpenFails, ConcludeEmpty
  <2>4. CASE Conclude
    <3>1. PICK concat \in BOOLEAN :
            /\ primary' = IF ~concat /\ primary = "none" THEN "concat" ELSE primary
            /\ result' = [returned |-> TRUE, assistant |-> concat, calls |-> ResponseCalls(concat),
                          partial |-> primary' # "none"]
      BY <2>4 DEF Conclude
    <3> QED
      BY <1>1, <3>1 DEF ResponseCalls
  <2> QED
    BY <2>1, <2>2, <2>3, <2>4
<1> QED
  BY <1>1, <1>2, <1>3, SameNames

LEMMA BlocksNames ==
    ASSUME NEW earlier, TurnInv, NamesInv(earlier),
           ApplyReasoning \/ ApplyText \/ EnsureToolOwner \/ CloseBlocks
    PROVE  NamesInv(earlier)'
<1>1. [Next]_vars /\ UNCHANGED <<calls, live>> /\ pc' # "done"
  <2>1. [Next]_vars
    BY DEF Next, TurnStep, Apply, Finish
  <2>2. UNCHANGED <<calls, live>>
    BY DEF ApplyReasoning, ApplyText, EnsureToolOwner, CloseBlocks, request
  <2>3. pc' # "done"
    BY DEF ApplyReasoning, ApplyText, EnsureToolOwner, CloseBlocks, Fail, InTools
  <2> QED
    BY <2>1, <2>2, <2>3
<1>2. More(em', em, BlockFrames)
  BY ReasoningMore, TextMore, ClosingMore
<1>3. StartsUnder(em', OfServer(earlier) \cup StartsOf(calls.order))
  <2>1. \A f \in BlockFrames : f.type # "TOOL_CALL_START"
    BY DEF BlockFrames, BlockTypes
  <2>2. StartsUnder(em, OfServer(earlier) \cup StartsOf(calls.order))
    BY DEF NamesInv
  <2> QED
    BY <1>2, <2>1, <2>2, StartsMore
<1> QED
  BY <1>1, <1>3, SameNames

LEMMA EndCallNames ==
    ASSUME NEW earlier, TurnInv, NamesInv(earlier), EndCall
    PROVE  NamesInv(earlier)'
<1> DEFINE b == calls.order[cursor]
<1>1. /\ TablesOK(calls) /\ calls \in CallTables /\ calls.order \in Seq(Buffers) /\ EmitterInv(em)
      /\ cursor \in 1..Len(calls.order) /\ pc' = "end" /\ UNCHANGED live /\ [Next]_vars
  <2>1. TablesOK(calls) /\ calls \in CallTables /\ calls.order \in Seq(Buffers) /\ EmitterInv(em)
    BY DEF TurnInv, CallsInv, TablesOK, CallTables, EmitterOK
  <2>2. cursor \in 1..Len(calls.order) /\ pc' = "end" /\ UNCHANGED live
    BY <2>1 DEF EndCall, AllEnded, TurnInv, ControlInv, request
  <2> QED
    BY <2>1, <2>2 DEF Next, TurnStep, Apply
<1>2. b \in Buffers /\ b.id \in ToolID
  <2>1. b \in Buffers
    BY <1>1
  <2> QED
    BY <2>1 DEF Buffers
<1>3. StartsUnder(em', OfServer(earlier) \cup StartsOf(calls.order))
  BY <1>1, <1>2, ToolsUnder, NoDeltaType DEF EndCall, NamesInv, Name
<1>4. /\ calls'.indexed = calls.indexed /\ DOMAIN calls'.order = DOMAIN calls.order
      /\ Len(calls'.order) = Len(calls.order)
      /\ \A p \in 1..Len(calls.order) :
            calls'.order[p] = IF p = cursor THEN [b EXCEPT !.ended = TRUE] ELSE calls.order[p]
  BY <1>1 DEF EndCall, CallTables
<1>5. LET c == [b EXCEPT !.ended = TRUE] IN
      c.id = b.id /\ c.name = b.name /\ c.index = b.index /\ c.started = b.started
  BY <1>2 DEF Buffers
<1>6. \A p \in 1..Len(calls.order) : /\ calls'.order[p].id = calls.order[p].id
                                     /\ calls'.order[p].name = calls.order[p].name
                                     /\ calls'.order[p].index = calls.order[p].index
                                     /\ calls'.order[p].started = calls.order[p].started
  BY <1>4, <1>5
<1>7. \A r \in Received : r \in Received' /\ FragmentAt(r)' = FragmentAt(r)
  BY <1>1, ReceivedMore
<1>8. (pc = "done" /\ primary = "none" => result.calls = MergedToolCalls(calls.order))'
  BY <1>1
<1> QED
  BY <1>1, <1>3, <1>4, <1>6, <1>7, <1>8, NamesKept

LEMMA FlushNames ==
    ASSUME NEW earlier, TurnInv, NamesInv(earlier), FlushArg
    PROVE  NamesInv(earlier)'
<1> DEFINE pos == Known(calls, call)
           b   == calls.order[pos]
           c   == [b EXCEPT !.pendingArgs = Tail(@)]
<1>1. /\ TablesOK(calls) /\ calls \in CallTables /\ calls.order \in Seq(Buffers)
      /\ EmitterInv(em) /\ call \in Fragments /\ Correlatable(call) /\ pos # 0
  BY CallFacts DEF FlushArg, TurnInv, CallsInv, TablesOK, CallTables, EmitterOK, ControlInv
<1>2. pos \in 1..Len(calls.order) /\ pc' = "flush" /\ UNCHANGED live /\ [Next]_vars
  BY <1>1, KnownType DEF FlushArg, request, Next, TurnStep, Apply
<1>3. b \in Buffers /\ b.pendingArgs # <<>> /\ b.started
  BY <1>1, <1>2 DEF FlushArg, Flushing
<1>4. b.id \in ToolID /\ Head(b.pendingArgs) \in Delta
  <2>1. b.pendingArgs \in Seq(Tokens)
    BY <1>3 DEF Buffers
  <2> QED
    BY <1>3, <2>1 DEF Buffers, Delta
<1>5. StartsUnder(em', OfServer(earlier) \cup StartsOf(calls.order))
  BY <1>1, <1>4, ToolsUnder DEF FlushArg, NamesInv, Name
<1>6. /\ calls'.indexed = calls.indexed /\ DOMAIN calls'.order = DOMAIN calls.order
      /\ Len(calls'.order) = Len(calls.order)
      /\ \A p \in 1..Len(calls.order) : calls'.order[p] = IF p = pos THEN c ELSE calls.order[p]
  BY <1>1, <1>2 DEF FlushArg, CallTables
<1>7. c.id = b.id /\ c.name = b.name /\ c.index = b.index /\ c.started = b.started
  BY <1>3 DEF Buffers
<1> HIDE DEF c
<1>8. \A p \in 1..Len(calls.order) : /\ calls'.order[p].id = calls.order[p].id
                                     /\ calls'.order[p].name = calls.order[p].name
                                     /\ calls'.order[p].index = calls.order[p].index
                                     /\ calls'.order[p].started = calls.order[p].started
  BY <1>6, <1>7
<1>9. \A r \in Received : r \in Received' /\ FragmentAt(r)' = FragmentAt(r)
  BY <1>2, ReceivedMore
<1>10. (pc = "done" /\ primary = "none" => result.calls = MergedToolCalls(calls.order))'
  BY <1>2
<1> HIDE DEF pos
<1> QED
  BY <1>1, <1>2, <1>5, <1>6, <1>8, <1>9, <1>10, NamesKept

(* A refused fragment leaves a buffer without a name.                       *)
LEMMA RefuseNames ==
    ASSUME NEW earlier, TurnInv, NamesInv(earlier), RefuseFragment
    PROVE  NamesInv(earlier)'
<1>1. /\ TablesOK(calls) /\ IDsClaimed(calls) /\ IndexedBack(calls) /\ call \in Fragments
      /\ Correlatable(call) /\ calls' = WithBuffer(calls, call) /\ pc' = "close"
      /\ UNCHANGED <<em, live, chunks>>
  BY CallFacts DEF RefuseFragment, TurnInv, CallsInv, NamesInv, Fail, request
<1>2. /\ IndexedBack(calls') /\ Len(calls.order) <= Len(calls'.order)
      /\ \A p \in 1..Len(calls.order) : calls'.order[p] = calls.order[p]
      /\ \A p \in 1..Len(calls'.order) :
            p > Len(calls.order) => calls'.order[p] = NewBuffer(call.index)
  BY <1>1, FoundPlaces
<1>3. Len(calls.order) \in Nat /\ Len(calls'.order) \in Nat
  BY <1>1, FoundBuffer DEF TablesOK, CallTables
<1>4. \A p \in 1..Len(calls.order) : Given(calls.order[p]) => Given(calls.order[p])'
  BY <1>1, <1>2 DEF Given, Received, FragmentAt
<1>5. ASSUME NEW p \in 1..Len(calls'.order)
      PROVE  /\ calls'.order[p].name # NoName => Given(calls.order[p])'
             /\ calls'.order[p].started => calls'.order[p].name \in Names
             /\ live' /\ calls'.order[p].name # NoName /\ calls'.order[p].id # NoID
                  => calls'.order[p].started
  <2>1. CASE p <= Len(calls.order)
    BY <1>1, <1>2, <1>3, <1>4, <2>1 DEF NamesInv
  <2>2. CASE p > Len(calls.order)
    BY <1>2, <2>2 DEF NewBuffer
  <2> QED
    BY <1>3, <2>1, <2>2
<1>6. StartsOf(calls.order) \subseteq StartsOf(calls'.order)
  BY <1>2, <1>3 DEF StartsOf
<1>7. StartsUnder(em', OfServer(earlier) \cup StartsOf(calls'.order))
  BY <1>1, <1>6 DEF NamesInv, StartsUnder
<1> QED
  BY <1>1, <1>2, <1>5, <1>7 DEF NamesInv, OfServer

(* The fragment that a turn accepts, and what was given to its buffer so    *)
(* far, belong to one call: its name stays.                                 *)
LEMMA AcceptNames ==
    ASSUME NEW earlier, TurnInv, FlushOnly, NamesInv(earlier), KeepsNames, AcceptFragment
    PROVE  NamesInv(earlier)'
<1> DEFINE pos    == Known(calls', call)
           before == WithBuffer(calls, call).order[pos]
           b      == calls'.order[pos]
           delta  == IF call.args THEN piece(cursor) ELSE NoDelta
<1>1. /\ IndexedBack(calls) /\ EmitterInv(em) /\ pc' = "flush" /\ UNCHANGED <<live, chunks>>
      /\ owner.id \in Nat
  BY DEF NamesInv, TurnInv, EmitterOK, TranscriptInv, AcceptFragment, request
<1>2. /\ IndexedBack(calls') /\ b.index = before.index
      /\ b.id = IF before.ended \/ call.id = NoID THEN before.id ELSE call.id
      /\ b.name = IF before.ended \/ call.name = NoName THEN before.name ELSE call.name
      /\ b.started <=> \/ before.started
                       \/ live /\ ~before.ended /\ b.id # NoID /\ b.name # NoName
      /\ ~before.ended /\ call.index # NoIndex => call.index = before.index
      /\ \/ em' = ToolStart(em, b.id, b.name, owner.id) /\ b.started
         \/ \E d \in Delta : em' \in {em, ToolArgs(em, b.id, d)}
  BY <1>1, NamedBuffer
<1>3. /\ pos \in 1..Len(calls'.order) /\ Len(calls.order) <= Len(calls'.order)
      /\ \A p \in 1..Len(calls'.order) :
            p # pos => p \in 1..Len(calls.order) /\ calls'.order[p] = calls.order[p]
      /\ IF pos \in 1..Len(calls.order) THEN before = calls.order[pos]
         ELSE before = NewBuffer(call.index)
      /\ Merged(before, b, delta) /\ TablesOK(calls')
  BY MergedBuffer
<1>4. /\ b \in Buffers /\ before \in Buffers /\ (before.id # NoID => b.id = before.id)
  BY <1>3 DEF Merged
<1> HIDE DEF pos, before, b, delta
<1>5. /\ call \in Fragments /\ piece(cursor) \in Received /\ FragmentAt(piece(cursor)) = call
  <2>1. InTools /\ call \in Fragments /\ cursor \in 1..Len(chunk.calls)
    BY CallFacts DEF AcceptFragment
  <2>2. Len(chunks) \in 1..Len(chunks)
    BY DEF AcceptFragment, InTools, TurnInv, ControlInv, InChunk
  <2>3. piece(cursor) \in Received
    BY <2>1, <2>2, ReceivedPairs DEF chunk, piece
  <2>4. FragmentAt(piece(cursor)) = call
    BY DEF FragmentAt, piece, call, chunk
  <2> QED
    BY <2>1, <2>3, <2>4
<1>6. \A c : Given(c) => \E r \in Received' : /\ FragmentAt(r)' = FragmentAt(r)
                                              /\ FragmentAt(r).name = c.name
                                              /\ FragmentAt(r).index \in {c.index, NoIndex}
                                              /\ FragmentAt(r).id \in {c.id, NoID}
  BY <1>1 DEF Given, Received, FragmentAt
<1>7. before.name # NoName =>
        /\ pos \in 1..Len(calls.order) /\ before = calls.order[pos] /\ Given(before)
        /\ live /\ before.id # NoID => before.started
  BY <1>3 DEF NewBuffer, NamesInv
<1>8. before.started => /\ pos \in 1..Len(calls.order) /\ before = calls.order[pos]
                        /\ before.name \in Names /\ before.id \in ToolIDs
  BY <1>3 DEF NewBuffer, NamesInv, FlushOnly
<1>9. before.started => b.started /\ b.id = before.id /\ b.name = before.name
  <2> SUFFICES ASSUME before.started, ~before.ended, call.name # NoName PROVE call.name = before.name
    BY <1>2, <1>4, <1>8, NoIDAssumption
  <2>1. before.name # NoName /\ before.id # NoID /\ b.id = before.id
    BY <1>4, <1>8, NoIDAssumption, NoNameAssumption
  <2>2. PICK r \in Received : /\ FragmentAt(r).name = before.name
                              /\ FragmentAt(r).index \in {before.index, NoIndex}
                              /\ FragmentAt(r).id \in {before.id, NoID}
    BY <1>7, <2>1 DEF Given
  <2>3. call.index \in {before.index, NoIndex} /\ call.id \in {before.id, NoID}
    BY <1>2, <2>1
  <2>4. OneCall(FragmentAt(r), call)
    BY <2>2, <2>3 DEF OneCall
  <2> QED
    BY <1>5, <2>1, <2>2, <2>4 DEF KeepsNames
<1>10. b.name # NoName => \E r \in Received' : /\ FragmentAt(r)'.name = b.name
                                               /\ FragmentAt(r)'.index \in {b.index, NoIndex}
                                               /\ FragmentAt(r)'.id \in {b.id, NoID}
  <2>1. CASE before.ended \/ call.name = NoName
    <3> SUFFICES ASSUME before.name # NoName
                 PROVE  \E r \in Received' : /\ FragmentAt(r)'.name = b.name
                                             /\ FragmentAt(r)'.index \in {b.index, NoIndex}
                                             /\ FragmentAt(r)'.id \in {b.id, NoID}
      BY <1>2, <2>1
    <3>1. PICK r \in Received' : /\ FragmentAt(r)' = FragmentAt(r)
                                 /\ FragmentAt(r).name = before.name
                                 /\ FragmentAt(r).index \in {before.index, NoIndex}
                                 /\ FragmentAt(r).id \in {before.id, NoID}
      BY <1>6, <1>7
    <3>2. before.id = NoID \/ b.id = before.id
      BY <1>4
    <3>3. b.name = before.name /\ b.index = before.index
      BY <1>2, <2>1
    <3> QED
      BY <3>1, <3>2, <3>3
  <2>2. CASE ~(before.ended \/ call.name = NoName)
    <3>1. /\ b.name = call.name /\ call.index \in {b.index, NoIndex} /\ call.id \in {b.id, NoID}
      BY <1>2, <2>2
    <3>2. Received' = Received /\ \A r \in Received : FragmentAt(r)' = FragmentAt(r)
      BY <1>1 DEF Received, FragmentAt
    <3> QED
      BY <1>5, <3>1, <3>2
  <2> QED
    BY <2>1, <2>2
<1>11. b.started => b.name \in Names
  BY <1>2, <1>4, <1>8, <1>9 DEF Buffers, Name
<1>12. live /\ b.name # NoName /\ b.id # NoID => b.started
  BY <1>2, <1>7, <1>9
<1>13. StartsOf(calls.order) \subseteq StartsOf(calls'.order)
  <2> SUFFICES ASSUME NEW f \in Frames, NEW p \in 1..Len(calls.order), calls.order[p].started,
                      calls.order[p].id = f.call, calls.order[p].name = f.name
               PROVE  f \in StartsOf(calls'.order)
    BY DEF StartsOf
  <2>1. Len(calls.order) \in Nat /\ Len(calls'.order) \in Nat
    BY <1>3 DEF TablesOK, CallTables, TurnInv, CallsInv
  <2>2. p \in 1..Len(calls'.order)
    BY <1>3, <2>1
  <2>3. CASE p = pos
    BY <1>3, <1>9, <2>2, <2>3 DEF StartsOf, b
  <2>4. CASE p # pos
    BY <1>3, <2>2, <2>4 DEF StartsOf
  <2> QED
    BY <2>3, <2>4
<1>14. StartsUnder(em, OfServer(earlier) \cup StartsOf(calls'.order))
  BY <1>13 DEF NamesInv, StartsUnder
<1>15. StartsUnder(em', OfServer(earlier) \cup StartsOf(calls'.order))
  <2>1. b.id \in ToolID /\ b.name \in Name
    BY <1>4 DEF Buffers
  <2>2. CASE em' = ToolStart(em, b.id, b.name, owner.id) /\ b.started
    <3>1. ToolStartFrame(b.id, b.name, owner.id) \in Frames
      BY <1>1, <2>1, ToolFramesAreFrames, NoDeltaType
    <3>2. ToolStartFrame(b.id, b.name, owner.id) \in StartsOf(calls'.order)
      BY <1>3, <2>2, <3>1 DEF StartsOf, ToolStartFrame, b
    <3> QED
      BY <1>1, <1>14, <2>1, <2>2, <3>2, ToolsUnder, NoDeltaType
  <2>3. CASE \E d \in Delta : em' \in {em, ToolArgs(em, b.id, d)}
    BY <1>1, <1>14, <2>1, <2>3, ToolsUnder DEF Name
  <2> QED
    BY <1>2, <2>2, <2>3
<1>16. ASSUME NEW p \in 1..Len(calls'.order)
       PROVE  /\ calls'.order[p].name # NoName => Given(calls.order[p])'
              /\ calls'.order[p].started => calls'.order[p].name \in Names
              /\ live' /\ calls'.order[p].name # NoName /\ calls'.order[p].id # NoID
                   => calls'.order[p].started
  <2>1. CASE p = pos
    BY <1>1, <1>10, <1>11, <1>12, <2>1 DEF Given, b
  <2>2. CASE p # pos
    <3>1. p \in 1..Len(calls.order) /\ calls'.order[p] = calls.order[p]
      BY <1>3, <2>2
    <3>2. calls'.order[p].name # NoName => Given(calls.order[p])'
      <4>1. calls.order[p].name # NoName => Given(calls.order[p])
        BY <3>1 DEF NamesInv
      <4> QED
        BY <1>6, <3>1, <4>1 DEF Given
    <3> QED
      BY <1>1, <3>1, <3>2 DEF NamesInv
  <2> QED
    BY <2>1, <2>2
<1> QED
  BY <1>1, <1>2, <1>15, <1>16 DEF NamesInv, OfServer

LEMMA NamesNext ==
    ASSUME NEW earlier, TurnInv, FlushOnly, NamesInv(earlier), [Next]_vars, KeepsNames'
    PROVE  NamesInv(earlier)'
<1>1. CASE Quiet \/ OpenFails \/ ConcludeEmpty \/ Conclude \/ UNCHANGED vars
  BY <1>1, QuietNames
<1>2. CASE ApplyReasoning \/ ApplyText \/ EnsureToolOwner \/ CloseBlocks
  BY <1>2, BlocksNames
<1>3. CASE EndCall
  BY <1>3, EndCallNames
<1>4. CASE FlushArg
  BY <1>4, FlushNames
<1>5. CASE RefuseFragment
  BY <1>5, RefuseNames
<1>6. CASE AcceptFragment
  <2>1. KeepsNames
    BY <1>6 DEF KeepsNames, AcceptFragment, Received, FragmentAt
  <2> QED
    BY <1>6, <2>1, AcceptNames
<1> QED
  BY <1>1, <1>2, <1>3, <1>4, <1>5, <1>6 DEF Next, TurnStep, Apply, Finish, Quiet, Returned

-----------------------------------------------------------------------------
(* What the client saw of a call that ended stays: nothing is added to it.  *)
LEMMA SelectedMore ==
    ASSUME NEW l, NEW k, NEW wanted, Len(l) \in Nat, Len(k) \in Nat, Len(l) <= Len(k),
           \A n \in 1..Len(l) : k[n] = l[n],
           \A n \in 1..Len(k) : n > Len(l) => k[n] \notin wanted
    PROVE  Selected(k, wanted) = Selected(l, wanted)
<1> DEFINE N == Len(l)
           M == Len(k)
<1>1. PICK f : KeptBy(f, l, wanted, N) /\ Selected(l, wanted) = f[N]
  BY SelectedIsKept
<1>2. PICK g : KeptBy(g, k, wanted, M) /\ Selected(k, wanted) = g[M]
  BY SelectedIsKept
<1>3. /\ N \in Nat /\ M \in Nat /\ N <= M
      /\ \A n \in 1..N : l[n] = k[n]
      /\ \A n \in 1..M : n > N => k[n] \notin wanted
  OBVIOUS
<1> HIDE DEF N, M
<1>4. f[N] = g[N]
  BY <1>1, <1>2, <1>3, KeptAgree
<1>5. \A n \in 1..M : n > N => g[n] = g[n - 1]
  BY <1>2, <1>3, KeptSteps
<1> DEFINE T == {x \in Nat : N + x <= M => g[N + x] = g[N]}
<1>6. 0 \in T
  BY <1>3
<1>7. ASSUME NEW x \in Nat, x \in T PROVE x + 1 \in T
  <2> SUFFICES ASSUME N + (x + 1) <= M PROVE g[N + (x + 1)] = g[N]
    OBVIOUS
  <2>1. N + (x + 1) \in 1..M /\ N + (x + 1) > N /\ (N + (x + 1)) - 1 = N + x /\ N + x <= M
    BY <1>3
  <2>2. g[N + (x + 1)] = g[N + x]
    BY <1>5, <2>1
  <2> QED
    BY <1>7, <2>1, <2>2
<1>8. Nat \subseteq T
  <2> HIDE DEF T
  <2> QED
    BY <1>6, <1>7, SetInduction
<1>9. M - N \in T
  BY <1>3, <1>8
<1>10. g[M] = g[N]
  <2>1. N + (M - N) = M
    BY <1>3
  <2> QED
    BY <1>3, <1>9, <2>1
<1> QED
  BY <1>1, <1>2, <1>4, <1>10

LEMMA SaidMore ==
    ASSUME NEW d, NEW e, NEW added, More(d, e, added), NEW S,
           \A n \in 1..Len(d.wire) : n > Len(e.wire) => d.wire[n] \notin S
    PROVE  Said(d, S) = Said(e, S)
<1>1. Len(d.wire) \in Nat /\ Len(e.wire) \in Nat
  BY WireTyped DEF More
<1>2. Selected(d.wire, S) = Selected(e.wire, S)
  BY <1>1, SelectedMore DEF More
<1> QED
  BY <1>2 DEF Said

LEMMA OnWireMore ==
    ASSUME NEW d, NEW e, NEW added, More(d, e, added), EmitterInv(d), NEW parent,
           NEW c, c.id \in ToolIDs, OnWire(e, parent, c)
    PROVE  OnWire(d, parent, c)
<1>1. /\ DOMAIN d.wire = 1..Len(d.wire) /\ DOMAIN e.wire = 1..Len(e.wire)
      /\ Len(d.wire) \in Nat /\ Len(e.wire) \in Nat /\ Len(e.wire) <= Len(d.wire)
      /\ \A n \in 1..Len(e.wire) : d.wire[n] = e.wire[n]
  BY WireTyped DEF More
<1>2. PICK s, t \in DOMAIN e.wire :
         /\ s < t /\ Starts(e.wire[s], c.id) /\ Ends(e.wire[t], c.id)
         /\ e.wire[s].msg = parent /\ e.wire[s].name = c.name
  BY DEF OnWire
<1>3. /\ s \in DOMAIN d.wire /\ t \in DOMAIN d.wire /\ d.wire[s] = e.wire[s]
      /\ d.wire[t] = e.wire[t]
  BY <1>1
<1>4. ASSUME NEW n \in 1..Len(d.wire), n > Len(e.wire), d.wire[n] \in ArgumentFrames(c.id)
      PROVE  FALSE
  <2>1. Feeds(d.wire[n], c.id)
    BY <1>4, CallFrames DEF Feeds
  <2>2. t \in 1..(n - 1) /\ Ends(d.wire[t], c.id)
    BY <1>1, <1>2, <1>3, <1>4
  <2> QED
    BY <1>1, <2>1, <2>2 DEF EmitterInv, OneLifecycle
<1>5. Said(d, ArgumentFrames(c.id)) = Said(e, ArgumentFrames(c.id))
  BY <1>4, SaidMore
<1> QED
  BY <1>2, <1>3, <1>5 DEF OnWire

LEMMA ShownMore ==
    ASSUME NEW d, NEW e, NEW added, More(d, e, added), EmitterInv(d), turns \in Seq(Returns),
           NEW t \in DOMAIN turns, TurnShown(e, t)
    PROVE  TurnShown(d, t)
<1> SUFFICES ASSUME NEW i \in DOMAIN turns[t].calls, Proper(turns[t].calls[i]),
                    turns[t].calls[i].id \notin EarlierIDs(t)
             PROVE  OnWire(d, turns[t].owner, turns[t].calls[i])
  BY DEF TurnShown
<1>1. OnWire(e, turns[t].owner, turns[t].calls[i])
  BY DEF TurnShown
<1>2. turns[t] \in Returns
  OBVIOUS
<1>3. turns[t].calls \in Seq(MergedCall)
  BY <1>2 DEF Returns
<1>4. turns[t].calls[i] \in MergedCall
  BY <1>3
<1>5. turns[t].calls[i].id \in ToolIDs
  BY <1>4 DEF MergedCall, ToolID, Proper
<1> QED
  BY <1>1, <1>5, OnWireMore

(* An ended call was started before its end. *)
LEMMA EndedCall ==
    ASSUME NEW e, EmitterInv(e), NEW id \in ToolIDs, id \in e.endedToolCalls
    PROVE  \E s, t \in DOMAIN e.wire : s < t /\ Starts(e.wire[s], id) /\ Ends(e.wire[t], id)
<1>1. DOMAIN e.wire = 1..Len(e.wire) /\ Len(e.wire) \in Nat
  BY WireTyped DEF EmitterInv
<1>2. PICK t \in DOMAIN e.wire : Ends(e.wire[t], id)
  BY DEF EmitterInv, RemembersCalls
<1>3. PICK s \in 1..(t - 1) : Starts(e.wire[s], id)
  BY <1>2 DEF EmitterInv, OneLifecycle
<1> QED
  BY <1>1, <1>2, <1>3

-----------------------------------------------------------------------------
(* The ids of earlier turns. *)
LEMMA EarlierIsOf ==
    ASSUME turns \in Seq(Returns), NEW t \in 1..(Len(turns) + 1)
    PROVE  EarlierThan(t) \in SUBSET ToolIDs
<1>1. ASSUME NEW c \in EarlierThan(t)
      PROVE  c \in ToolIDs
  <2>1. c # NoID /\ \E s \in 1..(t - 1) : c \in {turns[s].calls[i].id : i \in DOMAIN turns[s].calls}
    BY <1>1 DEF EarlierThan, EarlierIDs
  <2>2. PICK s \in 1..(t - 1) : \E i \in DOMAIN turns[s].calls : c = turns[s].calls[i].id
    BY <2>1
  <2>3. turns[s] \in Returns
    <3>1. s \in 1..Len(turns)
      BY <2>2
    <3> QED
      BY <3>1
  <2>4. turns[s].calls \in Seq(MergedCall)
    BY <2>3 DEF Returns
  <2>5. PICK i \in DOMAIN turns[s].calls : c = turns[s].calls[i].id
    BY <2>2
  <2>6. turns[s].calls[i] \in MergedCall
    BY <2>4, <2>5
  <2> QED
    BY <2>1, <2>5, <2>6 DEF MergedCall, ToolID
<1> QED
  BY <1>1

LEMMA EarlierStays ==
    ASSUME turns \in Seq(Returns), NEW t \in 1..(Len(turns) + 1),
           \A s \in 1..Len(turns) : turns'[s] = turns[s]
    PROVE  EarlierIDs(t)' = EarlierIDs(t) /\ EarlierThan(t)' = EarlierThan(t)
<1>1. EarlierIDs(t)' = EarlierIDs(t)
  <2>1. \A s \in 1..(t - 1) : turns'[s] = turns[s]
    OBVIOUS
  <2> QED
    BY <2>1 DEF EarlierIDs
<1> QED
  BY <1>1 DEF EarlierThan

LEMMA EarlierAndLast ==
    ASSUME turns \in Seq(Returns), Len(turns) > 0
    PROVE  EarlierThan(Len(turns) + 1)
               = (EarlierThan(Len(turns))
                    \cup {turns[Len(turns)].calls[i].id : i \in DOMAIN turns[Len(turns)].calls}) \ {NoID}
<1> DEFINE ids(s) == {turns[s].calls[i].id : i \in DOMAIN turns[s].calls}
           n      == Len(turns)
<1>1. EarlierIDs(n + 1) = UNION {ids(s) : s \in 1..n} /\ EarlierIDs(n) = UNION {ids(s) : s \in 1..(n - 1)}
  BY DEF EarlierIDs
<1>2. 1..n = (1..(n - 1)) \cup {n}
  OBVIOUS
<1> HIDE DEF ids, n
<1>3. EarlierIDs(n + 1) = EarlierIDs(n) \cup ids(n)
  <2>1. \A c : c \in EarlierIDs(n + 1) <=> \E s \in 1..n : c \in ids(s)
    BY <1>1
  <2>2. \A c : c \in EarlierIDs(n) <=> \E s \in 1..(n - 1) : c \in ids(s)
    BY <1>1
  <2> QED
    BY <1>2, <2>1, <2>2
<1> QED
  BY <1>3 DEF EarlierThan, ids, n

LEMMA MoreIsNoBetter ==
    ASSUME NEW d, NEW e, NEW added, More(d, e, added), Good(d)
    PROVE  Good(e)
BY DEF More, Good

LEMMA AllShownMore ==
    ASSUME AllShown, turns \in Seq(Returns), UNCHANGED turns, NEW added, More(em', em, added),
           EmitterInv(em'),
           InBetween /\ ~InBetween' /\ Good(em) /\ Len(turns) > 0 => TurnShown(em, Len(turns))
    PROVE  AllShown'
<1> SUFFICES ASSUME Good(em'), NEW t \in DOMAIN turns, t < Len(turns) \/ ~InBetween'
             PROVE  TurnShown(em, t)'
  BY DEF AllShown
<1>1. Good(em)
  BY MoreIsNoBetter
<1>2. t \in 1..Len(turns) /\ Len(turns) \in Nat
  OBVIOUS
<1>3. TurnShown(em, t)
  <2>1. CASE t < Len(turns) \/ ~InBetween
    BY <1>1, <2>1 DEF AllShown
  <2>2. CASE ~(t < Len(turns)) /\ InBetween
    <3>1. t = Len(turns) /\ Len(turns) > 0
      BY <1>2, <2>2
    <3> QED
      BY <1>1, <2>2, <3>1
  <2> QED
    BY <2>1, <2>2
<1>4. TurnShown(em', t)
  BY <1>3, ShownMore
<1>5. EarlierIDs(t)' = EarlierIDs(t)
  BY <1>2, EarlierStays
<1> QED
  BY <1>4, <1>5 DEF TurnShown

(***************************************************************************)
(* ShownInv holds initially and in every turn.                             *)
(***************************************************************************)
LEMMA ShownInit == RunInit => ShownInv
<1> SUFFICES ASSUME RunInit
             PROVE  ShownInv
  OBVIOUS
<1>1. Init /\ stage = "start" /\ turns = <<>>
  BY DEF RunInit
<1>2. \A earlier : TurnCalls(earlier)
  BY <1>1, StartedInit, ArgsInit, NamesInit DEF TurnCalls
<1>3. turns \in Seq(Returns) /\ DOMAIN turns = {} /\ ~InBetween
  BY <1>1 DEF InBetween
<1> QED
  BY <1>2, <1>3 DEF ShownInv, AllShown

LEMMA TurnEarlier ==
    ASSUME ShownInv, stage \in {"start", "turn"}
    PROVE  EarlierThan(Len(turns) + 1) \in SUBSET ToolIDs /\ TurnCalls(EarlierThan(Len(turns) + 1))
<1>1. turns \in Seq(Returns)
  BY DEF ShownInv
<1>2. Len(turns) + 1 \in 1..(Len(turns) + 1)
  BY <1>1
<1>3. EarlierThan(Len(turns) + 1) \in SUBSET ToolIDs
  BY <1>1, <1>2, EarlierIsOf
<1> QED
  BY <1>3 DEF ShownInv

(* Between two turns, and inside one, turns does not change.                *)
LEMMA StaysInTurn ==
    ASSUME RunInv, ShownInv, stage \in {"start", "turn"}, stage' \in {"start", "turn"},
           UNCHANGED turns, NEW added, More(em', em, added), EmitterInv(em'),
           NEW earlier, earlier = EarlierThan(Len(turns) + 1), TurnCalls(earlier)'
    PROVE  ShownInv'
<1>1. turns \in Seq(Returns) /\ AllShown
  BY DEF ShownInv
<1>2. ~InBetween /\ ~InBetween'
  BY DEF InBetween
<1>3. AllShown'
  BY <1>1, <1>2, AllShownMore
<1>4. EarlierThan(Len(turns) + 1)' = earlier
  <2>1. /\ \A t \in {Len(turns) + 1} : EarlierThan(t)' = EarlierThan(t)
        /\ Len(turns)' = Len(turns)
    <3>1. \A t \in {Len(turns) + 1} : t \in 1..(Len(turns) + 1)
      BY <1>1
    <3>2. \A s \in 1..Len(turns) : turns'[s] = turns[s]
      OBVIOUS
    <3> QED
      BY <1>1, <3>1, <3>2, EarlierStays
  <2> QED
    BY <2>1 DEF EarlierThan, EarlierIDs
<1> QED
  BY <1>1, <1>2, <1>3, <1>4 DEF ShownInv

LEMMA InTurnShown ==
    ASSUME RunInv, ShownInv, InTurn \/ Interrupt
    PROVE  ShownInv'
<1>1. /\ stage \in {"start", "turn"} /\ stage' = stage /\ UNCHANGED turns
      /\ [Next]_vars /\ (KeepsNames' \/ Quiet)
  <2>1. CASE InTurn
    BY <2>1 DEF InTurn, Next, runVars
  <2>2. CASE Interrupt
    BY <2>2 DEF Interrupt, Cancel, RunInv, Between, Next, runVars, Quiet
  <2> QED
    BY <2>1, <2>2
<1>2. TurnInv /\ TurnWireInv /\ TurnInv'
  BY <1>1, NextInv DEF RunInv, TurnOK
<1>3. More(em', em, TurnFrames) /\ EmitterInv(em')
  BY <1>1, <1>2, TurnMore DEF TurnInv, EmitterOK
<1>4. PICK earlier \in SUBSET ToolIDs : earlier = EarlierThan(Len(turns) + 1) /\ TurnCalls(earlier)
  BY <1>1, TurnEarlier
<1>5. StartedInv(earlier)'
  BY <1>1, <1>2, <1>4, StartedNext DEF TurnCalls
<1>6. ArgsInv(earlier)'
  BY <1>1, <1>2, <1>4, ArgsNext DEF TurnCalls
<1>7. NamesInv(earlier)'
  <2>1. FlushOnly /\ NamesInv(earlier)
    BY <1>4 DEF TurnCalls, ArgsInv
  <2> QED
    BY <1>1, <1>2, <2>1, NamesNext, QuietNames
<1>8. TurnCalls(earlier)'
  BY <1>5, <1>6, <1>7 DEF TurnCalls
<1> QED
  BY <1>1, <1>3, <1>4, <1>8, StaysInTurn

LEMMA BeginShown ==
    ASSUME RunInv, ShownInv, Begin
    PROVE  ShownInv'
<1> DEFINE frame == OtherFrame("RUN_STARTED")
<1>1. /\ TurnInv /\ TurnWireInv /\ stage = "start" /\ stage' = "turn" /\ em' = Emit(em, frame)
      /\ pc = "open" /\ em.wire = <<>> /\ UNCHANGED turns
      /\ UNCHANGED <<live, pc, primary, chunks, wireMessages, owner, calls, result, cursor>>
  BY DEF RunInv, TurnOK, Begin, RunStarted, request, blocks
<1>2. frame \in Frames /\ frame.type = "RUN_STARTED" /\ frame.type \notin BlockTypes \cup CallTypes
  BY DEF OtherFrame, Frames, FrameTypes, OtherTypes, RunTypes, ToolID, Name, Delta, NoMessage,
         BlockTypes, CallTypes
<1> HIDE DEF frame
<1>3. /\ WireOK(em') /\ SameCalls(em', em) /\ More(em', em, {frame})
  BY <1>1, <1>2, OtherSent DEF TurnWireInv
<1>4. EmitterInv(em') /\ TablesOK(calls) /\ (Good(em') => Good(em)) /\ DOMAIN em.wire = {}
  BY <1>1, <1>3, MoreIsNoBetter DEF WireOK, TurnInv, CallsInv
<1>5. PICK earlier \in SUBSET ToolIDs : earlier = EarlierThan(Len(turns) + 1) /\ TurnCalls(earlier)
  BY <1>1, TurnEarlier
<1>6. \A S : StartsUnder(em', S)
  <2>1. \A S : StartsUnder(em, S)
    BY <1>4 DEF StartsUnder
  <2>2. frame.type # "TOOL_CALL_START"
    BY <1>2
  <2> QED
    BY <1>3, <2>1, <2>2, StartsMore
<1>7. StartedInv(earlier)'
  <2>1. StartsUnder(em, Allowed(earlier))'
    BY <1>6 DEF StartsUnder
  <2> QED
    BY <1>1, <1>5, <2>1 DEF TurnCalls, StartedInv, OwnerListed, ReadyStarted
<1>8. ArgsInv(earlier)'
  <2>1. \A c \in ToolIDs : Said(em', ArgumentFrames(c)) = Said(em, ArgumentFrames(c))
    <3>1. ASSUME NEW c \in ToolIDs
          PROVE  \A n \in 1..Len(em'.wire) : n > Len(em.wire) => em'.wire[n] \notin ArgumentFrames(c)
      BY <1>2, <1>3 DEF More, ArgumentFrames
    <3> QED
      BY <1>3, <3>1, SaidMore
  <2>2. calls' = calls /\ live' = live /\ pc # "flush" /\ ArgsInv(earlier)
    BY <1>1, <1>5 DEF TurnCalls
  <2> QED
    BY <1>1, <1>3, <1>4, <2>1, <2>2, ArgsKept
<1>9. NamesInv(earlier)'
  <2>1. NamesInv(earlier) /\ StartsUnder(em', OfServer(earlier) \cup StartsOf(calls.order))
    BY <1>5, <1>6 DEF TurnCalls
  <2>2. \A r \in Received : r \in Received' /\ FragmentAt(r)' = FragmentAt(r)
    BY <1>1 DEF Received, FragmentAt
  <2>3. (pc = "done" /\ primary = "none" => result.calls = MergedToolCalls(calls.order))'
    BY <1>1
  <2> QED
    BY <1>1, <1>4, <2>1, <2>2, <2>3, NamesKept
<1>10. TurnCalls(earlier)'
  BY <1>7, <1>8, <1>9 DEF TurnCalls
<1> QED
  BY <1>1, <1>3, <1>4, <1>5, <1>10, StaysInTurn

LEMMA TurnFailedShown ==
    ASSUME RunInv, ShownInv, TurnFailed
    PROVE  ShownInv'
<1> DEFINE frame == OtherFrame("RUN_ERROR")
<1>1. /\ TurnWireInv /\ stage = "turn" /\ stage' = "ended" /\ em' = Emit(em, frame) /\ UNCHANGED turns
  BY DEF RunInv, TurnOK, TurnFailed, RunError
<1>2. frame \in Frames /\ frame.type \notin BlockTypes \cup CallTypes
  BY RunFrames DEF BlockTypes, CallTypes
<1> HIDE DEF frame
<1>3. More(em', em, {frame}) /\ EmitterInv(em')
  BY <1>1, <1>2, OtherSent DEF TurnWireInv, WireOK
<1>4. turns \in Seq(Returns) /\ AllShown /\ ~InBetween /\ ~InBetween' /\ stage' \notin {"start", "turn"}
  BY <1>1 DEF ShownInv, InBetween
<1>5. AllShown'
  BY <1>1, <1>3, <1>4, AllShownMore
<1> QED
  BY <1>1, <1>4, <1>5 DEF ShownInv

(***************************************************************************)
(* ShownInv between two turns.                                             *)
(***************************************************************************)
LEMMA BetweenEarlier ==
    ASSUME ShownInv, InBetween
    PROVE  /\ turns \in Seq(Returns) /\ Len(turns) \in 1..(Len(turns) + 1)
           /\ EarlierThan(Len(turns)) \in SUBSET ToolIDs /\ CallsBetween(EarlierThan(Len(turns)))
<1>1. turns \in Seq(Returns) /\ CallsBetween(EarlierThan(Len(turns)))
  BY DEF ShownInv
<1>2. Len(turns) \in 1..(Len(turns) + 1)
  BY <1>1 DEF CallsBetween
<1> QED
  BY <1>1, <1>2, EarlierIsOf

LEMMA StaysBetween ==
    ASSUME RunInv, ShownInv, InBetween, InBetween',
           UNCHANGED turns, NEW added, More(em', em, added), EmitterInv(em'),
           NEW earlier, earlier = EarlierThan(Len(turns)), CallsBetween(earlier)'
    PROVE  ShownInv'
<1>1. turns \in Seq(Returns) /\ AllShown /\ Len(turns) \in 1..(Len(turns) + 1)
  BY BetweenEarlier DEF ShownInv
<1>2. AllShown'
  BY <1>1, AllShownMore
<1>3. EarlierThan(Len(turns))' = earlier
  <2>1. \A t \in {Len(turns)} : EarlierThan(t)' = EarlierThan(t)
    <3>1. \A t \in {Len(turns)} : t \in 1..(Len(turns) + 1)
      BY <1>1
    <3>2. \A s \in 1..Len(turns) : turns'[s] = turns[s]
      OBVIOUS
    <3> QED
      BY <1>1, <3>1, <3>2, EarlierStays
  <2> QED
    BY <2>1 DEF EarlierThan, EarlierIDs
<1>4. stage' \notin {"start", "turn"}
  BY DEF InBetween
<1> QED
  BY <1>1, <1>2, <1>3, <1>4 DEF ShownInv

(* A call proposed for the first time is on the wire, whole.                *)
LEMMA ProposedOnWire ==
    ASSUME NEW e, Settled(e), NEW c \in CallsOf(Names), NEW parent \in Nat,
           c.id \notin e.startedToolCalls, Good(Proposed(e, c, parent))
    PROVE  OnWire(Proposed(e, c, parent), parent, c)
<1> DEFINE r == Proposed(e, c, parent)
<1>1. /\ Settled(r) /\ More(r, e, ProposedFrames(c, parent))
      /\ r.startedToolCalls = e.startedToolCalls \cup {c.id}
      /\ Said(r, ArgumentFrames(c.id)) = c.arguments
  BY ProposedSettles
<1>2. c.id \in ToolIDs
  BY DEF CallsOf
<1> HIDE DEF r
<1>3. EmitterInv(r) /\ EmitterInv(e) /\ c.id \in r.endedToolCalls
  BY <1>1 DEF Settled, WireOK, NoCallOpen, r
<1>4. PICK s, t \in DOMAIN r.wire : s < t /\ Starts(r.wire[s], c.id) /\ Ends(r.wire[t], c.id)
  BY <1>2, <1>3, EndedCall
<1>5. r.wire[s] \in ProposedFrames(c, parent)
  <2>1. ASSUME s <= Len(e.wire)
        PROVE  FALSE
    <3>1. s \in 1..Len(e.wire) /\ s \in DOMAIN e.wire
      BY <1>1, <1>4, <2>1, WireTyped DEF More
    <3>2. e.wire[s] = r.wire[s]
      BY <1>1, <3>1 DEF More
    <3> QED
      BY <1>2, <1>3, <1>4, <3>1, <3>2 DEF EmitterInv, RemembersCalls
  <2> QED
    BY <1>1, <1>4, <2>1, WireTyped DEF More
<1>6. r.wire[s] = ToolStartFrame(c.id, c.name, parent)
  <2>1. \A f \in ProposedFrames(c, parent) :
           f.type = "TOOL_CALL_START" => f = ToolStartFrame(c.id, c.name, parent)
    BY DEF ProposedFrames, StartFrames, CallOnly, BlockFrames, BlockTypes
  <2> QED
    BY <1>4, <1>5, <2>1 DEF Starts
<1>7. r.wire[s].msg = parent /\ r.wire[s].name = c.name
  BY <1>6 DEF ToolStartFrame
<1> QED
  BY <1>1, <1>4, <1>7 DEF OnWire, r

LEMMA ProposeShown ==
    ASSUME RunInv, ShownInv, Propose
    PROVE  ShownInv'
<1> DEFINE c == Head(todo)
<1>1. /\ Between /\ InBetween /\ InBetween' /\ stage = "propose" /\ stage' = "propose"
      /\ todo # <<>> /\ todo' = Tail(todo)
      /\ em' = Proposed(em, c, owner.id)
      /\ UNCHANGED <<turns, result, owner>>
  BY DEF RunInv, Propose, Proposed, request, blocks, InBetween
<1>2. /\ Settled(em) /\ owner.id \in Nat /\ todo \in Seq(CallsOf(Names)) /\ c \in CallsOf(Names)
      /\ result.calls \in Seq(MergedCall)
  BY <1>1 DEF Between
<1>3. c.id \in ToolIDs /\ c.id # NoID
  BY <1>2, NoIDAssumption DEF CallsOf
<1>4. PICK earlier \in SUBSET ToolIDs : earlier = EarlierThan(Len(turns)) /\ CallsBetween(earlier)
  BY <1>1, BetweenEarlier
<1>5. /\ Settled(em') /\ More(em', em, ProposedFrames(c, owner.id))
      /\ Good(em') => /\ Good(em) /\ em'.startedToolCalls = em.startedToolCalls \cup {c.id}
                      /\ c.id \notin em.startedToolCalls => OnWire(em', owner.id, c)
  BY <1>1, <1>2, ProposedSettles, ProposedOnWire
<1>6. EmitterInv(em')
  BY <1>5 DEF Settled, WireOK
<1>7. PICK j \in DOMAIN result.calls : result.calls[j] = c
  BY <1>1, <1>2, <1>4 DEF CallsBetween
<1> HIDE DEF c
<1>8. DOMAIN todo' = 1..(Len(todo) - 1) /\ \A k \in DOMAIN todo' : todo'[k] = todo[k + 1] /\ k + 1 \in DOMAIN todo
  BY <1>1, <1>2
<1>9. StartsUnder(em', OfServer(earlier) \cup StartsReturned)
  <2>1. StartsUnder(em, OfServer(earlier) \cup StartsReturned)
    BY <1>4 DEF CallsBetween
  <2>2. ASSUME NEW f \in ProposedFrames(c, owner.id), f.type = "TOOL_CALL_START"
        PROVE  f \in StartsReturned
    <3>1. f = ToolStartFrame(c.id, c.name, owner.id)
      BY <2>2 DEF ProposedFrames, StartFrames, CallOnly, BlockFrames, BlockTypes
    <3>2. f.call = c.id /\ f.name = c.name
      BY <3>1 DEF ToolStartFrame
    <3>3. f \in TurnFrames
      BY <1>2, ProposedInTurnFrames
    <3>4. f \in Frames
      BY <3>3 DEF TurnFrames, BlockFrames, LifecycleFrames
    <3> QED
      BY <1>7, <3>2, <3>4 DEF StartsReturned
  <2> QED
    BY <1>5, <2>1, <2>2, StartsMore
<1>10. CallsBetween(earlier)'
  <2>1. \A k \in DOMAIN todo' : \E i \in DOMAIN result.calls : result.calls[i] = todo'[k]
    BY <1>4, <1>8 DEF CallsBetween
  <2>2. ASSUME Good(em'), NEW i \in DOMAIN result.calls, Proper(result.calls[i])
        PROVE  IF result.calls[i].id \in em'.startedToolCalls
               THEN result.calls[i].id \in earlier \/ OnWire(em', owner.id, result.calls[i])
               ELSE \E k \in DOMAIN todo' : todo'[k] = result.calls[i]
    <3> DEFINE x == result.calls[i]
    <3>1. x \in MergedCall /\ x.id # NoID
      BY <1>2, <2>2 DEF Proper
    <3>2. x.id \in ToolIDs
      BY <3>1 DEF MergedCall, ToolID
    <3>3. CASE x.id \in em.startedToolCalls
      <4>1. x.id \in earlier \/ OnWire(em, owner.id, x)
        BY <1>4, <1>5, <2>2, <3>3 DEF CallsBetween
      <4>2. OnWire(em, owner.id, x) => OnWire(em', owner.id, x)
        BY <1>5, <1>6, <3>2, OnWireMore
      <4> QED
        BY <1>5, <2>2, <3>3, <4>1, <4>2
    <3>4. CASE x.id \notin em.startedToolCalls /\ x.id = c.id
      <4>1. x = c
        BY <1>3, <1>4, <1>7, <3>4 DEF CallsBetween
      <4> QED
        BY <1>5, <2>2, <3>4, <4>1
    <3>5. CASE x.id \notin em.startedToolCalls /\ x.id # c.id
      <4>1. PICK k \in DOMAIN todo : todo[k] = x
        BY <1>4, <1>5, <2>2, <3>5 DEF CallsBetween
      <4>2. k # 1
        BY <1>1, <1>2, <3>5, <4>1 DEF c
      <4>3. k - 1 \in DOMAIN todo' /\ todo'[k - 1] = x
        BY <1>1, <1>2, <1>8, <4>1, <4>2
      <4> QED
        BY <1>5, <2>2, <3>5, <4>3
    <3> QED
      BY <3>3, <3>4, <3>5
  <2>3. StartsUnder(em, OfServer(earlier) \cup StartsReturned)'
    BY <1>1, <1>9 DEF StartsUnder, StartsReturned
  <2> QED
    BY <1>1, <1>4, <2>1, <2>2, <2>3 DEF CallsBetween
<1> QED
  BY <1>1, <1>4, <1>5, <1>6, <1>10, StaysBetween

(* What the application makes of the calls of a turn.                       *)
LEMMA Sorted ==
    ASSUME NEW merged \in Seq(MergedCall), NEW names
    PROVE  LET picked == Selected(merged, CallsOf(names)) IN
           /\ picked \in Seq(MergedCall)
           /\ \A k \in DOMAIN picked :
                 picked[k].name \in names /\ \E i \in DOMAIN merged : merged[i] = picked[k]
           /\ \A i \in DOMAIN merged : merged[i].id # NoID /\ merged[i].name \in names =>
                 \E k \in DOMAIN picked : picked[k] = merged[i]
<1> DEFINE picked == Selected(merged, CallsOf(names))
<1>1. /\ picked \in Seq(MergedCall)
      /\ \A k \in DOMAIN picked : /\ picked[k] \in CallsOf(names)
                                  /\ \E i \in DOMAIN merged : picked[k] = merged[i]
      /\ \A i \in DOMAIN merged : merged[i] \in CallsOf(names) =>
            \E k \in DOMAIN picked : picked[k] = merged[i]
  BY SelectedElements
<1> HIDE DEF picked
<1>2. \A x \in CallsOf(names) : x.name \in names
  BY DEF CallsOf
<1>3. \A x \in MergedCall : x.id # NoID /\ x.name \in names => x \in CallsOf(names)
  BY DEF MergedCall, ToolID, CallsOf
<1>4. \A i \in DOMAIN merged : merged[i] \in MergedCall
  OBVIOUS
<1> QED
  BY <1>1, <1>2, <1>3, <1>4 DEF picked

LEMMA ServedCalls ==
    ASSUME NEW merged \in Seq(MergedCall), NEW served, served = Named(Server(merged))
    PROVE  \A k \in DOMAIN served : /\ \E i \in DOMAIN merged : merged[i] = served[k]
                                    /\ served[k].name \notin ClientNames
<1> DEFINE theirs == Server(merged)
<1>1. /\ theirs \in Seq(MergedCall)
      /\ \A k \in DOMAIN theirs : /\ theirs[k].name \in Name \ ClientNames
                                  /\ \E i \in DOMAIN merged : merged[i] = theirs[k]
  BY Sorted DEF Server
<1> HIDE DEF theirs
<1>2. served = Selected(theirs, CallsOf(Names))
  BY DEF Named, theirs
<1>3. \A k \in DOMAIN served : \E i \in DOMAIN theirs : theirs[i] = served[k]
  BY <1>1, <1>2, Sorted
<1> QED
  BY <1>1, <1>3

LEMMA LastTurnShown ==
    ASSUME ShownInv, RunInv, stage = "answer", Good(em)
    PROVE  Len(turns) > 0 /\ TurnShown(em, Len(turns))
<1>1. InBetween
  BY DEF InBetween
<1>2. PICK earlier \in SUBSET ToolIDs : earlier = EarlierThan(Len(turns)) /\ CallsBetween(earlier)
  BY <1>1, BetweenEarlier
<1>3. /\ Len(turns) > 0 /\ turns[Len(turns)].calls = result.calls
      /\ turns[Len(turns)].owner = owner.id
  BY <1>2 DEF CallsBetween
<1>4. ASSUME NEW i \in DOMAIN result.calls, Proper(result.calls[i]),
             result.calls[i].id \notin EarlierIDs(Len(turns))
      PROVE  OnWire(em, owner.id, result.calls[i])
  BY <1>2, <1>4 DEF CallsBetween, EarlierThan
<1> QED
  BY <1>3, <1>4 DEF TurnShown

LEMMA AllProposedShown ==
    ASSUME RunInv, ShownInv, AllProposed
    PROVE  ShownInv'
<1>1. /\ Between /\ InBetween /\ InBetween' /\ stage = "propose" /\ stage' = "answer"
      /\ todo = <<>> /\ todo' = Named(Server(result.calls))
      /\ UNCHANGED <<em, turns, result, owner>>
  BY DEF RunInv, AllProposed, vars, InBetween
<1>2. result.calls \in Seq(MergedCall) /\ EmitterInv(em)
  BY <1>1 DEF Between, Settled, WireOK
<1>3. PICK earlier \in SUBSET ToolIDs : earlier = EarlierThan(Len(turns)) /\ CallsBetween(earlier)
  BY <1>1, BetweenEarlier
<1>4. \A k \in DOMAIN todo' : /\ \E i \in DOMAIN result.calls : result.calls[i] = todo'[k]
                              /\ todo'[k].name \notin ClientNames
  BY <1>1, <1>2, ServedCalls
<1>5. DOMAIN todo = {}
  BY <1>1
<1>6. CallsBetween(earlier)'
  <2>1. StartsUnder(em, OfServer(earlier) \cup StartsReturned)'
    BY <1>1, <1>3 DEF CallsBetween, StartsReturned
  <2>2. ASSUME Good(em), NEW i \in DOMAIN result.calls, Proper(result.calls[i])
        PROVE  /\ result.calls[i].id \in em.startedToolCalls
               /\ result.calls[i].id \in earlier \/ OnWire(em, owner.id, result.calls[i])
    BY <1>3, <1>5, <2>2 DEF CallsBetween
  <2> QED
    BY <1>1, <1>3, <1>4, <2>1, <2>2 DEF CallsBetween
<1>7. More(em', em, {})
  BY <1>1, <1>2, MoreNone DEF EmitterInv
<1>8. EmitterInv(em')
  BY <1>1, <1>2
<1> QED
  BY <1>1, <1>3, <1>6, <1>7, <1>8, StaysBetween

LEMMA AnswerShown ==
    ASSUME RunInv, ShownInv, Answer
    PROVE  ShownInv'
<1> DEFINE c == Head(todo)
<1>1. /\ Between /\ InBetween /\ InBetween' /\ stage = "answer" /\ stage' = "answer"
      /\ todo # <<>> /\ todo' = Tail(todo)
      /\ em' = ToolResult(em, nextID, c.id, NoDelta)
      /\ UNCHANGED <<turns, result, owner>>
  BY DEF RunInv, Answer, request, InBetween
<1>2. /\ Settled(em) /\ nextID \in Nat /\ todo \in Seq(CallsOf(Names)) /\ c \in CallsOf(Names)
      /\ result.calls \in Seq(MergedCall)
  BY <1>1 DEF Between
<1>3. c.id \in ToolIDs
  BY <1>2 DEF CallsOf
<1>4. PICK earlier \in SUBSET ToolIDs : earlier = EarlierThan(Len(turns)) /\ CallsBetween(earlier)
  BY <1>1, BetweenEarlier
<1>5. /\ Settled(em') /\ SameCalls(em', em) /\ More(em', em, ResultFrames(nextID, c.id))
      /\ Good(em') => Good(em)
  BY <1>1, <1>2, <1>3, ResultSettles
<1>6. EmitterInv(em')
  BY <1>5 DEF Settled, WireOK
<1>7. StartsUnder(em', OfServer(earlier) \cup StartsReturned)
  <2>1. StartsUnder(em, OfServer(earlier) \cup StartsReturned)
    BY <1>4 DEF CallsBetween
  <2>2. \A f \in ResultFrames(nextID, c.id) : f.type # "TOOL_CALL_START"
    BY DEF ResultFrames, ResultFrame, BlockFrames, BlockTypes
  <2> QED
    BY <1>5, <2>1, <2>2, StartsMore
<1>8. \A k \in DOMAIN todo' : k + 1 \in DOMAIN todo /\ todo'[k] = todo[k + 1]
  BY <1>1, <1>2
<1>9. CallsBetween(earlier)'
  <2>1. \A k \in DOMAIN todo' : /\ \E i \in DOMAIN result.calls : result.calls[i] = todo'[k]
                                /\ todo'[k].name \notin ClientNames
    BY <1>1, <1>4, <1>8 DEF CallsBetween
  <2>2. ASSUME Good(em'), NEW i \in DOMAIN result.calls, Proper(result.calls[i])
        PROVE  /\ result.calls[i].id \in em'.startedToolCalls
               /\ result.calls[i].id \in earlier \/ OnWire(em', owner.id, result.calls[i])
    <3> DEFINE x == result.calls[i]
    <3>1. x \in MergedCall /\ x.id # NoID
      BY <1>2, <2>2 DEF Proper
    <3>2. x.id \in ToolIDs
      BY <3>1 DEF MergedCall, ToolID
    <3>3. x.id \in em.startedToolCalls /\ (x.id \in earlier \/ OnWire(em, owner.id, x))
      BY <1>1, <1>4, <1>5, <2>2 DEF CallsBetween
    <3>4. OnWire(em, owner.id, x) => OnWire(em', owner.id, x)
      BY <1>5, <1>6, <3>2, OnWireMore
    <3> QED
      BY <1>5, <3>3, <3>4 DEF SameCalls
  <2>3. StartsUnder(em, OfServer(earlier) \cup StartsReturned)'
    BY <1>1, <1>7 DEF StartsUnder, StartsReturned
  <2> QED
    BY <1>1, <1>4, <2>1, <2>2, <2>3 DEF CallsBetween
<1> QED
  BY <1>1, <1>4, <1>5, <1>6, <1>9, StaysBetween

LEMMA NextTurnShown ==
    ASSUME RunInv, ShownInv, NextTurn
    PROVE  ShownInv'
<1> DEFINE merged == result.calls
<1>1. /\ Between /\ InBetween /\ stage = "answer" /\ stage' = "turn" /\ ~InBetween'
      /\ Client(merged) = <<>> /\ UNCHANGED <<em, live, turns>>
      /\ pc' = "open" /\ calls' = NoCalls /\ owner' = NoOwner
  BY DEF RunInv, NextTurn, Answered, AsksAgain, InBetween
<1>2. /\ merged \in Seq(MergedCall) /\ EmitterInv(em) /\ em' = em
      /\ \A k \in DOMAIN em.wire : em.wire[k].type = "TOOL_CALL_START" => em.wire[k].call \in ToolIDs
  BY <1>1 DEF Between, Settled, WireOK, Orderly, CallsNamed
<1>3. PICK earlier \in SUBSET ToolIDs : earlier = EarlierThan(Len(turns)) /\ CallsBetween(earlier)
  BY <1>1, BetweenEarlier
<1>4. /\ turns \in Seq(Returns) /\ Len(turns) > 0 /\ turns[Len(turns)].calls = merged
      /\ Len(turns) + 1 \in 1..(Len(turns) + 1)
  BY <1>3 DEF CallsBetween, ShownInv
<1>5. PICK known : known = EarlierThan(Len(turns) + 1)
  OBVIOUS
<1>6. known = (earlier \cup {merged[i].id : i \in DOMAIN merged}) \ {NoID}
  BY <1>3, <1>4, <1>5, EarlierAndLast
<1>7. ASSUME NEW k \in DOMAIN em.wire, em.wire[k].type = "TOOL_CALL_START"
      PROVE  em.wire[k].call \in known /\ em.wire[k] \in OfServer(known)
  <2>1. em.wire[k].call \in ToolIDs /\ em.wire[k] \in OfServer(earlier) \cup StartsReturned
    BY <1>2, <1>3, <1>7 DEF CallsBetween, StartsUnder
  <2>2. em.wire[k].call # NoID
    BY <2>1, NoIDAssumption
  <2>3. CASE em.wire[k] \in OfServer(earlier)
    BY <1>6, <2>2, <2>3 DEF OfServer
  <2>4. CASE em.wire[k] \in StartsReturned
    <3>1. PICK i \in DOMAIN merged : merged[i].id = em.wire[k].call /\ merged[i].name = em.wire[k].name
      BY <2>4 DEF StartsReturned
    <3>2. em.wire[k] \in Frames /\ em.wire[k].call \in known
      BY <1>6, <2>2, <2>4, <3>1 DEF StartsReturned
    <3>3. merged[i].name \notin ClientNames
      <4>1. \A j \in DOMAIN merged : merged[j].id # NoID /\ merged[j].name \in ClientNames =>
               \E n \in DOMAIN Client(merged) : Client(merged)[n] = merged[j]
        <5> HIDE DEF merged
        <5> QED
          BY <1>2, Sorted DEF Client
      <4>2. DOMAIN Client(merged) = {}
        BY <1>1
      <4> QED
        BY <2>2, <3>1, <4>1, <4>2
    <3> QED
      BY <3>1, <3>2, <3>3 DEF OfServer
  <2> QED
    BY <2>1, <2>3, <2>4
<1>8. calls'.order = <<>> /\ Len(calls'.order) = 0 /\ DOMAIN calls'.order = {} /\ \A i \in Indices : calls'.indexed[i] = 0
  BY <1>1 DEF NoCalls
<1>9. StartedInv(known)'
  <2>1. \A k \in DOMAIN em.wire : em.wire[k].type = "TOOL_CALL_START" => em.wire[k] \in Allowed(known)'
    BY <1>7 DEF Allowed, OfServer
  <2> QED
    BY <1>1, <1>8, <2>1 DEF StartedInv, StartsUnder, OwnerListed, ReadyStarted
<1>10. ArgsInv(known)'
  <2>1. em.startedToolCalls \subseteq known
    <3>1. ASSUME NEW c \in em.startedToolCalls
          PROVE  c \in known
      <4>1. c \in ToolIDs
        BY <1>2 DEF EmitterInv, EmitterType
      <4>2. PICK k \in DOMAIN em.wire : Starts(em.wire[k], c)
        BY <1>2, <4>1 DEF EmitterInv, RemembersCalls
      <4> QED
        BY <1>7, <4>2 DEF Starts
    <3> QED
      BY <3>1
  <2> QED
    BY <1>1, <1>8, <2>1 DEF ArgsInv, FlushOnly, Backed, StartedHeld, SpokenInv
<1>11. NamesInv(known)'
  <2>1. StartsUnder(em, OfServer(known) \cup StartsOf(calls.order))'
    BY <1>1, <1>7 DEF StartsUnder, OfServer
  <2> QED
    BY <1>1, <1>8, <2>1 DEF NamesInv, IndexedBack
<1>12. AllShown'
  <2>1. More(em', em, {}) /\ EmitterInv(em') /\ AllShown
    BY <1>2, MoreNone DEF EmitterInv, ShownInv
  <2>2. InBetween /\ ~InBetween' /\ Good(em) /\ Len(turns) > 0 => TurnShown(em, Len(turns))
    BY <1>1, LastTurnShown
  <2> QED
    BY <1>1, <1>4, <2>1, <2>2, AllShownMore
<1>13. EarlierThan(Len(turns) + 1)' = known
  BY <1>1, <1>5 DEF EarlierThan, EarlierIDs
<1>14. TurnCalls(known)'
  BY <1>9, <1>10, <1>11 DEF TurnCalls
<1> QED
  BY <1>1, <1>4, <1>12, <1>13, <1>14 DEF ShownInv

LEMMA FinishedShown ==
    ASSUME RunInv, ShownInv, Finished
    PROVE  ShownInv'
<1> DEFINE frame == OtherFrame("RUN_FINISHED")
<1>1. /\ Between /\ InBetween /\ ~InBetween' /\ stage = "answer" /\ stage' = "ended"
      /\ em' = Emit(em, frame) /\ UNCHANGED turns
  BY DEF RunInv, Finished, Answered, RunFinishedSuccess, InBetween
<1>2. frame \in Frames /\ frame.type \notin BlockTypes \cup CallTypes
  BY RunFrames DEF BlockTypes, CallTypes
<1> HIDE DEF frame
<1>3. More(em', em, {frame}) /\ EmitterInv(em')
  BY <1>1, <1>2, OtherSent DEF Between, Settled, WireOK
<1>4. turns \in Seq(Returns) /\ AllShown
  BY DEF ShownInv
<1>5. InBetween /\ ~InBetween' /\ Good(em) /\ Len(turns) > 0 => TurnShown(em, Len(turns))
  BY <1>1, LastTurnShown
<1>6. AllShown'
  BY <1>1, <1>3, <1>4, <1>5, AllShownMore
<1> QED
  BY <1>1, <1>4, <1>6 DEF ShownInv

LEMMA StutterShown ==
    ASSUME ShownInv, UNCHANGED allVars
    PROVE  ShownInv'
<1>1. /\ UNCHANGED <<stage, turns, todo, em, live, pc, primary, cursor, chunks, wireMessages>>
      /\ UNCHANGED <<owner, calls, result>>
  BY DEF allVars, vars, runVars
<1>2. \A earlier : StartedInv(earlier) => StartedInv(earlier)'
  BY <1>1 DEF StartedInv, StartsUnder, Allowed, OwnerListed, ReadyStarted
<1>3. \A earlier : ArgsInv(earlier) => ArgsInv(earlier)'
  BY <1>1 DEF ArgsInv, FlushOnly, Backed, StartedHeld, SpokenInv, call, chunk
<1>4. \A earlier : NamesInv(earlier) => NamesInv(earlier)'
  <2>1. \A b : Given(b) => Given(b)'
    BY <1>1 DEF Given, Received, FragmentAt
  <2> QED
    BY <1>1, <2>1 DEF NamesInv
<1>5. \A earlier : CallsBetween(earlier) => CallsBetween(earlier)'
  BY <1>1 DEF CallsBetween, StartsReturned
<1>6. \A t : EarlierThan(t)' = EarlierThan(t) /\ EarlierIDs(t)' = EarlierIDs(t)
  BY <1>1 DEF EarlierThan, EarlierIDs
<1>7. AllShown => AllShown'
  BY <1>1, <1>6 DEF AllShown, TurnShown, InBetween
<1>8. \A earlier : TurnCalls(earlier) => TurnCalls(earlier)'
  BY <1>2, <1>3, <1>4 DEF TurnCalls
<1>9. EarlierThan(Len(turns) + 1)' = EarlierThan(Len(turns) + 1) /\ EarlierThan(Len(turns))' = EarlierThan(Len(turns))
  BY <1>1 DEF EarlierThan, EarlierIDs
<1> QED
  BY <1>1, <1>5, <1>7, <1>8, <1>9 DEF ShownInv, InBetween

(* When a turn succeeds, each of its calls was streamed or is to be shown.  *)
LEMMA StreamedOnWire ==
    ASSUME TurnInv, TurnWireInv, NEW earlier, TurnCalls(earlier), pc = "done", Good(em), live,
           NEW p \in 1..Len(calls.order), NEW c, c = MergedToolCalls(calls.order)[p], Proper(c)
    PROVE  /\ c.id \in em.startedToolCalls
           /\ c.id \in earlier \/ OnWire(em, owner.id, c)
<1> DEFINE b == calls.order[p]
<1>1. b \in Buffers /\ c.id = b.id /\ c.name = b.name /\ c.arguments = b.arguments /\ p \in DOMAIN calls.order
  <2>1. calls.order \in Seq(Buffers)
    BY DEF TurnInv, CallsInv, TablesOK, CallTables
  <2> QED
    BY <2>1 DEF MergedToolCalls
<1>2. b.id \in ToolIDs /\ b.name \in Names
  BY <1>1 DEF Proper, Buffers, ToolID, Name
<1>3. b.started
  BY <1>1 DEF TurnCalls, NamesInv, Proper
<1>4. c.id \in em.startedToolCalls
  BY <1>1, <1>3 DEF TurnCalls, ArgsInv, Backed
<1>5. ASSUME c.id \notin earlier
      PROVE  OnWire(em, owner.id, c)
  <2>1. EmitterInv(em) /\ c.id \in em.endedToolCalls
    <3>1. NoCallOpen(em)
      BY NoneHeld
    <3> QED
      BY <1>4, <3>1 DEF NoCallOpen, TurnWireInv, WireOK
  <2>2. PICK s, t \in DOMAIN em.wire : s < t /\ Starts(em.wire[s], c.id) /\ Ends(em.wire[t], c.id)
    BY <1>1, <1>2, <2>1, EndedCall
  <2>3. em.wire[s].type = "TOOL_CALL_START" /\ em.wire[s].call = c.id
    BY <2>2 DEF Starts
  <2>4. em.wire[s].msg = owner.id
    <3>1. em.wire[s] \in Allowed(earlier)
      BY <2>2, <2>3 DEF TurnCalls, StartedInv, StartsUnder
    <3> QED
      BY <1>5, <2>3, <3>1 DEF Allowed
  <2>5. em.wire[s].name = c.name
    <3>1. em.wire[s] \in OfServer(earlier) \cup StartsOf(calls.order)
      BY <2>2, <2>3 DEF TurnCalls, NamesInv, StartsUnder
    <3>2. PICK q \in 1..Len(calls.order) :
             calls.order[q].id = em.wire[s].call /\ calls.order[q].name = em.wire[s].name
      BY <1>5, <2>3, <3>1 DEF OfServer, StartsOf
    <3>3. IDsClaimed(calls)
      BY DEF TurnInv, CallsInv
    <3>4. b.id # NoID /\ calls.order[q].id = b.id
      BY <1>1, <1>2, <2>3, <3>2, NoIDAssumption
    <3>5. q = p
      BY <3>3, <3>4 DEF IDsClaimed
    <3> QED
      BY <1>1, <3>2, <3>5
  <2>6. Said(em, ArgumentFrames(c.id)) = c.arguments
    <3>1. Spoken(em, b) /\ b.pendingArgs = <<>>
      BY <1>1, <1>3, <1>5 DEF TurnCalls, ArgsInv, SpokenInv, FlushOnly
    <3>2. Said(em, ArgumentFrames(b.id)) \in Seq(Delta)
      BY <2>1, SaidType
    <3>3. b.arguments = Said(em, ArgumentFrames(b.id)) \o <<>>
      BY <1>3, <3>1 DEF Spoken
    <3>4. \A x \in Seq(Delta) : x \o <<>> = x
      OBVIOUS
    <3> QED
      BY <1>1, <3>2, <3>3, <3>4
  <2> QED
    BY <2>2, <2>4, <2>5, <2>6 DEF OnWire
<1> QED
  BY <1>4, <1>5

LEMMA UnstreamedIsEarlier ==
    ASSUME NEW earlier, TurnCalls(earlier), Good(em), ~live, NEW id \in em.startedToolCalls
    PROVE  id \in earlier
BY DEF TurnCalls, ArgsInv, StartedHeld, FlushOnly

LEMMA ToBeShown ==
    ASSUME NEW merged \in Seq(MergedCall), NEW shown, shown = Named(Server(merged) \o Client(merged))
    PROVE  /\ \A k \in DOMAIN shown : \E i \in DOMAIN merged : merged[i] = shown[k]
           /\ \A i \in DOMAIN merged : Proper(merged[i]) => \E k \in DOMAIN shown : shown[k] = merged[i]
<1> DEFINE served == Server(merged)
           rest   == Client(merged)
           all    == served \o rest
<1>1. /\ served \in Seq(MergedCall)
      /\ \A k \in DOMAIN served : \E i \in DOMAIN merged : merged[i] = served[k]
      /\ \A i \in DOMAIN merged : merged[i].id # NoID /\ merged[i].name \in Name \ ClientNames =>
            \E k \in DOMAIN served : served[k] = merged[i]
  <2>1. served = Selected(merged, CallsOf(Name \ ClientNames))
    BY DEF Server
  <2> HIDE DEF served, rest, all
  <2>2. served \in Seq(MergedCall)
    BY <2>1, Sorted
  <2>4. \A k \in DOMAIN served : \E i \in DOMAIN merged : merged[i] = served[k]
    BY <2>1, Sorted
  <2>3. \A i \in DOMAIN merged : merged[i].id # NoID /\ merged[i].name \in Name \ ClientNames =>
            \E k \in DOMAIN served : served[k] = merged[i]
    BY <2>1, Sorted
  <2> QED
    BY <2>2, <2>3, <2>4
<1>2. /\ rest \in Seq(MergedCall)
      /\ \A k \in DOMAIN rest : \E i \in DOMAIN merged : merged[i] = rest[k]
      /\ \A i \in DOMAIN merged : merged[i].id # NoID /\ merged[i].name \in ClientNames =>
            \E k \in DOMAIN rest : rest[k] = merged[i]
  BY Sorted DEF Client
<1> HIDE DEF served, rest
<1>3. /\ all \in Seq(MergedCall) /\ Len(all) = Len(served) + Len(rest)
      /\ Len(served) \in Nat /\ Len(rest) \in Nat
      /\ \A k \in 1..Len(served) : all[k] = served[k]
      /\ \A k \in 1..Len(rest) : all[Len(served) + k] = rest[k]
      /\ \A k \in 1..Len(all) : k > Len(served) => all[k] = rest[k - Len(served)]
  BY <1>1, <1>2
<1>4. \A k \in DOMAIN all : \E i \in DOMAIN merged : merged[i] = all[k]
  <2> SUFFICES ASSUME NEW k \in 1..Len(all) PROVE \E i \in DOMAIN merged : merged[i] = all[k]
    BY <1>3
  <2>1. CASE k <= Len(served)
    BY <1>1, <1>3, <2>1
  <2>2. CASE k > Len(served)
    <3>1. k - Len(served) \in DOMAIN rest
      BY <1>2, <1>3, <2>2
    <3> QED
      BY <1>2, <1>3, <2>2, <3>1
  <2> QED
    BY <1>3, <2>1, <2>2
<1>5. ASSUME NEW i \in DOMAIN merged, Proper(merged[i])
      PROVE  \E k \in DOMAIN all : all[k] = merged[i]
  <2>1. merged[i] \in MergedCall
    OBVIOUS
  <2>2. merged[i].id # NoID /\ merged[i].name \in Name
    BY <1>5, <2>1 DEF MergedCall, Proper
  <2>3. CASE merged[i].name \in ClientNames
    <3>1. PICK k \in DOMAIN rest : rest[k] = merged[i]
      BY <1>2, <2>2, <2>3
    <3>2. k \in 1..Len(rest) /\ Len(served) + k \in DOMAIN all
      BY <1>2, <1>3
    <3> QED
      BY <1>3, <3>1, <3>2
  <2>4. CASE merged[i].name \notin ClientNames
    <3>1. PICK k \in DOMAIN served : served[k] = merged[i]
      BY <1>1, <2>2, <2>4
    <3>2. k \in 1..Len(served) /\ k \in DOMAIN all
      BY <1>1, <1>3
    <3> QED
      BY <1>3, <3>1, <3>2
  <2> QED
    BY <2>3, <2>4
<1>6. shown = Selected(all, CallsOf(Names))
  BY DEF Named, served, rest
<1> HIDE DEF all
<1>7. /\ \A k \in DOMAIN shown : \E i \in DOMAIN all : all[i] = shown[k]
      /\ \A i \in DOMAIN all : all[i].id # NoID /\ all[i].name \in Names =>
            \E k \in DOMAIN shown : shown[k] = all[i]
  <2>1. all \in Seq(MergedCall)
    BY <1>3
  <2>2. \A k \in DOMAIN shown : \E i \in DOMAIN all : all[i] = shown[k]
    BY <1>6, <2>1, Sorted
  <2>3. \A i \in DOMAIN all : all[i].id # NoID /\ all[i].name \in Names =>
            \E k \in DOMAIN shown : shown[k] = all[i]
    BY <1>6, <2>1, Sorted
  <2> QED
    BY <2>2, <2>3
<1>8. ASSUME NEW i \in DOMAIN merged, Proper(merged[i])
      PROVE  \E k \in DOMAIN shown : shown[k] = merged[i]
  <2>1. PICK k \in DOMAIN all : all[k] = merged[i]
    BY <1>5, <1>8
  <2>2. merged[i] \in MergedCall
    OBVIOUS
  <2>3. merged[i].id # NoID /\ merged[i].name \in Names
    BY <1>8, <2>2 DEF MergedCall, Proper, Name
  <2> QED
    BY <1>7, <2>1, <2>3
<1> QED
  BY <1>4, <1>7, <1>8

LEMMA TurnSucceededShown ==
    ASSUME RunInv, ShownInv, TurnSucceeded
    PROVE  ShownInv'
<1> DEFINE merged == result.calls
           last   == [owner |-> owner.id, calls |-> merged]
<1>1. /\ stage = "turn" /\ pc = "done" /\ primary = "none" /\ UNCHANGED <<em, owner, result, live>>
      /\ turns' = Append(turns, last)
      /\ IF live THEN stage' = "answer" /\ todo' = Named(Server(merged))
         ELSE stage' = "propose" /\ todo' = Named(Server(merged) \o Client(merged))
  BY DEF TurnSucceeded, vars
<1>2. TurnInv /\ TurnWireInv /\ TypesReturned
  BY <1>1 DEF RunInv, TurnOK
<1>3. merged \in Seq(MergedCall) /\ owner.id \in Nat /\ EmitterInv(em) /\ last \in Returns
  <2>1. merged \in Seq(MergedCall) /\ owner.id \in Nat
    BY <1>2 DEF TypesReturned, Results, TurnInv, TranscriptInv
  <2> HIDE DEF merged
  <2> QED
    BY <1>2, <2>1 DEF TurnInv, EmitterOK, Returns
<1>4. PICK earlier \in SUBSET ToolIDs : earlier = EarlierThan(Len(turns) + 1) /\ TurnCalls(earlier)
  BY <1>1, TurnEarlier
<1>5. turns \in Seq(Returns) /\ AllShown /\ Len(turns) \in Nat
  BY DEF ShownInv
<1> HIDE DEF last
<1>6. /\ turns' \in Seq(Returns) /\ Len(turns') = Len(turns) + 1 /\ turns'[Len(turns')] = last
      /\ \A s \in 1..Len(turns) : turns'[s] = turns[s]
  BY <1>1, <1>3, <1>5
<1>7. EarlierThan(Len(turns))' = earlier
  <2>1. \A t \in {Len(turns) + 1} : EarlierThan(t)' = EarlierThan(t)
    <3>1. \A t \in {Len(turns) + 1} : t \in 1..(Len(turns) + 1)
      BY <1>5
    <3> QED
      BY <1>5, <1>6, <3>1, EarlierStays
  <2> QED
    BY <1>4, <1>6, <2>1 DEF EarlierThan, EarlierIDs
<1>8. merged = MergedToolCalls(calls.order) /\ IDsClaimed(calls) /\ calls.order \in Seq(Buffers)
  BY <1>1, <1>2, <1>4 DEF TurnCalls, NamesInv, TurnInv, CallsInv, TablesOK, CallTables
<1>9. /\ DOMAIN merged = 1..Len(calls.order)
      /\ \A i \in 1..Len(calls.order) :
            merged[i].id = calls.order[i].id /\ merged[i].name = calls.order[i].name
  BY <1>8 DEF MergedToolCalls
<1> HIDE DEF merged
<1>10. CallsBetween(earlier)'
  <2>1. \A i, j \in DOMAIN merged : merged[i].id = merged[j].id /\ merged[i].id # NoID => i = j
    BY <1>8, <1>9 DEF IDsClaimed
  <2>2. \A k \in DOMAIN todo' : /\ \E i \in DOMAIN merged : merged[i] = todo'[k]
                                /\ stage' = "answer" => todo'[k].name \notin ClientNames
    <3>1. CASE live
      BY <1>1, <1>3, <3>1, ServedCalls
    <3>2. CASE ~live
      BY <1>1, <1>3, <3>2, ToBeShown
    <3> QED
      BY <3>1, <3>2
  <2>3. StartsUnder(em, OfServer(earlier) \cup StartsReturned)
    <3>1. StartsOf(calls.order) \subseteq StartsReturned
      BY <1>9 DEF StartsOf, StartsReturned, merged
    <3> QED
      BY <1>4, <3>1 DEF TurnCalls, NamesInv, StartsUnder
  <2>4. ASSUME Good(em), NEW i \in DOMAIN merged, Proper(merged[i])
        PROVE  IF merged[i].id \in em.startedToolCalls
               THEN merged[i].id \in earlier \/ OnWire(em, owner.id, merged[i])
               ELSE stage' = "propose" /\ \E k \in DOMAIN todo' : todo'[k] = merged[i]
    <3>1. CASE live
      <4>1. i \in 1..Len(calls.order) /\ merged[i] = MergedToolCalls(calls.order)[i]
        BY <1>8, <1>9
      <4> QED
        BY <1>1, <1>2, <1>4, <2>4, <3>1, <4>1, StreamedOnWire
    <3>2. CASE ~live
      <4>1. merged[i].id \in em.startedToolCalls => merged[i].id \in earlier
        BY <1>4, <2>4, <3>2, UnstreamedIsEarlier
      <4>2. \E k \in DOMAIN todo' : todo'[k] = merged[i]
        BY <1>1, <1>3, <2>4, <3>2, ToBeShown
      <4> QED
        BY <1>1, <3>2, <4>1, <4>2
    <3> QED
      BY <3>1, <3>2
  <2>5. StartsUnder(em, OfServer(earlier) \cup StartsReturned)'
    BY <1>1, <2>3 DEF StartsUnder, StartsReturned
  <2>6. merged' = merged
    BY <1>1 DEF merged
  <2>7. Len(turns') > 0 /\ turns'[Len(turns')] = [owner |-> owner'.id, calls |-> merged']
    BY <1>1, <1>5, <1>6, <2>6 DEF last
  <2>8. Good(em') => \A i \in DOMAIN merged' : Proper(merged'[i]) =>
                IF merged'[i].id \in em'.startedToolCalls
                THEN merged'[i].id \in earlier \/ OnWire(em', owner'.id, merged'[i])
                ELSE stage' = "propose" /\ \E k \in DOMAIN todo' : todo'[k] = merged'[i]
    BY <1>1, <2>4, <2>6
  <2> QED
    BY <2>1, <2>2, <2>5, <2>6, <2>7, <2>8 DEF CallsBetween, merged
<1>11. InBetween' /\ ~InBetween /\ stage' \notin {"start", "turn"}
  BY <1>1 DEF InBetween
<1>12. AllShown'
  <2> SUFFICES ASSUME Good(em'), NEW t \in DOMAIN turns', t < Len(turns')
               PROVE  TurnShown(em, t)'
    BY <1>11 DEF AllShown
  <2>1. t \in 1..Len(turns) /\ t \in DOMAIN turns
    BY <1>5, <1>6
  <2>2. TurnShown(em, t)
    BY <1>1, <1>5, <1>11, <2>1 DEF AllShown
  <2>3. EarlierIDs(t)' = EarlierIDs(t)
    BY <1>5, <1>6, <2>1, EarlierStays
  <2> QED
    BY <1>1, <1>6, <2>1, <2>2, <2>3 DEF TurnShown
<1> QED
  BY <1>6, <1>7, <1>10, <1>11, <1>12 DEF ShownInv

LEMMA ShownNext == RunInv /\ ShownInv /\ [RunNext]_allVars => ShownInv'
BY ShownInit, BeginShown, InTurnShown, TurnFailedShown, TurnSucceededShown, ProposeShown,
   AllProposedShown, AnswerShown, NextTurnShown, FinishedShown, StutterShown DEF RunNext, Ended

LEMMA ShownImplies == RunInv /\ ShownInv => CallsShown
<1> SUFFICES ASSUME RunInv, ShownInv, Lossless,
                    NEW t \in DOMAIN turns, t < Len(turns) \/ stage # "propose"
             PROVE  TurnShown(em, t)
  BY DEF CallsShown, TurnShown, OnWire, Proper, Said, DeltasOf, ArgumentsOnWire, wire
<1>1. Good(em)
  BY DEF Good, Lossless
<1>2. turns \in Seq(Returns) /\ AllShown
  BY DEF ShownInv
<1>3. CASE t < Len(turns) \/ ~InBetween
  BY <1>1, <1>2, <1>3 DEF AllShown
<1>4. CASE ~(t < Len(turns)) /\ stage = "answer"
  <2>1. t = Len(turns)
    BY <1>2, <1>4
  <2> QED
    BY <1>1, <1>4, <2>1, LastTurnShown
<1> QED
  BY <1>3, <1>4 DEF InBetween

-----------------------------------------------------------------------------
(***************************************************************************)
(* Results.                                                                *)
(***************************************************************************)

(* Only an answer writes a result.                                          *)
LEMMA OnlyAnswers ==
    ASSUME RunInv, [RunNext]_allVars, ~Answer, stage # "ended"
    PROVE  \E added : More(em', em, added) /\ \A f \in added : f.type # "TOOL_CALL_RESULT"
<1>1. WireOK(em)
  BY DEF RunInv, TurnOK, TurnWireInv, Between, Settled
<1>2. \A f \in TurnFrames : f.type # "TOOL_CALL_RESULT"
  BY DEF TurnFrames, BlockFrames, LifecycleFrames, BlockTypes, CallTypes
<1>3. CASE Begin \/ TurnFailed \/ Finished
  <2>1. PICK type \in RunTypes : em' = Emit(em, OtherFrame(type)) /\ stage # "ended"
    BY <1>3 DEF Begin, TurnFailed, Finished, Answered, RunStarted, RunError, RunFinishedSuccess, RunTypes
  <2>2. /\ OtherFrame(type) \in Frames /\ OtherFrame(type).type \notin BlockTypes \cup CallTypes
        /\ OtherFrame(type).type # "TOOL_CALL_RESULT"
    BY DEF OtherFrame, Frames, FrameTypes, OtherTypes, RunTypes, ToolID, Name, Delta, NoMessage,
           BlockTypes, CallTypes
  <2>3. More(em', em, {OtherFrame(type)})
    BY <1>1, <2>1, <2>2, OtherSent
  <2> QED
    BY <2>2, <2>3
<1>4. CASE InTurn \/ Interrupt
  <2>1. [Next]_vars /\ stage \in {"start", "turn"}
    BY <1>4 DEF InTurn, Interrupt, Next, Cancel, RunInv, Between
  <2>2. More(em', em, TurnFrames)
    BY <2>1, TurnMore DEF RunInv, TurnOK
  <2> QED
    BY <1>2, <2>2
<1>5. CASE Propose
  <2>1. Between /\ em' = Proposed(em, Head(todo), owner.id) /\ todo # <<>>
    BY <1>5 DEF RunInv, Propose, Proposed
  <2>2. Head(todo) \in CallsOf(Names) /\ Settled(em) /\ owner.id \in Nat
    BY <2>1 DEF Between
  <2>3. More(em', em, ProposedFrames(Head(todo), owner.id))
    BY <2>1, <2>2, ProposedSettles
  <2>4. ProposedFrames(Head(todo), owner.id) \subseteq TurnFrames
    BY <2>2, ProposedInTurnFrames
  <2> QED
    BY <1>2, <2>3, <2>4
<1>6. CASE TurnSucceeded \/ AllProposed \/ NextTurn \/ Ended \/ UNCHANGED allVars
  <2>1. em' = em
    BY <1>6 DEF TurnSucceeded, AllProposed, NextTurn, Ended, allVars, vars
  <2>2. em \in EmitterType
    BY <1>1 DEF WireOK, EmitterInv
  <2>3. More(em', em, {})
    BY <2>1, <2>2, MoreNone
  <2> QED
    BY <2>3
<1> QED
  BY <1>3, <1>4, <1>5, <1>6 DEF RunNext

LEMMA EndedStays ==
    ASSUME [RunNext]_allVars, stage = "ended"
    PROVE  UNCHANGED allVars
<1>1. RunNext => Ended
  BY DEF RunNext, Begin, InTurn, Interrupt, TurnFailed, TurnSucceeded, Propose, AllProposed,
         Answer, NextTurn, Answered, Finished
<1> QED
  BY <1>1 DEF Ended

LEMMA FollowMore ==
    ASSUME NEW d, NEW e, NEW added, More(d, e, added), Following(e),
           \A f \in added : f.type # "TOOL_CALL_RESULT"
    PROVE  Following(d)
<1> SUFFICES ASSUME Good(d), NEW k \in DOMAIN d.wire, d.wire[k].type = "TOOL_CALL_RESULT"
             PROVE  Follows(d.wire, k)
  BY DEF Following
<1>1. Good(e) /\ k \in 1..Len(e.wire) /\ k \in DOMAIN e.wire
  <2>1. /\ Len(d.wire) \in Nat /\ DOMAIN d.wire = 1..Len(d.wire)
        /\ Len(e.wire) \in Nat /\ DOMAIN e.wire = 1..Len(e.wire)
    BY WireTyped DEF More
  <2>2. k > Len(e.wire) => d.wire[k] \in added
    BY <2>1 DEF More
  <2> QED
    BY <2>1, <2>2, MoreIsNoBetter
<1>2. \A n \in 1..k : d.wire[n] = e.wire[n]
  BY <1>1 DEF More
<1>3. e.wire[k].type = "TOOL_CALL_RESULT" /\ d.wire[k] = e.wire[k]
  BY <1>1, <1>2
<1>4. PICK s, t \in 1..(k - 1) : /\ Starts(e.wire[s], e.wire[k].call) /\ Ends(e.wire[t], e.wire[k].call)
                                 /\ e.wire[s].name \notin ClientNames
  BY <1>1, <1>3 DEF Following, Follows
<1>5. d.wire[s] = e.wire[s] /\ d.wire[t] = e.wire[t]
  BY <1>1, <1>2, <1>4
<1> QED
  BY <1>3, <1>4, <1>5 DEF Follows

(* The call an answer is for was started, as the server's, and ended.       *)
LEMMA AnsweredCall ==
    ASSUME RunInv, ShownInv, Good(em), stage = "answer", todo # <<>>
    PROVE  \E s, t \in DOMAIN em.wire : /\ Starts(em.wire[s], Head(todo).id)
                                        /\ Ends(em.wire[t], Head(todo).id)
                                        /\ em.wire[s].name \notin ClientNames
<1> DEFINE c == Head(todo)
<1>1. Between /\ InBetween
  BY DEF RunInv, InBetween
<1>2. /\ Settled(em) /\ EmitterInv(em) /\ c \in CallsOf(Names) /\ 1 \in DOMAIN todo /\ todo[1] = c
  BY <1>1 DEF Between, Settled, WireOK
<1>3. c.id \in ToolIDs /\ c.name \in Names
  BY <1>2 DEF CallsOf
<1>4. Proper(c)
  BY <1>3, NoIDAssumption, NoNameAssumption DEF Proper
<1>5. PICK earlier : CallsBetween(earlier)
  BY <1>1, BetweenEarlier
<1> HIDE DEF c
<1>6. PICK j \in DOMAIN result.calls : result.calls[j] = c
  BY <1>2, <1>5 DEF CallsBetween
<1>7. c.name \notin ClientNames
  BY <1>2, <1>5 DEF CallsBetween
<1>8. c.id \in em.startedToolCalls
  BY <1>4, <1>5, <1>6 DEF CallsBetween
<1>9. c.id \in em.endedToolCalls
  BY <1>2, <1>8 DEF Settled, NoCallOpen
<1>10. PICK s, t \in DOMAIN em.wire : s < t /\ Starts(em.wire[s], c.id) /\ Ends(em.wire[t], c.id)
  BY <1>2, <1>3, <1>9, EndedCall
<1>11. em.wire[s].name \notin ClientNames
  <2>1. em.wire[s] \in OfServer(earlier) \cup StartsReturned /\ em.wire[s].call = c.id
    BY <1>5, <1>10 DEF CallsBetween, StartsUnder, Starts
  <2>2. CASE em.wire[s] \in OfServer(earlier)
    BY <2>2 DEF OfServer
  <2>3. CASE em.wire[s] \in StartsReturned
    <3>1. PICK i \in DOMAIN result.calls :
             result.calls[i].id = em.wire[s].call /\ result.calls[i].name = em.wire[s].name
      BY <2>3 DEF StartsReturned
    <3>2. i = j
      BY <1>4, <1>5, <1>6, <2>1, <3>1 DEF CallsBetween, Proper
    <3> QED
      BY <1>6, <1>7, <3>1, <3>2
  <2> QED
    BY <2>1, <2>2, <2>3
<1> QED
  BY <1>10, <1>11 DEF c

LEMMA AnswerFollows ==
    ASSUME RunInv, ShownInv, Following(em), Answer
    PROVE  Following(em')
<1> DEFINE c == Head(todo)
           frame == ResultFrame(nextID, c.id)
<1>1. /\ Between /\ stage = "answer" /\ todo # <<>> /\ em' = ToolResult(em, nextID, c.id, NoDelta)
  BY DEF RunInv, Answer
<1>2. /\ Settled(em) /\ nextID \in Nat /\ c \in CallsOf(Names)
  BY <1>1 DEF Between
<1>3. c.id \in ToolIDs
  BY <1>2 DEF CallsOf
<1> SUFFICES ASSUME Good(em'), NEW k \in DOMAIN em'.wire, em'.wire[k].type = "TOOL_CALL_RESULT"
             PROVE  Follows(em'.wire, k)
  BY DEF Following
<1>4. Good(em) /\ em'.wire = Append(em.wire, frame) /\ em \in EmitterType
  BY <1>1, <1>2, <1>3, ResultSettles DEF Settled, WireOK, EmitterInv
<1>5. em.wire \in Seq(Frames) /\ Len(em.wire) \in Nat /\ DOMAIN em.wire = 1..Len(em.wire)
  BY <1>4, WireTyped
<1>6. frame.call = c.id
  BY DEF ResultFrame
<1> HIDE DEF c, frame
<1>7. /\ k \in 1..(Len(em.wire) + 1) /\ \A n \in 1..Len(em.wire) : em'.wire[n] = em.wire[n]
      /\ em'.wire[Len(em.wire) + 1] = frame
  BY <1>4, <1>5
<1>8. CASE k <= Len(em.wire)
  <2>1. k \in DOMAIN em.wire /\ em.wire[k] = em'.wire[k]
    BY <1>5, <1>7, <1>8
  <2>2. PICK s, t \in 1..(k - 1) : /\ Starts(em.wire[s], em.wire[k].call) /\ Ends(em.wire[t], em.wire[k].call)
                                   /\ em.wire[s].name \notin ClientNames
    BY <1>4, <2>1 DEF Following, Follows
  <2>3. em'.wire[s] = em.wire[s] /\ em'.wire[t] = em.wire[t]
    BY <1>5, <1>7, <1>8, <2>2
  <2> QED
    BY <2>1, <2>2, <2>3 DEF Follows
<1>9. CASE k = Len(em.wire) + 1
  <2>1. PICK s, t \in DOMAIN em.wire : /\ Starts(em.wire[s], c.id) /\ Ends(em.wire[t], c.id)
                                       /\ em.wire[s].name \notin ClientNames
    BY <1>1, <1>4, AnsweredCall DEF c
  <2>2. em'.wire[s] = em.wire[s] /\ em'.wire[t] = em.wire[t] /\ s \in 1..(k - 1) /\ t \in 1..(k - 1)
    BY <1>5, <1>7, <1>9, <2>1
  <2> QED
    BY <1>6, <1>7, <1>9, <2>1, <2>2 DEF Follows
<1> QED
  BY <1>5, <1>7, <1>8, <1>9

LEMMA FollowNext == RunInv /\ ShownInv /\ Following(em) /\ [RunNext]_allVars => Following(em')
<1> SUFFICES ASSUME RunInv, ShownInv, Following(em), [RunNext]_allVars
             PROVE  Following(em')
  OBVIOUS
<1>1. CASE Answer
  BY <1>1, AnswerFollows
<1>2. CASE ~Answer /\ stage # "ended"
  BY <1>2, OnlyAnswers, FollowMore
<1>3. CASE stage = "ended"
  BY <1>3, EndedStays DEF allVars, vars
<1> QED
  BY <1>1, <1>2, <1>3

-----------------------------------------------------------------------------
(***************************************************************************)
(* Message ids.  A step uses the ids in use, and may generate one.         *)
(***************************************************************************)
Usable(id) == id \in InUse \/ (id = nextID /\ nextID' = nextID + 1)

LEMMA NewFrames ==
    ASSUME NEW d, NEW e, NEW added, More(d, e, added), NEW f \in Sent(d)
    PROVE  f \in Sent(e) \/ f \in added
<1>1. PICK k \in DOMAIN d.wire : f = d.wire[k]
  BY DEF Sent
<1>2. DOMAIN d.wire = 1..Len(d.wire) /\ DOMAIN e.wire = 1..Len(e.wire) /\ Len(e.wire) \in Nat
      /\ Len(d.wire) \in Nat
  BY WireTyped DEF More
<1>3. CASE k <= Len(e.wire)
  <2>1. k \in DOMAIN e.wire /\ e.wire[k] = f
    BY <1>1, <1>2, <1>3 DEF More
  <2> QED
    BY <2>1 DEF Sent
<1>4. CASE k > Len(e.wire)
  BY <1>1, <1>2, <1>4 DEF More
<1> QED
  BY <1>2, <1>3, <1>4

(* A step that writes no result and only uses usable ids.                   *)
LEMMA SpentOn ==
    ASSUME SpentInv, nextID \in Nat, nextID' \in {nextID, nextID + 1},
           NEW added, More(em', em, added), \A f \in added : f.type # "TOOL_CALL_RESULT",
           Good(em') => \A id \in InUse' : Usable(id),
           Good(em') => \A f \in Sent(em') : f \in Sent(em) \/ Usable(f.msg)
    PROVE  SpentInv'
<1> DEFINE Result(f) == f.type = "TOOL_CALL_RESULT"
<1> SUFFICES ASSUME Good(em')
             PROVE  /\ InUse' \subseteq 0..(nextID' - 1)
                    /\ \A f \in Sent(em') : f.msg \in 0..(nextID' - 1)
                    /\ \A k \in DOMAIN em'.wire : Result(em'.wire[k]) =>
                          /\ em'.wire[k].msg \notin InUse'
                          /\ \A j \in DOMAIN em'.wire : em'.wire[j].msg = em'.wire[k].msg => j = k
  BY DEF SpentInv
<1>1. Good(em)
  BY MoreIsNoBetter
<1>2. /\ \A id \in InUse : id \in 0..(nextID - 1)
      /\ \A f \in Sent(em) : f.msg \in 0..(nextID - 1)
      /\ \A k \in DOMAIN em.wire : Result(em.wire[k]) =>
            /\ em.wire[k].msg \notin InUse
            /\ \A j \in DOMAIN em.wire : em.wire[j].msg = em.wire[k].msg => j = k
  BY <1>1 DEF SpentInv
<1>3. /\ DOMAIN em'.wire = 1..Len(em'.wire) /\ DOMAIN em.wire = 1..Len(em.wire)
      /\ Len(em.wire) \in Nat /\ Len(em'.wire) \in Nat
      /\ \A k \in 1..Len(em.wire) : em'.wire[k] = em.wire[k]
      /\ \A k \in 1..Len(em'.wire) : k > Len(em.wire) => em'.wire[k] \in added
  <2>1. em \in EmitterType /\ em' \in EmitterType
    BY DEF More
  <2>2. /\ DOMAIN em'.wire = 1..Len(em'.wire) /\ DOMAIN em.wire = 1..Len(em.wire)
        /\ Len(em.wire) \in Nat /\ Len(em'.wire) \in Nat
    BY <2>1, WireTyped
  <2> QED
    BY <2>2 DEF More
<1> HIDE DEF Result
<1>4. \A id : Usable(id) => id \in 0..(nextID' - 1) /\ (id \in InUse \/ id = nextID)
  BY <1>2 DEF Usable
<1>5. \A f \in Sent(em') : f.msg \in 0..(nextID' - 1)
  <2>1. \A n : n \in 0..(nextID - 1) => n \in 0..(nextID' - 1)
    <3>1. \A p \in Nat : \A q \in {p, p + 1} : \A n : n \in 0..(p - 1) => n \in 0..(q - 1)
      OBVIOUS
    <3> QED
      BY <3>1
  <2> QED
    BY <1>2, <1>4, <2>1
<1>6. ASSUME NEW k \in DOMAIN em'.wire, Result(em'.wire[k])
      PROVE  /\ em'.wire[k].msg \notin InUse'
             /\ \A j \in DOMAIN em'.wire : em'.wire[j].msg = em'.wire[k].msg => j = k
  <2>1. k \in DOMAIN em.wire /\ em'.wire[k] = em.wire[k]
    BY <1>3, <1>6 DEF Result
  <2>2. em.wire[k].msg # nextID /\ em.wire[k].msg \notin InUse
    <3>1. em.wire[k] \in Sent(em) /\ Result(em.wire[k])
      BY <1>6, <2>1 DEF Sent
    <3>2. em.wire[k].msg \in 0..(nextID - 1)
      BY <1>2, <3>1
    <3> QED
      BY <1>2, <2>1, <3>1, <3>2
  <2>3. \A id : Usable(id) => em.wire[k].msg # id
    BY <1>4, <2>2
  <2>4. ASSUME NEW j \in DOMAIN em'.wire, em'.wire[j].msg = em'.wire[k].msg
        PROVE  j = k
    <3>1. CASE j <= Len(em.wire)
      <4>1. j \in DOMAIN em.wire /\ em'.wire[j] = em.wire[j]
        BY <1>3, <3>1
      <4> QED
        BY <1>2, <1>6, <2>1, <2>4, <4>1
    <3>2. CASE j > Len(em.wire)
      <4>1. em'.wire[j] \in added /\ em'.wire[j] \in Sent(em')
        BY <1>3, <3>2 DEF Sent
      <4>2. em'.wire[j] \in Sent(em)
        BY <2>1, <2>3, <2>4, <4>1
      <4>3. PICK i \in DOMAIN em.wire : em.wire[i] = em'.wire[j]
        BY <4>2 DEF Sent
      <4>4. i = k
        BY <1>2, <1>6, <2>1, <2>4, <4>3
      <4> QED
        BY <1>6, <2>1, <4>1, <4>3, <4>4 DEF Result
    <3> QED
      BY <1>3, <3>1, <3>2
  <2> QED
    BY <2>1, <2>3, <2>4
<1> QED
  BY <1>4, <1>5, <1>6 DEF Result

(* A step that leaves the emitter alone and uses no id.                     *)
LEMMA SpentQuietly ==
    ASSUME SpentInv, nextID \in Nat, em \in EmitterType, UNCHANGED <<em, nextID>>, InUse' \subseteq InUse
    PROVE  SpentInv'
<1>1. More(em', em, {})
  BY MoreNone
<1>2. \A id \in InUse' : Usable(id)
  BY DEF Usable
<1> QED
  BY <1>1, <1>2, SpentOn

LEMMA BlockIds ==
    /\ \A f \in TextEndFrames : text.open /\ f.msg = text.id
    /\ \A f \in ReasoningEndFrames : reasoning.open /\ f.msg = reasoning.id
    /\ text.open => text.id \in InUse
    /\ reasoning.open => reasoning.id \in InUse
    /\ NoMessage \in InUse /\ owner.id \in InUse
BY DEF TextEndFrames, ReasoningEndFrames, BlockFrame, InUse, OpenIds

LEMMA ReasoningSpent ==
    ASSUME TurnInv, TurnWireInv, SpentInv, ApplyReasoning
    PROVE  SpentInv'
<1>1. PICK closed, opened : ReasoningApplied(closed, opened)
  BY ReasoningStep
<1>2. ReasoningWritten
  <2>1. Good(em) => NoCallOpen(em)
    BY NoneHeld DEF ApplyReasoning
  <2> QED
    BY <2>1, ReasoningWrites DEF TurnWireInv
<1>3. nextID \in Nat /\ nextID' \in {nextID, nextID + 1} /\ UNCHANGED owner
  BY <1>1 DEF ReasoningApplied, TurnInv, BlocksInv
<1>4. ASSUME Good(em')
      PROVE  /\ text' = Closed /\ reasoning'.id = ReasoningID
             /\ Usable(ReasoningID)
  <2>1. ~closed.err
    BY <1>1, <1>4 DEF ReasoningApplied, Good
  <2>2. nextID' = IF reasoning.open THEN nextID ELSE nextID + 1
    BY <1>1, <2>1 DEF ReasoningApplied
  <2> QED
    BY <1>2, <1>4, <2>2, BlockIds DEF ReasoningWritten, ReasoningID, Usable
<1>5. Good(em') => \A id \in InUse' : Usable(id)
  BY <1>3, <1>4, BlockIds DEF InUse, OpenIds, Closed, Usable
<1>6. Good(em') => \A f \in Sent(em') : f \in Sent(em) \/ Usable(f.msg)
  <2> SUFFICES ASSUME Good(em'), NEW f \in Sent(em'), f \notin Sent(em)
               PROVE  Usable(f.msg)
    OBVIOUS
  <2>1. f \in TextEndFrames \/ f \in ReasoningFrames(piece(0))
    BY <1>2 DEF ReasoningWritten
  <2>2. \A g \in ReasoningFrames(piece(0)) : g.msg = ReasoningID
    BY DEF ReasoningFrames, BlockFrame
  <2> QED
    BY <1>4, <2>1, <2>2, BlockIds DEF Usable
<1>7. More(em', em, BlockFrames) /\ \A f \in BlockFrames : f.type # "TOOL_CALL_RESULT"
  BY ReasoningMore DEF BlockFrames, BlockTypes
<1> QED
  BY <1>3, <1>5, <1>6, <1>7, SpentOn

LEMMA TextSpent ==
    ASSUME TurnInv, TurnWireInv, SpentInv, ApplyText
    PROVE  SpentInv'
<1>1. PICK closed, opened : TextApplied(closed, opened)
  BY TextStep
<1>2. TextWritten
  <2>1. Good(em) => NoCallOpen(em)
    BY NoneHeld DEF ApplyText
  <2> QED
    BY <2>1, TextWrites DEF TurnWireInv
<1>3. nextID \in Nat /\ nextID' \in {nextID, nextID + 1} /\ UNCHANGED owner
  BY <1>1 DEF TextApplied, TurnInv, BlocksInv
<1>4. ASSUME Good(em')
      PROVE  /\ reasoning' = Closed /\ text'.id = TextID
             /\ Usable(TextID)
  <2>1. ~closed.err
    BY <1>1, <1>4 DEF TextApplied, Good
  <2>2. nextID' = IF text.open THEN nextID ELSE nextID + 1
    BY <1>1, <2>1 DEF TextApplied
  <2> QED
    BY <1>2, <1>4, <2>2, BlockIds DEF TextWritten, TextID, Usable
<1>5. Good(em') => \A id \in InUse' : Usable(id)
  BY <1>3, <1>4, BlockIds DEF InUse, OpenIds, Closed, Usable
<1>6. Good(em') => \A f \in Sent(em') : f \in Sent(em) \/ Usable(f.msg)
  <2> SUFFICES ASSUME Good(em'), NEW f \in Sent(em'), f \notin Sent(em)
               PROVE  Usable(f.msg)
    OBVIOUS
  <2>1. f \in ReasoningEndFrames \/ f \in TextFrames(piece(0))
    BY <1>2 DEF TextWritten
  <2>2. \A g \in TextFrames(piece(0)) : g.msg = TextID
    BY DEF TextFrames, BlockFrame
  <2> QED
    BY <1>4, <2>1, <2>2, BlockIds DEF Usable
<1>7. More(em', em, BlockFrames) /\ \A f \in BlockFrames : f.type # "TOOL_CALL_RESULT"
  BY TextMore DEF BlockFrames, BlockTypes
<1> QED
  BY <1>3, <1>5, <1>6, <1>7, SpentOn

LEMMA ClosingSpent ==
    ASSUME TurnInv, TurnWireInv, SpentInv, EnsureToolOwner \/ CloseBlocks
    PROVE  SpentInv'
<1>1. BlocksWritten
  BY BlocksWrite DEF TurnWireInv
<1>2. nextID \in Nat /\ text \in Block /\ reasoning \in Block
  BY DEF TurnInv, BlocksInv
<1>3. /\ nextID' \in {nextID, nextID + 1}
      /\ Good(em') => owner' = owner \/ (owner'.id = nextID /\ nextID' = nextID + 1)
  <2>1. CASE EnsureToolOwner
    <3>1. PICK quiet, closed : OwnerEnsured(quiet, closed)
      BY <2>1, OwnerStep
    <3> QED
      BY <3>1 DEF OwnerEnsured
  <2>2. CASE CloseBlocks
    BY <2>2 DEF CloseBlocks
  <2> QED
    BY <2>1, <2>2
<1>4. Good(em') => \A id \in InUse' : Usable(id)
  <2> SUFFICES ASSUME Good(em')
               PROVE  \A id \in InUse' : Usable(id)
    OBVIOUS
  <2>1. text' = Closed /\ reasoning' = Closed
    BY <1>1 DEF BlocksWritten
  <2>2. InUse' = {NoMessage, owner'.id}
    BY <2>1 DEF InUse, OpenIds, Closed
  <2> QED
    BY <1>3, <2>2, BlockIds DEF Usable
<1>5. Good(em') => \A f \in Sent(em') : f \in Sent(em) \/ Usable(f.msg)
  BY <1>1, BlockIds DEF BlocksWritten, Usable
<1>6. More(em', em, BlockFrames) /\ \A f \in BlockFrames : f.type # "TOOL_CALL_RESULT"
  BY ClosingMore DEF BlockFrames, BlockTypes
<1> QED
  BY <1>2, <1>3, <1>4, <1>5, <1>6, SpentOn

LEMMA CallsSpent ==
    ASSUME TurnInv, TurnWireInv, SpentInv, EndCall \/ FlushArg \/ AcceptFragment
    PROVE  SpentInv'
<1>1. EmitterInv(em) /\ nextID \in Nat /\ UNCHANGED <<text, reasoning, owner, nextID>> /\ em \in EmitterType
  BY DEF TurnInv, EmitterOK, BlocksInv, EmitterInv, EndCall, FlushArg, AcceptFragment, blocks
<1>2. PICK id \in ToolID, name \in Name, parent \in Nat, delta \in Delta :
        /\ parent = owner.id
        /\ em' \in {em, ToolStart(em, id, name, parent), ToolArgs(em, id, delta), ToolEnd(em, id)}
  BY ToolHelperCalled DEF ToolCalled
<1> DEFINE added == StartFrames(id, name, parent) \cup CallOnly(id)
<1>3. More(em', em, added)
  <2>1. /\ More(ToolStart(em, id, name, parent), em, StartFrames(id, name, parent))
        /\ More(ToolArgs(em, id, delta), em, CallOnly(id))
        /\ More(ToolEnd(em, id), em, CallOnly(id))
    BY <1>1, ToolsMore
  <2>2. More(em, em, added)
    BY <1>1, MoreNone
  <2>3. /\ More(ToolStart(em, id, name, parent), em, added)
        /\ More(ToolArgs(em, id, delta), em, added) /\ More(ToolEnd(em, id), em, added)
    <3>1. StartFrames(id, name, parent) \subseteq added /\ CallOnly(id) \subseteq added
      OBVIOUS
    <3> HIDE DEF added
    <3>2. More(em, em, CallOnly(id)) /\ More(em, em, StartFrames(id, name, parent))
      BY <1>1, MoreNone
    <3> QED
      BY <2>1, <3>1, <3>2, MoreAndMore
  <2> QED
    BY <1>2, <2>2, <2>3
<1>4. \A f \in added : /\ f.type # "TOOL_CALL_RESULT"
                       /\ f.type \in CallTypes => f.msg \in {NoMessage, owner.id}
  BY <1>2 DEF StartFrames, CallOnly, BlockFrames, BlockTypes, LifecycleFrames, CallTypes, ToolStartFrame
<1>5. Good(em') => \A f \in Sent(em') : f \in Sent(em) \/ Usable(f.msg)
  <2> SUFFICES ASSUME Good(em'), NEW f \in Sent(em'), f \notin Sent(em)
               PROVE  f.msg \in InUse
    BY DEF Usable
  <2>1. Good(em)
    BY <1>3, MoreIsNoBetter
  <2>2. f \in added
    BY <1>3, NewFrames
  <2>3. f \in EndsSent(em) \/ f.type \in CallTypes
    BY <1>1, <1>2, ToolsSend
  <2>4. CASE f \in EndsSent(em)
    BY <2>1, <2>4 DEF EndsSent, BlockFrame, TurnWireInv, TextHeld, ReasoningHeld, Shown, InUse, OpenIds
  <2>5. CASE f.type \in CallTypes
    BY <1>4, <2>2, <2>5, BlockIds
  <2> QED
    BY <2>3, <2>4, <2>5
<1>6. \A n \in InUse' : Usable(n)
  BY <1>1 DEF InUse, OpenIds, Usable
<1> HIDE DEF added
<1> QED
  BY <1>1, <1>3, <1>4, <1>5, <1>6, SpentOn

LEMMA TurnSpent ==
    ASSUME TurnInv, TurnWireInv, SpentInv, [Next]_vars
    PROVE  SpentInv'
<1>1. CASE ApplyReasoning
  BY <1>1, ReasoningSpent
<1>2. CASE ApplyText
  BY <1>2, TextSpent
<1>3. CASE EnsureToolOwner \/ CloseBlocks
  BY <1>3, ClosingSpent
<1>4. CASE EndCall \/ FlushArg \/ AcceptFragment
  BY <1>4, CallsSpent
<1>5. CASE Quiet \/ OpenFails \/ ConcludeEmpty \/ Conclude \/ RefuseFragment \/ UNCHANGED vars
  <2>1. UNCHANGED <<em, nextID, text, reasoning, owner>>
    BY <1>5 DEF Quiet, Cancel, OpenFails, OpenStream, CheckRequest, Recv,
           RecvEOF, RecvError, RecvChunk, RecvKeepAlive, CallsEnded, SkipFragment, FragmentDone,
           ChunkDone, ConcludeEmpty, Conclude, RefuseFragment, request, blocks, vars
  <2>2. nextID \in Nat /\ em \in EmitterType
    BY DEF TurnInv, BlocksInv, EmitterOK, EmitterInv
  <2>3. InUse' \subseteq InUse
    BY <2>1 DEF InUse, OpenIds
  <2> QED
    BY <2>1, <2>2, <2>3, SpentQuietly
<1> QED
  BY <1>1, <1>2, <1>3, <1>4, <1>5 DEF Next, TurnStep, Apply, Finish, Recv, Quiet, Returned

LEMMA SpentInit == RunInit => SpentInv
<1> SUFFICES ASSUME RunInit
             PROVE  SpentInv
  OBVIOUS
<1>1. em.wire = <<>> /\ nextID = 1 /\ text = Closed /\ reasoning = Closed /\ owner = NoOwner
  BY DEF RunInit, Init, NewEmitter
<1>2. Sent(em) = {} /\ DOMAIN em.wire = {}
  BY <1>1 DEF Sent
<1>3. InUse = {NoMessage}
  BY <1>1 DEF InUse, OpenIds, Closed, NoOwner
<1> QED
  BY <1>1, <1>2, <1>3 DEF SpentInv, NoMessage

(* RUN_STARTED, RUN_ERROR and RUN_FINISHED belong to no message.            *)
LEMMA BracketSpent ==
    ASSUME RunInv, SpentInv, Begin \/ TurnFailed \/ Finished
    PROVE  SpentInv'
<1>1. WireOK(em) /\ em \in EmitterType /\ nextID \in Nat
  BY DEF RunInv, TurnOK, TurnInv, BlocksInv, TurnWireInv, Between, Settled, WireOK, EmitterInv,
         Begin, TurnFailed, Finished, Answered
<1>2. UNCHANGED <<text, reasoning, owner, nextID>>
  BY DEF Begin, TurnFailed, Finished, blocks
<1>3. PICK type \in RunTypes : em' = Emit(em, OtherFrame(type))
  BY DEF Begin, TurnFailed, Finished, RunStarted, RunError, RunFinishedSuccess, RunTypes
<1>4. /\ OtherFrame(type) \in Frames /\ OtherFrame(type).type \notin BlockTypes \cup CallTypes
      /\ OtherFrame(type).type # "TOOL_CALL_RESULT" /\ OtherFrame(type).msg = NoMessage
  BY DEF OtherFrame, Frames, FrameTypes, OtherTypes, RunTypes, ToolID, Name, Delta, NoMessage,
         BlockTypes, CallTypes
<1>5. More(em', em, {OtherFrame(type)})
  BY <1>1, <1>3, <1>4, OtherSent
<1>6. \A f \in Sent(em') : f \in Sent(em) \/ Usable(f.msg)
  BY <1>4, <1>5, NewFrames, BlockIds DEF Usable
<1>7. \A id \in InUse' : Usable(id)
  BY <1>2 DEF InUse, OpenIds, Usable
<1> QED
  BY <1>1, <1>2, <1>4, <1>5, <1>6, <1>7, SpentOn

(* A call shown after its turn is shown under the owner of the turn.        *)
LEMMA ProposeSpent ==
    ASSUME RunInv, SpentInv, Propose
    PROVE  SpentInv'
<1> DEFINE c == Head(todo)
<1>1. /\ Between /\ todo # <<>> /\ em' = Proposed(em, c, owner.id)
      /\ UNCHANGED <<text, reasoning, owner, nextID>>
  BY DEF RunInv, Propose, Proposed, blocks
<1>2. Settled(em) /\ nextID \in Nat /\ owner.id \in Nat /\ c \in CallsOf(Names)
  BY <1>1 DEF Between
<1>3. /\ More(em', em, ProposedFrames(c, owner.id)) /\ CallFramesOnly(em', em)
      /\ Good(em') => Good(em)
  BY <1>1, <1>2, ProposedSettles
<1>4. \A f \in ProposedFrames(c, owner.id) :
          /\ f.type # "TOOL_CALL_RESULT"
          /\ f.type \in CallTypes => f.msg \in {NoMessage, owner.id}
  BY DEF ProposedFrames, StartFrames, CallOnly, BlockFrames, BlockTypes, LifecycleFrames, CallTypes,
         ToolStartFrame
<1> HIDE DEF c
<1>5. Good(em') => \A f \in Sent(em') : f \in Sent(em) \/ Usable(f.msg)
  <2> SUFFICES ASSUME Good(em'), NEW f \in Sent(em'), f \notin Sent(em)
               PROVE  f.msg \in InUse
    BY DEF Usable
  <2>1. Forgot(em)
    BY <1>2, <1>3 DEF Settled
  <2>2. f.type \in CallTypes
    BY <1>3, <2>1 DEF CallFramesOnly
  <2>3. f \in ProposedFrames(c, owner.id)
    BY <1>3, NewFrames
  <2> QED
    BY <1>4, <2>2, <2>3, BlockIds
<1>6. \A id \in InUse' : Usable(id)
  BY <1>1 DEF InUse, OpenIds, Usable
<1> QED
  BY <1>1, <1>2, <1>3, <1>4, <1>5, <1>6, SpentOn

(* The id of a result is generated for it, and nothing keeps it.            *)
LEMMA AnswerSpent ==
    ASSUME RunInv, SpentInv, Answer
    PROVE  SpentInv'
<1> DEFINE c == Head(todo)
           frame == ResultFrame(nextID, c.id)
           N == Len(em.wire)
<1>1. /\ Between /\ todo # <<>> /\ em' = ToolResult(em, nextID, c.id, NoDelta)
      /\ nextID' = nextID + 1 /\ UNCHANGED <<text, reasoning, owner>>
  BY DEF RunInv, Answer
<1>2. Settled(em) /\ nextID \in Nat /\ c.id \in ToolIDs
  <2>1. Settled(em) /\ nextID \in Nat /\ c \in CallsOf(Names)
    BY <1>1 DEF Between
  <2> QED
    BY <2>1 DEF CallsOf
<1>3. InUse' = InUse
  BY <1>1 DEF InUse, OpenIds
<1>4. SUFFICES ASSUME Good(em')
               PROVE  /\ InUse \subseteq 0..nextID
                      /\ \A f \in Sent(em') : f.msg \in 0..nextID
                      /\ \A k \in DOMAIN em'.wire : em'.wire[k].type = "TOOL_CALL_RESULT" =>
                            /\ em'.wire[k].msg \notin InUse
                            /\ \A j \in DOMAIN em'.wire : em'.wire[j].msg = em'.wire[k].msg => j = k
  <2>1. nextID' - 1 = nextID
    BY <1>1, <1>2
  <2> QED
    BY <1>3, <2>1 DEF SpentInv
<1>5. Good(em) /\ em'.wire = Append(em.wire, frame) /\ em \in EmitterType
  BY <1>1, <1>2, <1>4, ResultSettles DEF Settled, WireOK, EmitterInv
<1>6. em.wire \in Seq(Frames) /\ N \in Nat /\ DOMAIN em.wire = 1..N
  BY <1>5, WireTyped
<1>7. frame.msg = nextID
  BY DEF ResultFrame
<1> HIDE DEF c, frame
<1>8. /\ DOMAIN em'.wire = 1..(N + 1) /\ \A n \in 1..N : em'.wire[n] = em.wire[n]
      /\ em'.wire[N + 1] = frame
  BY <1>5, <1>6
<1>9. /\ \A id \in InUse : id \in 0..(nextID - 1)
      /\ \A n \in 1..N : em.wire[n].msg \in 0..(nextID - 1)
      /\ \A k \in 1..N : em.wire[k].type = "TOOL_CALL_RESULT" =>
            /\ em.wire[k].msg \notin InUse
            /\ \A j \in 1..N : em.wire[j].msg = em.wire[k].msg => j = k
  BY <1>5, <1>6 DEF SpentInv, Sent
<1> HIDE DEF N
<1>10. nextID \notin InUse /\ \A n \in 1..N : em.wire[n].msg # nextID
  BY <1>2, <1>9
<1>11. \A k \in 1..(N + 1) : (k \in 1..N /\ em'.wire[k] = em.wire[k]) \/ (k = N + 1 /\ em'.wire[k] = frame)
  BY <1>6, <1>8
<1>12. InUse \subseteq 0..nextID
  BY <1>2, <1>9
<1>13. \A f \in Sent(em') : f.msg \in 0..nextID
  <2>1. \A k \in 1..(N + 1) : em'.wire[k].msg \in 0..nextID
    BY <1>2, <1>7, <1>9, <1>11
  <2> QED
    BY <1>8, <2>1 DEF Sent
<1>14. ASSUME NEW k \in 1..(N + 1), em'.wire[k].type = "TOOL_CALL_RESULT"
       PROVE  /\ em'.wire[k].msg \notin InUse
              /\ \A j \in 1..(N + 1) : em'.wire[j].msg = em'.wire[k].msg => j = k
  BY <1>7, <1>9, <1>10, <1>11, <1>14
<1> QED
  BY <1>8, <1>12, <1>13, <1>14

LEMMA SpentNext == RunInv /\ SpentInv /\ [RunNext]_allVars => SpentInv'
<1> SUFFICES ASSUME RunInv, SpentInv, [RunNext]_allVars
             PROVE  SpentInv'
  OBVIOUS
<1>1. CASE Begin \/ TurnFailed \/ Finished
  BY <1>1, BracketSpent
<1>2. CASE InTurn \/ Interrupt
  <2>1. [Next]_vars /\ stage \in {"start", "turn"}
    BY <1>2 DEF InTurn, Interrupt, Next, Cancel, RunInv, Between
  <2>2. TurnInv /\ TurnWireInv
    BY <2>1 DEF RunInv, TurnOK
  <2> QED
    BY <2>1, <2>2, TurnSpent
<1>3. CASE Propose
  BY <1>3, ProposeSpent
<1>4. CASE Answer
  BY <1>4, AnswerSpent
<1>5. CASE TurnSucceeded \/ AllProposed \/ NextTurn
  <2>1. nextID \in Nat /\ em \in EmitterType
    BY <1>5 DEF TurnSucceeded, AllProposed, NextTurn, Answered, RunInv, TurnOK, TurnInv, BlocksInv,
                EmitterOK, Between, Settled, WireOK, EmitterInv
  <2>2. UNCHANGED <<em, nextID>>
    BY <1>5 DEF TurnSucceeded, AllProposed, NextTurn, vars, blocks
  <2>3. InUse' \subseteq InUse
    <3>1. CASE NextTurn
      BY <3>1 DEF NextTurn, InUse, OpenIds, Closed, NoOwner
    <3>2. CASE TurnSucceeded \/ AllProposed
      BY <3>2 DEF TurnSucceeded, AllProposed, InUse, OpenIds, vars, blocks
    <3> QED
      BY <1>5, <3>1, <3>2
  <2> QED
    BY <2>1, <2>2, <2>3, SpentQuietly
<1>6. CASE Ended \/ UNCHANGED allVars
  <2>1. UNCHANGED <<em, nextID, text, reasoning, owner>>
    BY <1>6 DEF Ended, allVars, vars, blocks
  <2> QED
    BY <2>1 DEF SpentInv, InUse, OpenIds, Sent, Good
<1> QED
  BY <1>1, <1>2, <1>3, <1>4, <1>5, <1>6 DEF RunNext

-----------------------------------------------------------------------------
(* A client that missed no frame finds every call a turn returned to the    *)
(* application on the wire, started under the owner of that turn and ended, *)
(* with the arguments the application was given, whether applyToolCallDelta *)
(* streamed it live or it was proposed after the turn.  Calls whose id an   *)
(* earlier turn used are excepted: startedToolCalls lasts for the run, and  *)
(* the emitter skips them.                                                  *)
THEOREM CallsAreShown == RunSpec => []CallsShown
  BY RunInitInv, RunNextInv, ShownInit, ShownNext, ShownImplies, PTL DEF RunSpec

(* A tool result (ToolResult, ClassifyToolCalls) reaches such a client      *)
(* after the end of the call it answers, is never for a tool the client     *)
(* brought, and has a message id that no other frame carries.               *)
THEOREM ResultsComeAfterCalls == RunSpec => []ResultsFollowCalls
<1>1. RunInit => Following(em)
  BY DEF RunInit, Init, NewEmitter, Following
<1>2. Following(em) /\ SpentInv => ResultsFollowCalls
  <2> SUFFICES ASSUME Following(em), SpentInv, Lossless, NEW k \in DOMAIN wire,
                      wire[k].type = "TOOL_CALL_RESULT"
               PROVE  /\ \E s, e \in 1..(k - 1) :
                           /\ Starts(wire[s], wire[k].call) /\ Ends(wire[e], wire[k].call)
                           /\ wire[s].name \notin ClientNames
                      /\ \A j \in DOMAIN wire : wire[j].msg = wire[k].msg => j = k
    BY DEF ResultsFollowCalls
  <2>1. Good(em) /\ wire = em.wire
    BY DEF Lossless, Good, wire
  <2>2. Follows(em.wire, k)
    BY <2>1 DEF Following
  <2>3. \A j \in DOMAIN wire : wire[j].msg = wire[k].msg => j = k
    BY <2>1 DEF SpentInv
  <2> QED
    BY <2>1, <2>2, <2>3 DEF Follows
<1> DEFINE Followed == Following(em)
<1>3. RunInit => Followed
  BY <1>1
<1>4. RunInv /\ ShownInv /\ Followed /\ [RunNext]_allVars => Followed'
  BY FollowNext DEF Following, Good, Follows
<1>5. Followed /\ SpentInv => ResultsFollowCalls
  BY <1>2
<1> HIDE DEF Followed
<1> QED
  BY <1>3, <1>4, <1>5, RunInitInv, RunNextInv, ShownInit, ShownNext, SpentInit, SpentNext, PTL DEF RunSpec
=============================================================================
