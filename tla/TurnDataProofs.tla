---------------------------- MODULE TurnDataProofs ----------------------------
(***************************************************************************)
(* What the client read against what the turn returns, for every value of  *)
(* the constants: the content of the messages in the transcript and the    *)
(* arguments of the tool calls are what the frames on the wire say.  And   *)
(* that StreamTurn implements TurnLog: its initial states are initial      *)
(* states of the log, and each of its steps, from a state of TurnInv, is a *)
(* step of the log or leaves it alone.                                     *)
(***************************************************************************)
EXTENDS TurnWireProofs, TurnRefinement

(***************************************************************************)
(* What the frames of a set say on an emitter's wire, and how one emitter  *)
(* continues another without saying more of it.                            *)
(***************************************************************************)
Said(e, S) == LET sent == Selected(e.wire, S) IN [i \in DOMAIN sent |-> sent[i].delta]

Continues(d, e, S) ==
    /\ EmitterInv(d)
    /\ (e.err => d.err) /\ (e.encErr => d.encErr)
    /\ Sent(e) \subseteq Sent(d)
    /\ Said(d, S) = Said(e, S)

LEMMA SaidAppend ==
    ASSUME NEW e \in EmitterType, NEW frame \in Frames, NEW r, NEW S
    PROVE  /\ r.wire = e.wire => Said(r, S) = Said(e, S)
           /\ r.wire = Append(e.wire, frame) =>
                  Said(r, S) = IF frame \in S THEN Append(Said(e, S), frame.delta) ELSE Said(e, S)
<1>1. e.wire \in Seq(Frames)
  BY DEF EmitterType
<1>2. ASSUME r.wire = Append(e.wire, frame)
      PROVE  Said(r, S) = IF frame \in S THEN Append(Said(e, S), frame.delta) ELSE Said(e, S)
  <2> DEFINE sent == Selected(e.wire, S)
             more == Selected(r.wire, S)
  <2>1. sent \in Seq(Frames)
    BY <1>1, SelectedElements
  <2>2. more = IF frame \in S THEN Append(sent, frame) ELSE sent
    <3>1. Selected(Append(e.wire, frame), S) = IF frame \in S THEN Append(sent, frame) ELSE sent
      BY <1>1, SelectedAppend
    <3>2. more = Selected(Append(e.wire, frame), S)
      BY <1>2
    <3> QED
      BY <3>1, <3>2
  <2>3. /\ Said(e, S) = [i \in DOMAIN sent |-> sent[i].delta]
        /\ Said(r, S) = [i \in DOMAIN more |-> more[i].delta]
    BY DEF Said
  <2> HIDE DEF sent, more
  <2>4. CASE frame \notin S
    BY <2>2, <2>3, <2>4
  <2>5. CASE frame \in S
    <3> DEFINE n == Len(sent)
    <3>1. /\ n \in Nat /\ DOMAIN sent = 1..n /\ DOMAIN more = 1..(n + 1)
          /\ more[n + 1] = frame /\ \A i \in 1..n : more[i] = sent[i]
      BY <2>1, <2>2, <2>5
    <3> DEFINE said == [i \in 1..n |-> sent[i].delta]
    <3>2. said \in Seq(Delta) /\ Len(said) = n
      <4>1. ASSUME NEW i \in 1..n PROVE sent[i].delta \in Delta
        <5>1. sent[i] \in Frames
          BY <2>1, <3>1
        <5> QED
          BY <5>1 DEF Frames
      <4> QED
        BY <3>1, <4>1
    <3>3. /\ DOMAIN Append(said, frame.delta) = 1..(n + 1)
          /\ \A i \in 1..(n + 1) :
                Append(said, frame.delta)[i] = IF i = n + 1 THEN frame.delta ELSE said[i]
          /\ Append(said, frame.delta) = [i \in 1..(n + 1) |-> Append(said, frame.delta)[i]]
      BY <3>1, <3>2
    <3>4. \A i \in 1..(n + 1) : more[i].delta = IF i = n + 1 THEN frame.delta ELSE said[i]
      BY <3>1
    <3> HIDE DEF n, said
    <3>5. [i \in 1..(n + 1) |-> more[i].delta] = Append(said, frame.delta)
      BY <3>3, <3>4
    <3> QED
      BY <2>3, <2>5, <3>1, <3>5 DEF said
  <2> QED
    BY <2>4, <2>5
<1> QED
  BY <1>2 DEF Said

(* Nothing is said of a set none of whose frames was written. *)
LEMMA SaidNothing ==
    ASSUME NEW e \in EmitterType, NEW S, \A f \in Sent(e) : f \notin S
    PROVE  Said(e, S) = <<>>
<1> DEFINE sent == Selected(e.wire, S)
<1>1. e.wire \in Seq(Frames)
  BY DEF EmitterType
<1>2. /\ sent \in Seq(Frames)
      /\ \A i \in DOMAIN sent : sent[i] \in S /\ \E n \in DOMAIN e.wire : sent[i] = e.wire[n]
  BY <1>1, SelectedElements
<1>3. DOMAIN sent = {}
  BY <1>2 DEF Sent
<1>4. Said(e, S) = [i \in DOMAIN sent |-> sent[i].delta]
  BY DEF Said
<1> HIDE DEF sent
<1>5. Said(e, S) = [i \in {} |-> sent[i].delta]
  BY <1>3, <1>4
<1> QED
  BY <1>5

LEMMA ContinuesOn ==
    ASSUME NEW c, NEW d, NEW e, NEW S, Continues(c, d, S), Continues(d, e, S)
    PROVE  Continues(c, e, S)
  BY DEF Continues

LEMMA ContinuesItself ==
    ASSUME NEW e, NEW S, EmitterInv(e)
    PROVE  Continues(e, e, S)
  BY DEF Continues

(* An emitter that made the wire of one Emit.                               *)
LEMMA EmitContinues ==
    ASSUME NEW e, EmitterInv(e), NEW frame \in Frames, NEW S, NEW r, EmitterInv(r),
           r.wire = Emit(e, frame).wire, r.err = Emit(e, frame).err,
           r.encErr = Emit(e, frame).encErr
    PROVE  /\ frame \notin S => Continues(r, e, S)
           /\ r.wire = e.wire \/ (r.wire = Append(e.wire, frame) /\ ~r.err)
           /\ (e.err => r.err) /\ (e.encErr => r.encErr) /\ Sent(e) \subseteq Sent(r)
           /\ Good(r) => frame \in Sent(r) /\ r.wire = Append(e.wire, frame)
<1> DEFINE s == Emit(e, frame)
<1>1. e \in EmitterType /\ e.wire \in Seq(Frames)
  BY DEF EmitterInv, EmitterType
<1>2. e.err => s = e
  BY DEF Emit
<1>3. IF Wrote(e, frame)
      THEN s.wire = Append(e.wire, frame) /\ ~e.err /\ ~s.err /\ (s.encErr <=> e.encErr)
      ELSE s.wire = e.wire /\ ~Good(s) /\ (e.err => s.err) /\ (e.encErr => s.encErr)
  BY <1>1, EmitFact
<1> HIDE DEF s
<1>4. r.wire = s.wire /\ r.err = s.err /\ r.encErr = s.encErr
  BY DEF s
<1>5. (e.err => r.err) /\ (e.encErr => r.encErr)
  BY <1>3, <1>4
<1>6. r.wire = e.wire \/ (r.wire = Append(e.wire, frame) /\ ~r.err)
  BY <1>3, <1>4
<1>7. Good(r) => r.wire = Append(e.wire, frame)
  BY <1>3, <1>4 DEF Good
<1>8. r.wire = Append(e.wire, frame) => Sent(r) = Sent(e) \cup {frame}
  BY <1>1, AppendFacts DEF Sent
<1>9. r.wire = e.wire => Sent(r) = Sent(e)
  BY DEF Sent
<1>10. frame \notin S => Said(r, S) = Said(e, S)
  BY <1>1, <1>6, SaidAppend
<1> QED
  BY <1>5, <1>6, <1>7, <1>8, <1>9, <1>10 DEF Continues

-----------------------------------------------------------------------------
(* The helpers: only a content helper says something, and what its frame    *)
(* carries.  Otherwise a helper continues the emitter.                      *)
ContentTypes == {"TEXT_CONTENT", "REASONING_CONTENT"}
Contents(S)  == \A f \in S : f.type \in ContentTypes \cup {"TOOL_CALL_ARGS"}

Says(r, e, frame, S) ==
    /\ EmitterInv(r)
    /\ frame \notin S \/ r.err => Continues(r, e, S)
    /\ (e.err => r.err) /\ (e.encErr => r.encErr) /\ Sent(e) \subseteq Sent(r)
    /\ Good(r) => /\ frame \in Sent(r)
                  /\ frame \in S => Said(r, S) = Append(Said(e, S), frame.delta)

LEMMA EmitSays ==
    ASSUME NEW e, EmitterInv(e), NEW frame \in Frames, NEW S, NEW r, EmitterInv(r),
           r.wire = Emit(e, frame).wire, r.err = Emit(e, frame).err,
           r.encErr = Emit(e, frame).encErr
    PROVE  Says(r, e, frame, S)
<1>1. /\ frame \notin S => Continues(r, e, S)
      /\ r.wire = e.wire \/ (r.wire = Append(e.wire, frame) /\ ~r.err)
      /\ (e.err => r.err) /\ (e.encErr => r.encErr) /\ Sent(e) \subseteq Sent(r)
      /\ Good(r) => frame \in Sent(r) /\ r.wire = Append(e.wire, frame)
  BY EmitContinues
<1>2. e \in EmitterType
  BY DEF EmitterInv
<1>3. r.err => Said(r, S) = Said(e, S)
  BY <1>1, <1>2, SaidAppend
<1>4. Good(r) /\ frame \in S => Said(r, S) = Append(Said(e, S), frame.delta)
  BY <1>1, <1>2, SaidAppend
<1> QED
  BY <1>1, <1>3, <1>4 DEF Says, Continues

LEMMA BlocksSay ==
    ASSUME NEW e, EmitterInv(e), NEW id \in Nat, NEW delta \in Delta, delta # NoDelta, NEW S
    PROVE  /\ Says(TextStart(e, id), e, BlockFrame("TEXT_START", id, NoDelta), S)
           /\ Says(TextContent(e, id, delta), e, BlockFrame("TEXT_CONTENT", id, delta), S)
           /\ Says(TextEnd(e, id), e, BlockFrame("TEXT_END", id, NoDelta), S)
           /\ Says(ReasoningStart(e, id), e, BlockFrame("REASONING_START", id, NoDelta), S)
           /\ Says(ReasoningMessageStart(e, id), e,
                   BlockFrame("REASONING_MESSAGE_START", id, NoDelta), S)
           /\ Says(ReasoningContent(e, id, delta), e, BlockFrame("REASONING_CONTENT", id, delta), S)
           /\ Says(ReasoningMessageEnd(e, id), e, BlockFrame("REASONING_MESSAGE_END", id, NoDelta), S)
           /\ Says(ReasoningEnd(e, id), e, BlockFrame("REASONING_END", id, NoDelta), S)
<1>1. ASSUME NEW type \in BlockTypes, NEW d \in Delta, NEW r, EmitterInv(r), SentAs(type, id, d, r, e)
      PROVE  Says(r, e, BlockFrame(type, id, d), S)
  <2>1. BlockFrame(type, id, d) \in Frames
    BY FramesAreFrames DEF Neutral
  <2> QED
    BY <1>1, <2>1, EmitSays DEF SentAs
<1>2. {"TEXT_START", "TEXT_CONTENT", "TEXT_END", "REASONING_START", "REASONING_MESSAGE_START",
       "REASONING_CONTENT", "REASONING_MESSAGE_END", "REASONING_END"} = BlockTypes
  BY DEF BlockTypes
<1>3. /\ EmitterInv(TextStart(e, id)) /\ EmitterInv(TextContent(e, id, delta))
      /\ EmitterInv(TextEnd(e, id))
      /\ EmitterInv(ReasoningStart(e, id)) /\ EmitterInv(ReasoningMessageStart(e, id))
      /\ EmitterInv(ReasoningContent(e, id, delta))
      /\ EmitterInv(ReasoningMessageEnd(e, id)) /\ EmitterInv(ReasoningEnd(e, id))
  BY BlockHelpers
<1>4. /\ SentAs("TEXT_START", id, NoDelta, TextStart(e, id), e)
      /\ SentAs("TEXT_CONTENT", id, delta, TextContent(e, id, delta), e)
      /\ SentAs("TEXT_END", id, NoDelta, TextEnd(e, id), e)
      /\ SentAs("REASONING_START", id, NoDelta, ReasoningStart(e, id), e)
      /\ SentAs("REASONING_MESSAGE_START", id, NoDelta, ReasoningMessageStart(e, id), e)
      /\ SentAs("REASONING_CONTENT", id, delta, ReasoningContent(e, id, delta), e)
      /\ SentAs("REASONING_MESSAGE_END", id, NoDelta, ReasoningMessageEnd(e, id), e)
      /\ SentAs("REASONING_END", id, NoDelta, ReasoningEnd(e, id), e)
  BY HelpersSend
<1> QED
  BY <1>1, <1>2, <1>3, <1>4, NoDeltaType

LEMMA CloseContinues ==
    ASSUME NEW e, EmitterInv(e), NEW S, Contents(S)
    PROVE  Continues(CloseOpenBlocks(e), e, S)
<1>1. ASSUME NEW f, EmitterInv(f)
      PROVE  /\ Continues(CloseOpenText(f), f, S)
             /\ Continues(CloseOpenReasoningMessage(f), f, S)
             /\ Continues(CloseOpenReasoning(f), f, S)
  <2>1. /\ f \in EmitterType /\ f.openTextID \in Nat /\ f.openReasoningID \in Nat
        /\ f.openReasoningMessageID \in Nat
    BY <1>1 DEF EmitterInv, EmitterType
  <2>2. ASSUME NEW type \in {"TEXT_END", "REASONING_END", "REASONING_MESSAGE_END"},
               NEW id \in Nat, NEW g, EmitterInv(g), g.wire = f.wire, g.err = f.err,
               g.encErr = f.encErr
        PROVE  Continues(Emit(g, BlockFrame(type, id, NoDelta)), f, S)
    <3> DEFINE frame == BlockFrame(type, id, NoDelta)
    <3>1. frame \in Frames /\ frame.type = type
      BY FramesAreFrames, NoDeltaType DEF Neutral, BlockTypes, BlockFrame
    <3>2. EmitterInv(Emit(g, frame))
      BY <2>2, FramesAreFrames, EmitNeutral, NoDeltaType DEF BlockTypes
    <3>3. frame \notin S
      BY <3>1 DEF Contents, ContentTypes
    <3>4. Says(Emit(g, frame), g, frame, S)
      BY <2>2, <3>1, <3>2, EmitSays
    <3> HIDE DEF frame
    <3>5. Continues(Emit(g, frame), g, S)
      BY <3>3, <3>4 DEF Says
    <3> QED
      BY <2>2, <3>5 DEF Continues, Said, Sent, frame
  <2>3. /\ EmitterInv([f EXCEPT !.openTextID = NoMessage])
        /\ EmitterInv([f EXCEPT !.openReasoningID = NoMessage])
        /\ EmitterInv([f EXCEPT !.openReasoningMessageID = NoMessage])
    BY <1>1, BlockFieldsAreFree, NoDeltaType
  <2>4. \A g \in {[f EXCEPT !.openTextID = NoMessage], [f EXCEPT !.openReasoningID = NoMessage],
                  [f EXCEPT !.openReasoningMessageID = NoMessage]} :
            g.wire = f.wire /\ g.err = f.err /\ g.encErr = f.encErr
    BY <2>1 DEF EmitterType
  <2> QED
    BY <1>1, <2>1, <2>2, <2>3, <2>4, ContinuesItself
       DEF CloseOpenText, CloseOpenReasoningMessage, CloseOpenReasoning
<1>2. EmitterInv(CloseOpenText(e)) /\ EmitterInv(CloseOpenReasoningMessage(CloseOpenText(e)))
  BY CloseOneKind
<1> QED
  BY <1>1, <1>2, ContinuesOn DEF CloseOpenBlocks

LEMMA ToolsSay ==
    ASSUME NEW e, EmitterInv(e), NEW id \in ToolID, NEW name \in Name, NEW parent \in Nat,
           NEW delta \in Delta, NEW S, Contents(S)
    PROVE  LET frame == CallFrame("TOOL_CALL_ARGS", id, delta)
               r     == ToolArgs(e, id, delta)
           IN  /\ Continues(ToolStart(e, id, name, parent), e, S)
               /\ Continues(ToolEnd(e, id), e, S)
               /\ frame \notin S => Continues(r, e, S)
               /\ (e.err => r.err) /\ (e.encErr => r.encErr)
               /\ /\ Good(r) /\ frame \in S /\ id # NoID /\ delta # NoDelta
                  /\ id \in e.startedToolCalls /\ id \notin e.endedToolCalls
                  => Said(r, S) = Append(Said(e, S), delta)
<1> DEFINE closed == CloseOpenBlocks(e)
           start  == ToolStartFrame(id, name, parent)
           end    == CallFrame("TOOL_CALL_END", id, NoDelta)
           frame  == CallFrame("TOOL_CALL_ARGS", id, delta)
           begun  == ToolStart(e, id, name, parent)
           ended  == ToolEnd(e, id)
           r      == ToolArgs(e, id, delta)
<1>1. EmitterInv(closed) /\ Continues(closed, e, S) /\ Continues(e, e, S)
  BY CloseContinues, CloseKeepsInv, ContinuesItself
<1>2. EmitterInv(begun) /\ EmitterInv(ended) /\ EmitterInv(r)
  BY ToolStartKeepsInv, ToolEndKeepsInv, ToolArgsKeepsInv
<1>3. /\ start \in Frames /\ start \notin S
      /\ end \in Frames /\ end \notin S
      /\ frame \in Frames /\ frame.delta = delta
  BY ToolFramesAreFrames DEF ToolStartFrame, CallFrame, Contents, ContentTypes
<1>4. Continues(begun, e, S)
  <2>1. CASE begun \in {e, closed}
    BY <1>1, <2>1
  <2>2. CASE begun \notin {e, closed}
    <3>1. /\ begun.wire = Emit(closed, start).wire /\ begun.err = Emit(closed, start).err
          /\ begun.encErr = Emit(closed, start).encErr
      BY <1>1, <2>2 DEF ToolStart, Emit, EmitterInv, EmitterType
    <3> HIDE DEF begun, closed, start
    <3>2. Continues(begun, closed, S)
      BY <1>1, <1>2, <1>3, <3>1, EmitContinues
    <3> QED
      BY <1>1, <3>2, ContinuesOn
  <2> QED
    BY <2>1, <2>2
<1>5. Continues(ended, e, S)
  <2>1. CASE ended = e
    BY <1>1, <2>1
  <2>2. CASE ended # e
    <3>1. /\ ended.wire = Emit(closed, end).wire /\ ended.err = Emit(closed, end).err
          /\ ended.encErr = Emit(closed, end).encErr
      BY <1>1, <2>2 DEF ToolEnd, Emit, EmitterInv, EmitterType
    <3> HIDE DEF ended, closed, end
    <3>2. Continues(ended, closed, S)
      BY <1>1, <1>2, <1>3, <3>1, EmitContinues
    <3> QED
      BY <1>1, <3>2, ContinuesOn
  <2> QED
    BY <2>1, <2>2
<1>6. CASE id = NoID \/ delta = NoDelta \/ ~ToolStarted(e, id) \/ ToolEnded(e, id)
  <2>1. r = e
    BY <1>6 DEF ToolArgs
  <2> QED
    BY <1>1, <1>4, <1>5, <1>6, <2>1 DEF ToolStarted, ToolEnded
<1>7. CASE ~(id = NoID \/ delta = NoDelta \/ ~ToolStarted(e, id) \/ ToolEnded(e, id))
  <2>1. r = Emit(closed, frame)
    BY <1>7 DEF ToolArgs
  <2> HIDE DEF r, closed, frame
  <2>2. Says(r, closed, frame, S)
    BY <1>1, <1>2, <1>3, <2>1, EmitSays
  <2>3. frame \notin S => Continues(r, e, S)
    BY <1>1, <2>2, ContinuesOn DEF Says
  <2>4. (e.err => r.err) /\ (e.encErr => r.encErr)
    BY <1>1, <2>2 DEF Says, Continues
  <2>5. Good(r) /\ frame \in S => Said(r, S) = Append(Said(e, S), delta)
    BY <1>1, <1>3, <2>2 DEF Says, Continues
  <2> QED
    BY <1>4, <1>5, <2>3, <2>4, <2>5 DEF r, frame
<1> QED
  BY <1>6, <1>7

(* closeText and closeReasoning say nothing, and end the block on the wire. *)
LEMMA EndsSay ==
    ASSUME NEW e, EmitterInv(e), text \in Block, reasoning \in Block, NEW S, Contents(S)
    PROVE  /\ Continues(EndText(e), e, S)
           /\ Good(EndText(e)) /\ text.open =>
                  BlockFrame("TEXT_END", text.id, NoDelta) \in Sent(EndText(e))
           /\ Continues(EndReasoning(e), e, S)
           /\ Good(EndReasoning(e)) /\ reasoning.open =>
                  BlockFrame("REASONING_END", reasoning.id, NoDelta) \in Sent(EndReasoning(e))
<1> DEFINE m == ReasoningMessageEnd(e, reasoning.id)
<1>1. text.id \in Nat /\ reasoning.id \in Nat
  BY DEF Block
<1>2. /\ BlockFrame("TEXT_END", text.id, NoDelta) \notin S
      /\ BlockFrame("REASONING_MESSAGE_END", reasoning.id, NoDelta) \notin S
      /\ BlockFrame("REASONING_END", reasoning.id, NoDelta) \notin S
  BY DEF BlockFrame, Contents, ContentTypes
<1>3. /\ Says(TextEnd(e, text.id), e, BlockFrame("TEXT_END", text.id, NoDelta), S)
      /\ Says(m, e, BlockFrame("REASONING_MESSAGE_END", reasoning.id, NoDelta), S)
  BY <1>1, ANonEmptyDelta, BlocksSay
<1> HIDE DEF m
<1>4. EmitterInv(m) /\ Continues(m, e, S)
  BY <1>2, <1>3 DEF Says
<1>5. Says(ReasoningEnd(m, reasoning.id), m, BlockFrame("REASONING_END", reasoning.id, NoDelta), S)
  BY <1>1, <1>4, ANonEmptyDelta, BlocksSay
<1>6. Continues(ReasoningEnd(m, reasoning.id), e, S)
  BY <1>2, <1>4, <1>5, ContinuesOn DEF Says
<1> QED
  BY <1>2, <1>3, <1>5, <1>6, ContinuesItself DEF EndText, EndReasoning, Says, m

-----------------------------------------------------------------------------
(***************************************************************************)
(* The transcript.  A message that was listed, or would be listed if its   *)
(* block ended now, has the content that its frames carried, and nothing   *)
(* was said yet under the ids that are still to be generated.              *)
(***************************************************************************)
Delivered(e, m) == m.content # <<>> /\ m.content = Said(e, ContentFrames(m))
Listed(e, m)    == Delivered(e, m) /\ \E f \in Sent(e) : f.type \in Ending /\ f.msg = m.id

AllListed(e, messages) == \A i \in DOMAIN messages : ~IsOwner(i) => Listed(e, messages[i])

TextMessage      == Plain(text.id, "assistant", text.content)
ReasoningMessage == Plain(reasoning.id, "reasoning", reasoning.content)

ListedInv == ~em.encErr => AllListed(em, wireMessages)

OpenInv ==
    Good(em) => /\ text.open => Delivered(em, TextMessage)
                /\ reasoning.open => Delivered(em, ReasoningMessage)

IdsInv ==
    /\ \A role \in Roles, id \in Nat : id >= nextID => Said(em, ContentFrames(Plain(id, role, <<>>))) = <<>>
    /\ \A id \in OpenIds : id < nextID /\ id \notin IdsOf(wireMessages)
    /\ \A id \in IdsOf(wireMessages) : id < nextID

DataInv == ListedInv /\ OpenInv /\ IdsInv

LEMMA MessageFrames ==
    ASSUME NEW m
    PROVE  /\ Contents(ContentFrames(m))
           /\ \A delta \in Delta : \A id :
                 /\ BlockFrame("TEXT_CONTENT", id, delta) \in ContentFrames(m)
                      <=> m.role # "reasoning" /\ m.id = id
                 /\ BlockFrame("REASONING_CONTENT", id, delta) \in ContentFrames(m)
                      <=> m.role = "reasoning" /\ m.id = id
<1>1. \A f \in ContentFrames(m) : f.type \in ContentTypes /\ f.msg = m.id
  BY DEF ContentFrames, ContentTypes
<1>2. NoID \in ToolID /\ NoName \in Name
  BY DEF ToolID, Name
<1>3. ASSUME NEW delta \in Delta, NEW id
      PROVE  /\ BlockFrame("TEXT_CONTENT", id, delta) \in ContentFrames(m)
                  <=> m.role # "reasoning" /\ m.id = id
             /\ BlockFrame("REASONING_CONTENT", id, delta) \in ContentFrames(m)
                  <=> m.role = "reasoning" /\ m.id = id
  BY <1>2 DEF ContentFrames, BlockFrame
<1> QED
  BY <1>1, <1>3 DEF Contents

LEMMA ListedOn ==
    ASSUME NEW d, NEW e, NEW m, Continues(d, e, ContentFrames(m))
    PROVE  (Delivered(e, m) => Delivered(d, m)) /\ (Listed(e, m) => Listed(d, m))
  BY DEF Continues, Delivered, Listed

(* applyReasoning: closed is the emitter once the text is ended.            *)
LEMMA ReasoningSays ==
    ASSUME TurnInv, ApplyReasoning, NEW S, Contents(S)
    PROVE  LET closed == EndText(em)
               frame  == BlockFrame("REASONING_CONTENT", ReasoningID, piece(0))
           IN  /\ Continues(closed, em, S)
               /\ frame \notin S \/ em'.err => Continues(em', closed, S)
               /\ (closed.err => em'.err) /\ (closed.encErr => em'.encErr)
               /\ Good(em') /\ frame \in S => Said(em', S) = Append(Said(em, S), piece(0))
<1> DEFINE closed == EndText(em)
           id     == ReasoningID
           begun  == ReasoningStart(closed, id)
           opened == IF reasoning.open THEN closed ELSE ReasoningMessageStart(begun, id)
           frame  == BlockFrame("REASONING_CONTENT", id, piece(0))
<1>1. /\ text \in Block /\ reasoning \in Block /\ id \in Nat /\ piece(0) \in Delta
      /\ piece(0) # NoDelta /\ EmitterInv(em)
  BY ChunkFacts, NoDeltaAssumption
     DEF ApplyReasoning, TurnInv, BlocksInv, Block, InChunk, ReasoningID, Delta, EmitterOK
<1>2. EmitterInv(closed) /\ Continues(closed, em, S)
  BY <1>1, EndsSay DEF Continues
<1>3. em' = ReasoningContent(opened, id, piece(0))
  BY DEF ApplyReasoning, ReasoningID
<1>4. frame.delta = piece(0)
  BY DEF BlockFrame
<1> HIDE DEF closed, id
<1>5. Says(begun, closed, BlockFrame("REASONING_START", id, NoDelta), S)
  BY <1>1, <1>2, BlocksSay
<1>6. EmitterInv(begun) /\ Continues(begun, closed, S)
  BY <1>5 DEF Says, BlockFrame, Contents, ContentTypes
<1> HIDE DEF begun
<1>7. Says(ReasoningMessageStart(begun, id), begun,
           BlockFrame("REASONING_MESSAGE_START", id, NoDelta), S)
  BY <1>1, <1>6, BlocksSay
<1>8. Continues(ReasoningMessageStart(begun, id), begun, S)
  BY <1>7 DEF Says, BlockFrame, Contents, ContentTypes
<1>9. EmitterInv(opened) /\ Continues(opened, closed, S)
  BY <1>2, <1>6, <1>8, ContinuesOn, ContinuesItself DEF Continues
<1> HIDE DEF opened
<1>10. Says(em', opened, frame, S)
  BY <1>1, <1>3, <1>9, BlocksSay
<1> HIDE DEF frame
<1>11. frame \notin S \/ em'.err => Continues(em', closed, S)
  BY <1>9, <1>10, ContinuesOn DEF Says
<1>12. Good(em') /\ frame \in S => Said(em', S) = Append(Said(em, S), piece(0))
  BY <1>2, <1>4, <1>9, <1>10 DEF Says, Continues
<1>13. (closed.err => em'.err) /\ (closed.encErr => em'.encErr)
  BY <1>9, <1>10 DEF Says, Continues
<1> QED
  BY <1>2, <1>11, <1>12, <1>13 DEF closed, frame, id

LEMMA TextSays ==
    ASSUME TurnInv, ApplyText, NEW S, Contents(S)
    PROVE  LET closed == EndReasoning(em)
               frame  == BlockFrame("TEXT_CONTENT", TextID, piece(0))
           IN  /\ Continues(closed, em, S)
               /\ frame \notin S \/ em'.err => Continues(em', closed, S)
               /\ (closed.err => em'.err) /\ (closed.encErr => em'.encErr)
               /\ Good(em') /\ frame \in S => Said(em', S) = Append(Said(em, S), piece(0))
<1> DEFINE closed == EndReasoning(em)
           id     == TextID
           opened == IF text.open THEN closed ELSE TextStart(closed, id)
           frame  == BlockFrame("TEXT_CONTENT", id, piece(0))
<1>1. /\ text \in Block /\ reasoning \in Block /\ id \in Nat /\ piece(0) \in Delta
      /\ piece(0) # NoDelta /\ EmitterInv(em)
  BY ChunkFacts, NoDeltaAssumption
     DEF ApplyText, TurnInv, BlocksInv, Block, InChunk, TextID, Delta, EmitterOK
<1>2. EmitterInv(closed) /\ Continues(closed, em, S)
  BY <1>1, EndsSay DEF Continues
<1>3. em' = TextContent(opened, id, piece(0))
  BY DEF ApplyText, TextID
<1>4. frame.delta = piece(0)
  BY DEF BlockFrame
<1> HIDE DEF closed, id
<1>5. Says(TextStart(closed, id), closed, BlockFrame("TEXT_START", id, NoDelta), S)
  BY <1>1, <1>2, BlocksSay
<1>6. Continues(TextStart(closed, id), closed, S)
  BY <1>5 DEF Says, BlockFrame, Contents, ContentTypes
<1>7. EmitterInv(opened) /\ Continues(opened, closed, S)
  BY <1>2, <1>6, ContinuesItself DEF Continues
<1> HIDE DEF opened
<1>8. Says(em', opened, frame, S)
  BY <1>1, <1>3, <1>7, BlocksSay
<1> HIDE DEF frame
<1>9. frame \notin S \/ em'.err => Continues(em', closed, S)
  BY <1>7, <1>8, ContinuesOn DEF Says
<1>10. Good(em') /\ frame \in S => Said(em', S) = Append(Said(em, S), piece(0))
  BY <1>2, <1>4, <1>7, <1>8 DEF Says, Continues
<1>11. (closed.err => em'.err) /\ (closed.encErr => em'.encErr)
  BY <1>7, <1>8 DEF Says, Continues
<1> QED
  BY <1>2, <1>9, <1>10, <1>11 DEF closed, frame, id

LEMMA OpenMessages ==
    ASSUME text \in Block, reasoning \in Block
    PROVE  /\ TextMessage \in Message /\ ReasoningMessage \in Message
           /\ TextMessage.id = text.id /\ TextMessage.role = "assistant"
           /\ ReasoningMessage.id = reasoning.id /\ ReasoningMessage.role = "reasoning"
           /\ TextMessage.content = text.content /\ ReasoningMessage.content = reasoning.content
  BY DEF TextMessage, ReasoningMessage, Plain, Message, Block, Roles

LEMMA OneMoreListed ==
    ASSUME NEW messages \in Seq(Message), NEW m \in Message, NEW e, AllListed(e, messages), Listed(e, m)
    PROVE  AllListed(e, Append(messages, m))
<1>1. \A i \in DOMAIN Append(messages, m) :
        \/ i \in DOMAIN messages /\ Append(messages, m)[i] = messages[i]
        \/ Append(messages, m)[i] = m
  OBVIOUS
<1> QED
  BY <1>1 DEF AllListed

(* closeText and closeReasoning list what they end. *)
LEMMA TextJoins ==
    ASSUME text \in Block, reasoning \in Block, NEW e, EmitterInv(e), NEW messages \in Seq(Message),
           ~EndText(e).encErr, AllListed(e, messages), ~e.err /\ text.open => Delivered(e, TextMessage)
    PROVE  /\ WithText(EndText(e), messages) \in Seq(Message)
           /\ AllListed(EndText(e), WithText(EndText(e), messages))
<1> DEFINE d == EndText(e)
<1>1. \A m : Continues(d, e, ContentFrames(m))
  BY EndsSay, MessageFrames
<1>2. Good(d) /\ text.open => BlockFrame("TEXT_END", text.id, NoDelta) \in Sent(d)
  <2>1. Contents({})
    BY DEF Contents
  <2> QED
    BY <2>1, EndsSay
<1>3. ~d.err => ~e.err
  BY <1>1 DEF Continues
<1>4. WithText(d, messages) = IF text.open /\ ~d.err THEN Append(messages, TextMessage) ELSE messages
  BY DEF WithText, TextMessage
<1> HIDE DEF d
<1>5. AllListed(d, messages)
  BY <1>1, ListedOn DEF AllListed
<1>6. text.open /\ ~d.err => Listed(d, TextMessage)
  <2> SUFFICES ASSUME text.open, ~d.err PROVE Listed(d, TextMessage)
    OBVIOUS
  <2>1. Delivered(d, TextMessage)
    BY <1>1, <1>3, ListedOn
  <2>2. BlockFrame("TEXT_END", text.id, NoDelta) \in Sent(d)
    BY <1>2 DEF Good, d
  <2> QED
    BY <2>1, <2>2, OpenMessages DEF Listed, Ending, BlockFrame
<1>7. WithText(d, messages) \in Seq(Message) /\ AllListed(d, WithText(d, messages))
  BY <1>4, <1>5, <1>6, OpenMessages, OneMoreListed
<1> QED
  BY <1>7 DEF d

LEMMA ReasoningJoins ==
    ASSUME text \in Block, reasoning \in Block, NEW e, EmitterInv(e), NEW messages \in Seq(Message),
           ~EndReasoning(e).encErr, AllListed(e, messages),
           ~e.err /\ reasoning.open => Delivered(e, ReasoningMessage)
    PROVE  /\ WithReasoning(EndReasoning(e), messages) \in Seq(Message)
           /\ AllListed(EndReasoning(e), WithReasoning(EndReasoning(e), messages))
<1> DEFINE d == EndReasoning(e)
<1>1. \A m : Continues(d, e, ContentFrames(m))
  BY EndsSay, MessageFrames
<1>2. Good(d) /\ reasoning.open => BlockFrame("REASONING_END", reasoning.id, NoDelta) \in Sent(d)
  <2>1. Contents({})
    BY DEF Contents
  <2> QED
    BY <2>1, EndsSay
<1>3. ~d.err => ~e.err
  BY <1>1 DEF Continues
<1>4. WithReasoning(d, messages)
        = IF reasoning.open /\ ~d.err THEN Append(messages, ReasoningMessage) ELSE messages
  BY DEF WithReasoning, ReasoningMessage
<1> HIDE DEF d
<1>5. AllListed(d, messages)
  BY <1>1, ListedOn DEF AllListed
<1>6. reasoning.open /\ ~d.err => Listed(d, ReasoningMessage)
  <2> SUFFICES ASSUME reasoning.open, ~d.err PROVE Listed(d, ReasoningMessage)
    OBVIOUS
  <2>1. Delivered(d, ReasoningMessage)
    BY <1>1, <1>3, ListedOn
  <2>2. BlockFrame("REASONING_END", reasoning.id, NoDelta) \in Sent(d)
    BY <1>2 DEF Good, d
  <2> QED
    BY <2>1, <2>2, OpenMessages DEF Listed, Ending, BlockFrame
<1>7. WithReasoning(d, messages) \in Seq(Message) /\ AllListed(d, WithReasoning(d, messages))
  BY <1>4, <1>5, <1>6, OpenMessages, OneMoreListed
<1> QED
  BY <1>7 DEF d

LEMMA ListedAgain ==
    ASSUME NEW d, NEW e, NEW messages, AllListed(e, messages),
           \A i \in DOMAIN messages : ~IsOwner(i) => Continues(d, e, ContentFrames(messages[i]))
    PROVE  AllListed(d, messages)
  BY ListedOn DEF AllListed

(* What a closed block adds, if anything. *)
LEMMA WhoJoined ==
    ASSUME text \in Block, reasoning \in Block, NEW messages \in Seq(Message), NEW e
    PROVE  /\ WithText(e, messages) \in Seq(Message) /\ WithReasoning(e, messages) \in Seq(Message)
           /\ \A i \in DOMAIN WithText(e, messages) :
                 \/ WithText(e, messages)[i].id \in IdsOf(messages)
                 \/ text.open /\ ~e.err /\ WithText(e, messages)[i] = TextMessage
           /\ \A i \in DOMAIN WithReasoning(e, messages) :
                 \/ WithReasoning(e, messages)[i].id \in IdsOf(messages)
                 \/ reasoning.open /\ ~e.err /\ WithReasoning(e, messages)[i] = ReasoningMessage
           /\ IdsOf(WithText(e, messages)) \subseteq IdsOf(messages) \cup OpenIds
           /\ IdsOf(WithReasoning(e, messages)) \subseteq IdsOf(messages) \cup OpenIds
<1>1. TextMessage \in Message /\ ReasoningMessage \in Message
  BY OpenMessages
<1>2. \A i \in DOMAIN messages : messages[i].id \in IdsOf(messages)
  BY DEF IdsOf
<1>3. ASSUME NEW m \in Message
      PROVE  /\ Append(messages, m) \in Seq(Message)
             /\ IdsOf(Append(messages, m)) = IdsOf(messages) \cup {m.id}
             /\ \A i \in DOMAIN Append(messages, m) :
                   Append(messages, m)[i].id \in IdsOf(messages) \/ Append(messages, m)[i] = m
  <2>1. \A i \in DOMAIN Append(messages, m) :
          \/ i \in DOMAIN messages /\ Append(messages, m)[i] = messages[i]
          \/ Append(messages, m)[i] = m
    OBVIOUS
  <2> QED
    BY <1>2, <2>1, IdsAppended
<1>4. /\ WithText(e, messages) = IF text.open /\ ~e.err THEN Append(messages, TextMessage) ELSE messages
      /\ WithReasoning(e, messages)
           = IF reasoning.open /\ ~e.err THEN Append(messages, ReasoningMessage) ELSE messages
  BY DEF WithText, WithReasoning, TextMessage, ReasoningMessage
<1>5. /\ text.open => TextMessage.id \in OpenIds
      /\ reasoning.open => ReasoningMessage.id \in OpenIds
  BY OpenMessages DEF OpenIds
<1> QED
  BY <1>1, <1>2, <1>3, <1>4, <1>5

LEMMA ReasoningData ==
    ASSUME TurnInv, DataInv, ApplyReasoning
    PROVE  DataInv'
<1> DEFINE closed == EndText(em)
           begun  == ReasoningStart(closed, ReasoningID)
           opened == IF reasoning.open THEN closed ELSE ReasoningMessageStart(begun, ReasoningID)
           frame  == BlockFrame("REASONING_CONTENT", ReasoningID, piece(0))
           more   == WithText(closed, wireMessages)
<1>1. /\ text \in Block /\ reasoning \in Block /\ nextID \in Nat \ {0} /\ EmitterInv(em) /\ ~em.err
      /\ wireMessages \in Seq(Message) /\ ~(text.open /\ reasoning.open)
      /\ ~reasoning.open => reasoning.content = <<>>
      /\ piece(0) \in Delta
  BY TranscriptSoFar, ChunkFacts
     DEF ApplyReasoning, TurnInv, EmitterOK, BlocksInv, InChunk, Connected, Delta
<1>2. ReasoningID \in Nat /\ ReasoningID \notin IdsOf(wireMessages)
  BY <1>1 DEF ReasoningID, DataInv, IdsInv, OpenIds, Block
<1>3. /\ text' = Closed /\ UNCHANGED owner /\ wireMessages' = more
      /\ IF closed.err THEN UNCHANGED <<reasoning, nextID>>
         ELSE /\ nextID' = IF reasoning.open THEN nextID ELSE nextID + 1
              /\ reasoning' = Grown(reasoning, ReasoningID, opened, em')
  BY DEF ApplyReasoning, Forget, ReasoningID
<1>4. /\ ~em.encErr => AllListed(em, wireMessages)
      /\ ~em.encErr /\ text.open => Delivered(em, TextMessage)
      /\ ~em.encErr /\ reasoning.open => Delivered(em, ReasoningMessage)
  BY <1>1 DEF DataInv, ListedInv, OpenInv, Good
<1>5. \A m : /\ Continues(closed, em, ContentFrames(m))
             /\ frame \notin ContentFrames(m) \/ em'.err => Continues(em', closed, ContentFrames(m))
             /\ frame \notin ContentFrames(m) \/ em'.err => Continues(em', em, ContentFrames(m))
             /\ Good(em') /\ frame \in ContentFrames(m)
                  => Said(em', ContentFrames(m)) = Append(Said(em, ContentFrames(m)), piece(0))
  BY MessageFrames, ReasoningSays, ContinuesOn
<1>6. (closed.err => em'.err) /\ (closed.encErr => em'.encErr) /\ (em.encErr => closed.encErr)
  <2>1. Contents({})
    BY DEF Contents
  <2> QED
    BY <1>5, <2>1, ReasoningSays DEF Continues
<1>7. \A m : frame \in ContentFrames(m) <=> m.role = "reasoning" /\ m.id = ReasoningID
  BY <1>1, MessageFrames
<1>8. /\ more \in Seq(Message)
      /\ \A i \in DOMAIN more : \/ more[i].id \in IdsOf(wireMessages)
                                \/ text.open /\ ~closed.err /\ more[i] = TextMessage
  BY <1>1, WhoJoined
<1>9. ~closed.encErr => AllListed(closed, more)
  BY <1>1, <1>4, <1>6, TextJoins
<1>10. reasoning' = IF closed.err THEN reasoning ELSE Grown(reasoning, ReasoningID, opened, em')
  BY <1>3
<1> HIDE DEF closed, frame, more, opened
<1>11. ListedInv'
  <2> SUFFICES ASSUME ~em'.encErr PROVE AllListed(em', more)
    BY <1>3 DEF ListedInv, AllListed, IsOwner
  <2>1. \A i \in DOMAIN more : more[i].role # "reasoning" \/ more[i].id # ReasoningID
    BY <1>1, <1>2, <1>8, OpenMessages
  <2>2. \A i \in DOMAIN more : Continues(em', closed, ContentFrames(more[i]))
    BY <1>5, <1>7, <2>1
  <2> QED
    BY <1>6, <1>9, <2>2, ListedAgain
<1>12. OpenInv'
  <2> SUFFICES ASSUME Good(em'), reasoning'.open PROVE Delivered(em', ReasoningMessage')
    BY <1>3, ClosedType DEF OpenInv, Good
  <2>1. ~em'.err /\ ~closed.err /\ ~em.encErr
    BY <1>6 DEF Good
  <2>2. /\ reasoning'.content = Append(reasoning.content, piece(0)) /\ reasoning'.id = ReasoningID
    BY <1>10, <2>1 DEF Grown
  <2> DEFINE frames == ContentFrames(Plain(ReasoningID, "reasoning", <<>>))
  <2>3. ContentFrames(ReasoningMessage') = frames
    BY <2>2 DEF ContentFrames, ReasoningMessage, Plain
  <2>4. Said(em, frames) = reasoning.content
    <3>1. CASE reasoning.open
      <4>1. ContentFrames(ReasoningMessage) = frames
        BY <3>1 DEF ContentFrames, ReasoningMessage, Plain, ReasoningID
      <4> QED
        BY <1>4, <2>1, <3>1, <4>1, OpenMessages, <1>1 DEF Delivered
    <3>2. CASE ~reasoning.open
      BY <1>1, <3>2 DEF ReasoningID, DataInv, IdsInv, Roles
    <3> QED
      BY <3>1, <3>2
  <2>5. frame \in frames
    BY <1>7 DEF Plain
  <2>6. Said(em', frames) = Append(reasoning.content, piece(0))
    BY <1>5, <2>4, <2>5
  <2>7. Append(reasoning.content, piece(0)) # <<>>
    BY <1>1 DEF Block
  <2>8. ReasoningMessage'.content = reasoning'.content
    BY DEF ReasoningMessage, Plain
  <2> QED
    BY <2>2, <2>3, <2>6, <2>7, <2>8 DEF Delivered
<1>13. IdsInv'
  <2>1. ASSUME NEW role \in Roles, NEW id \in Nat, id >= nextID'
        PROVE  Said(em', ContentFrames(Plain(id, role, <<>>))) = <<>>
    <3> DEFINE m == Plain(id, role, <<>>)
    <3>1. id >= nextID /\ (closed.err \/ id # ReasoningID)
      <4>1. nextID' \in {nextID, nextID + 1} /\ (~closed.err /\ ~reasoning.open => nextID' = nextID + 1)
        BY <1>3
      <4>2. reasoning.open => reasoning.id < nextID
        BY DEF DataInv, IdsInv, OpenIds
      <4> QED
        BY <1>1, <2>1, <4>1, <4>2 DEF ReasoningID, Block
    <3>2. m.id = id
      BY DEF Plain
    <3> HIDE DEF m
    <3>3. frame \notin ContentFrames(m) \/ em'.err
      BY <1>6, <1>7, <3>1, <3>2
    <3>4. Said(em, ContentFrames(m)) = <<>>
      BY <3>1 DEF DataInv, IdsInv, m
    <3> QED
      BY <1>5, <3>3, <3>4 DEF Continues, m
  <2>2. IdsOf(wireMessages') \subseteq IdsOf(wireMessages) \cup OpenIds
        /\ (reasoning.open \/ closed.err => IdsOf(wireMessages') \subseteq IdsOf(wireMessages))
    BY <1>1, <1>3, <1>8, OpenMessages DEF IdsOf, OpenIds
  <2>3. nextID' \in {nextID, nextID + 1} /\ \A id \in IdsOf(wireMessages) \cup OpenIds : id < nextID
    BY <1>3 DEF DataInv, IdsInv
  <2>4. \A id \in IdsOf(wireMessages) \cup OpenIds : id \in Nat
    <3>1. \A i \in DOMAIN wireMessages : wireMessages[i] \in Message
      BY <1>1
    <3>2. \A m \in Message : m.id \in Nat
      BY DEF Message
    <3> QED
      BY <1>1, <3>1, <3>2 DEF IdsOf, OpenIds, Block
  <2>5. OpenIds' \subseteq IF closed.err THEN OpenIds ELSE {ReasoningID}
    BY <1>3, <1>10, ClosedType DEF OpenIds, Grown
  <2>6. ASSUME NEW id \in OpenIds' PROVE id < nextID' /\ id \notin IdsOf(wireMessages')
    <3>1. CASE closed.err
      BY <1>3, <2>2, <2>5, <3>1 DEF DataInv, IdsInv
    <3>2. CASE ~closed.err /\ reasoning.open
      BY <1>2, <1>3, <2>2, <2>3, <2>5, <3>2 DEF ReasoningID, OpenIds
    <3>3. CASE ~closed.err /\ ~reasoning.open
      <4>1. id = nextID /\ nextID' = nextID + 1
        BY <1>3, <2>5, <3>3 DEF ReasoningID
      <4> QED
        BY <1>1, <2>2, <2>3, <2>4, <4>1
    <3> QED
      BY <3>1, <3>2, <3>3
  <2>7. \A id \in IdsOf(wireMessages') : id < nextID'
    BY <1>1, <2>2, <2>3, <2>4
  <2> QED
    BY <2>1, <2>6, <2>7 DEF IdsInv
<1> QED
  BY <1>11, <1>12, <1>13 DEF DataInv

LEMMA TextData ==
    ASSUME TurnInv, DataInv, ApplyText
    PROVE  DataInv'
<1> DEFINE closed == EndReasoning(em)
           opened == IF text.open THEN closed ELSE TextStart(closed, TextID)
           frame  == BlockFrame("TEXT_CONTENT", TextID, piece(0))
           more   == WithReasoning(closed, wireMessages)
<1>1. /\ text \in Block /\ reasoning \in Block /\ nextID \in Nat \ {0} /\ EmitterInv(em) /\ ~em.err
      /\ wireMessages \in Seq(Message) /\ ~(reasoning.open /\ text.open)
      /\ ~text.open => text.content = <<>>
      /\ piece(0) \in Delta
  BY TranscriptSoFar, ChunkFacts
     DEF ApplyText, TurnInv, EmitterOK, BlocksInv, InChunk, Connected, Delta
<1>2. TextID \in Nat /\ TextID \notin IdsOf(wireMessages)
  BY <1>1 DEF TextID, DataInv, IdsInv, OpenIds, Block
<1>3. /\ reasoning' = Closed /\ UNCHANGED owner /\ wireMessages' = more
      /\ IF closed.err THEN UNCHANGED <<text, nextID>>
         ELSE /\ nextID' = IF text.open THEN nextID ELSE nextID + 1
              /\ text' = Grown(text, TextID, opened, em')
  BY DEF ApplyText, Forget, TextID
<1>4. /\ ~em.encErr => AllListed(em, wireMessages)
      /\ ~em.encErr /\ reasoning.open => Delivered(em, ReasoningMessage)
      /\ ~em.encErr /\ text.open => Delivered(em, TextMessage)
  BY <1>1 DEF DataInv, ListedInv, OpenInv, Good
<1>5. \A m : /\ Continues(closed, em, ContentFrames(m))
             /\ frame \notin ContentFrames(m) \/ em'.err => Continues(em', closed, ContentFrames(m))
             /\ frame \notin ContentFrames(m) \/ em'.err => Continues(em', em, ContentFrames(m))
             /\ Good(em') /\ frame \in ContentFrames(m)
                  => Said(em', ContentFrames(m)) = Append(Said(em, ContentFrames(m)), piece(0))
  BY MessageFrames, TextSays, ContinuesOn
<1>6. (closed.err => em'.err) /\ (closed.encErr => em'.encErr) /\ (em.encErr => closed.encErr)
  <2>1. Contents({})
    BY DEF Contents
  <2> QED
    BY <1>5, <2>1, TextSays DEF Continues
<1>7. \A m : frame \in ContentFrames(m) <=> m.role # "reasoning" /\ m.id = TextID
  BY <1>1, MessageFrames
<1>8. /\ more \in Seq(Message)
      /\ \A i \in DOMAIN more : \/ more[i].id \in IdsOf(wireMessages)
                                \/ reasoning.open /\ ~closed.err /\ more[i] = ReasoningMessage
  BY <1>1, WhoJoined
<1>9. ~closed.encErr => AllListed(closed, more)
  BY <1>1, <1>4, <1>6, ReasoningJoins
<1>10. text' = IF closed.err THEN text ELSE Grown(text, TextID, opened, em')
  BY <1>3
<1> HIDE DEF closed, frame, more, opened
<1>11. ListedInv'
  <2> SUFFICES ASSUME ~em'.encErr PROVE AllListed(em', more)
    BY <1>3 DEF ListedInv, AllListed, IsOwner
  <2>1. \A i \in DOMAIN more : more[i].role = "reasoning" \/ more[i].id # TextID
    BY <1>1, <1>2, <1>8, OpenMessages
  <2>2. \A i \in DOMAIN more : Continues(em', closed, ContentFrames(more[i]))
    BY <1>5, <1>7, <2>1
  <2> QED
    BY <1>6, <1>9, <2>2, ListedAgain
<1>12. OpenInv'
  <2> SUFFICES ASSUME Good(em'), text'.open PROVE Delivered(em', TextMessage')
    BY <1>3, ClosedType DEF OpenInv, Good
  <2>1. ~em'.err /\ ~closed.err /\ ~em.encErr
    BY <1>6 DEF Good
  <2>2. /\ text'.content = Append(text.content, piece(0)) /\ text'.id = TextID
    BY <1>10, <2>1 DEF Grown
  <2> DEFINE frames == ContentFrames(Plain(TextID, "assistant", <<>>))
  <2>3. ContentFrames(TextMessage') = frames
    BY <2>2 DEF ContentFrames, TextMessage, Plain
  <2>4. Said(em, frames) = text.content
    <3>1. CASE text.open
      <4>1. ContentFrames(TextMessage) = frames
        BY <3>1 DEF ContentFrames, TextMessage, Plain, TextID
      <4> QED
        BY <1>4, <2>1, <3>1, <4>1, OpenMessages, <1>1 DEF Delivered
    <3>2. CASE ~text.open
      BY <1>1, <3>2 DEF TextID, DataInv, IdsInv, Roles
    <3> QED
      BY <3>1, <3>2
  <2>5. frame \in frames
    BY <1>7 DEF Plain
  <2>6. Said(em', frames) = Append(text.content, piece(0))
    BY <1>5, <2>4, <2>5
  <2>7. Append(text.content, piece(0)) # <<>>
    BY <1>1 DEF Block
  <2>8. TextMessage'.content = text'.content
    BY DEF TextMessage, Plain
  <2> QED
    BY <2>2, <2>3, <2>6, <2>7, <2>8 DEF Delivered
<1>13. IdsInv'
  <2>1. ASSUME NEW role \in Roles, NEW id \in Nat, id >= nextID'
        PROVE  Said(em', ContentFrames(Plain(id, role, <<>>))) = <<>>
    <3> DEFINE m == Plain(id, role, <<>>)
    <3>1. id >= nextID /\ (closed.err \/ id # TextID)
      <4>1. nextID' \in {nextID, nextID + 1} /\ (~closed.err /\ ~text.open => nextID' = nextID + 1)
        BY <1>3
      <4>2. text.open => text.id < nextID
        BY DEF DataInv, IdsInv, OpenIds
      <4> QED
        BY <1>1, <2>1, <4>1, <4>2 DEF TextID, Block
    <3>2. m.id = id
      BY DEF Plain
    <3> HIDE DEF m
    <3>3. frame \notin ContentFrames(m) \/ em'.err
      BY <1>6, <1>7, <3>1, <3>2
    <3>4. Said(em, ContentFrames(m)) = <<>>
      BY <3>1 DEF DataInv, IdsInv, m
    <3> QED
      BY <1>5, <3>3, <3>4 DEF Continues, m
  <2>2. IdsOf(wireMessages') \subseteq IdsOf(wireMessages) \cup OpenIds
        /\ (text.open \/ closed.err => IdsOf(wireMessages') \subseteq IdsOf(wireMessages))
    BY <1>1, <1>3, <1>8, OpenMessages DEF IdsOf, OpenIds
  <2>3. nextID' \in {nextID, nextID + 1} /\ \A id \in IdsOf(wireMessages) \cup OpenIds : id < nextID
    BY <1>3 DEF DataInv, IdsInv
  <2>4. \A id \in IdsOf(wireMessages) \cup OpenIds : id \in Nat
    <3>1. \A i \in DOMAIN wireMessages : wireMessages[i] \in Message
      BY <1>1
    <3>2. \A m \in Message : m.id \in Nat
      BY DEF Message
    <3> QED
      BY <1>1, <3>1, <3>2 DEF IdsOf, OpenIds, Block
  <2>5. OpenIds' \subseteq IF closed.err THEN OpenIds ELSE {TextID}
    BY <1>3, <1>10, ClosedType DEF OpenIds, Grown
  <2>6. ASSUME NEW id \in OpenIds' PROVE id < nextID' /\ id \notin IdsOf(wireMessages')
    <3>1. CASE closed.err
      BY <1>3, <2>2, <2>5, <3>1 DEF DataInv, IdsInv
    <3>2. CASE ~closed.err /\ text.open
      BY <1>2, <1>3, <2>2, <2>3, <2>5, <3>2 DEF TextID, OpenIds
    <3>3. CASE ~closed.err /\ ~text.open
      <4>1. id = nextID /\ nextID' = nextID + 1
        BY <1>3, <2>5, <3>3 DEF TextID
      <4> QED
        BY <1>1, <2>2, <2>3, <2>4, <4>1
    <3> QED
      BY <3>1, <3>2, <3>3
  <2>7. \A id \in IdsOf(wireMessages') : id < nextID'
    BY <1>1, <2>2, <2>3, <2>4
  <2> QED
    BY <2>1, <2>6, <2>7 DEF IdsInv
<1> QED
  BY <1>11, <1>12, <1>13 DEF DataInv

(* ensureToolOwner and closeBlocks: quiet and closed are the emitter once   *)
(* the reasoning and once the text is ended.                                *)
LEMMA BlocksData ==
    ASSUME TurnInv, DataInv, EnsureToolOwner \/ CloseBlocks
    PROVE  DataInv'
<1> DEFINE quiet    == EndReasoning(em)
           closed   == EndText(quiet)
           said     == WithReasoning(quiet, wireMessages)
           messages == WithText(closed, said)
           owned    == Plain(nextID, "assistant", <<>>)
<1>1. /\ text \in Block /\ reasoning \in Block /\ nextID \in Nat \ {0} /\ EmitterInv(em)
      /\ wireMessages \in Seq(Message) /\ ~(text.open /\ reasoning.open)
  BY TranscriptSoFar DEF EnsureToolOwner, CloseBlocks, InTools, TurnInv, EmitterOK, BlocksInv
<1>2. /\ em' = closed /\ ~text'.open /\ ~reasoning'.open
      /\ \/ wireMessages' = messages /\ UNCHANGED <<owner, nextID>>
         \/ /\ owner = NoOwner /\ owner' = [id |-> nextID, index |-> Len(messages) + 1]
            /\ nextID' = nextID + 1 /\ wireMessages' = Append(messages, owned)
  <2>1. ~text.open => closed = quiet
    BY DEF EndText
  <2>2. CASE EnsureToolOwner
    <3> DEFINE failed == (reasoning.open /\ quiet.err) \/ (text.open /\ closed.err)
    <3>1. /\ reasoning' = Closed /\ text' \in {Closed, IF reasoning.open THEN text ELSE Closed}
          /\ em' \in {closed, IF reasoning.open THEN quiet ELSE closed} /\ owner = NoOwner
          /\ IF failed THEN wireMessages' = messages /\ UNCHANGED <<owner, nextID>>
             ELSE /\ owner' = [id |-> nextID, index |-> Len(messages) + 1]
                  /\ nextID' = nextID + 1 /\ wireMessages' = Append(messages, owned)
      BY <2>2 DEF EnsureToolOwner, Forget
    <3> HIDE DEF failed, quiet, closed, messages, owned
    <3> QED
      BY <1>1, <2>1, <3>1, ClosedType
  <2>3. CASE CloseBlocks
    BY <2>3, ClosedType DEF CloseBlocks, Forget
  <2> QED
    BY <2>2, <2>3
<1>3. EmitterInv(quiet) /\ \A m : /\ Continues(quiet, em, ContentFrames(m))
                                  /\ Continues(closed, em, ContentFrames(m))
  <2>1. \A m : Continues(quiet, em, ContentFrames(m))
    BY <1>1, EndsSay, MessageFrames
  <2>2. EmitterInv(quiet)
    BY <2>1 DEF Continues
  <2> HIDE DEF quiet
  <2>3. \A m : Continues(closed, quiet, ContentFrames(m))
    BY <1>1, <2>2, EndsSay, MessageFrames
  <2> HIDE DEF closed
  <2> QED
    BY <2>1, <2>2, <2>3, ContinuesOn
<1>4. (em.err => quiet.err) /\ (em.encErr => quiet.encErr) /\ (em.encErr => closed.encErr)
  BY <1>3 DEF Continues
<1>5. quiet.encErr => closed.encErr
  <2> HIDE DEF quiet
  <2>1. Continues(closed, quiet, ContentFrames(owned))
    BY <1>1, <1>3, EndsSay, MessageFrames
  <2> QED
    BY <2>1 DEF Continues
<1>6. /\ said \in Seq(Message) /\ messages \in Seq(Message)
      /\ ~closed.encErr => AllListed(closed, messages)
  <2>1. ~quiet.encErr => AllListed(quiet, said)
    BY <1>1, <1>4, ReasoningJoins DEF DataInv, ListedInv, OpenInv, Good
  <2>2. ~quiet.encErr /\ ~quiet.err /\ text.open => Delivered(quiet, TextMessage)
    BY <1>3, <1>4, ListedOn DEF DataInv, OpenInv, Good
  <2>3. said \in Seq(Message)
    BY <1>1, WhoJoined
  <2> HIDE DEF quiet, said
  <2>4. ~closed.encErr => AllListed(closed, messages)
    BY <1>1, <1>3, <1>5, <2>1, <2>2, <2>3, TextJoins
  <2> QED
    BY <1>1, <2>3, <2>4, WhoJoined
<1>7. IdsOf(messages) \subseteq IdsOf(wireMessages) \cup OpenIds
  <2>1. IdsOf(said) \subseteq IdsOf(wireMessages) \cup OpenIds
    BY <1>1, WhoJoined
  <2> HIDE DEF quiet, closed, said
  <2>2. IdsOf(messages) \subseteq IdsOf(said) \cup OpenIds
    BY <1>1, <1>6, WhoJoined
  <2> QED
    BY <2>1, <2>2
<1> HIDE DEF closed, messages
<1>8. ListedInv'
  <2> SUFFICES ASSUME ~closed.encErr, NEW i \in DOMAIN wireMessages', ~IsOwner(i)'
               PROVE  Listed(closed, wireMessages'[i])
    BY <1>2 DEF ListedInv, AllListed
  <2>1. CASE wireMessages' = messages /\ UNCHANGED owner
    BY <1>6, <2>1 DEF AllListed, IsOwner
  <2>2. CASE /\ owner = NoOwner /\ owner' = [id |-> nextID, index |-> Len(messages) + 1]
             /\ wireMessages' = Append(messages, owned)
    <3>1. i # Len(messages) + 1
      BY <1>1, <2>2 DEF IsOwner, NoOwner
    <3>2. i \in DOMAIN messages /\ wireMessages'[i] = messages[i]
      BY <1>6, <2>2, <3>1
    <3> QED
      BY <1>6, <2>2, <3>2 DEF AllListed, IsOwner
  <2> QED
    BY <1>2, <2>1, <2>2
<1>9. OpenInv'
  BY <1>2 DEF OpenInv
<1>10. IdsInv'
  <2>1. \A id \in IdsOf(wireMessages) \cup OpenIds : id < nextID /\ id \in Nat
    <3>1. \A i \in DOMAIN wireMessages : wireMessages[i] \in Message
      BY <1>1
    <3>2. \A m \in Message : m.id \in Nat
      BY DEF Message
    <3> QED
      BY <1>1, <3>1, <3>2 DEF DataInv, IdsInv, IdsOf, OpenIds, Block
  <2>2. OpenIds' = {}
    BY <1>2 DEF OpenIds
  <2>3. \A id \in IdsOf(wireMessages') : id < nextID'
    <3>1. IdsOf(Append(messages, owned)) = IdsOf(messages) \cup {nextID}
      BY <1>6, IdsAppended DEF Plain
    <3> HIDE DEF owned
    <3>2. \/ IdsOf(wireMessages') = IdsOf(messages) /\ nextID' = nextID
          \/ IdsOf(wireMessages') = IdsOf(messages) \cup {nextID} /\ nextID' = nextID + 1
      BY <1>2, <3>1
    <3> QED
      BY <1>1, <1>7, <2>1, <3>2
  <2>4. ASSUME NEW role \in Roles, NEW id \in Nat, id >= nextID'
        PROVE  Said(em', ContentFrames(Plain(id, role, <<>>))) = <<>>
    <3>1. id >= nextID
      BY <1>1, <1>2, <2>4
    <3> QED
      BY <1>2, <1>3, <3>1 DEF Continues, DataInv, IdsInv
  <2> QED
    BY <2>2, <2>3, <2>4 DEF IdsInv
<1> QED
  BY <1>8, <1>9, <1>10 DEF DataInv

(* A tool frame says nothing of a message. *)
LEMMA ToolsData ==
    ASSUME TurnInv, DataInv, EndCall \/ FlushArg \/ AcceptFragment
    PROVE  DataInv'
<1>1. ToolCalled /\ UNCHANGED blocks /\ EmitterInv(em)
  BY ToolHelperCalled DEF EndCall, FlushArg, AcceptFragment, TurnInv, EmitterOK
<1>2. PICK id \in ToolID, name \in Name, parent \in Nat, delta \in Delta :
        em' \in {em, ToolStart(em, id, name, parent), ToolArgs(em, id, delta), ToolEnd(em, id)}
  BY <1>1 DEF ToolCalled
<1>3. ASSUME NEW m PROVE Continues(em', em, ContentFrames(m))
  <2>1. CallFrame("TOOL_CALL_ARGS", id, delta) \notin ContentFrames(m)
    BY DEF CallFrame, ContentFrames
  <2>2. Contents(ContentFrames(m))
    BY MessageFrames
  <2> QED
    BY <1>1, <1>2, <2>1, <2>2, ToolsSay, ContinuesItself
<1>4. (em.err => em'.err) /\ (em.encErr => em'.encErr)
  BY <1>3 DEF Continues
<1>5. text' = text /\ reasoning' = reasoning /\ wireMessages' = wireMessages /\ owner' = owner
      /\ nextID' = nextID
  BY <1>1 DEF blocks
<1>6. ListedInv'
  BY <1>3, <1>4, <1>5, ListedAgain DEF ListedInv, DataInv, AllListed, IsOwner
<1>7. TextMessage' = TextMessage /\ ReasoningMessage' = ReasoningMessage
      /\ OpenIds' = OpenIds /\ IdsOf(wireMessages') = IdsOf(wireMessages)
  BY <1>5 DEF TextMessage, ReasoningMessage, OpenIds
<1>8. OpenInv'
  <2>1. \A m : Delivered(em, m) => Delivered(em', m)
    BY <1>3, ListedOn
  <2> QED
    BY <1>4, <1>5, <1>7, <2>1 DEF OpenInv, DataInv, Good
<1>9. IdsInv'
  BY <1>3, <1>5, <1>7 DEF IdsInv, DataInv, Continues
<1> QED
  BY <1>6, <1>8, <1>9 DEF DataInv

LEMMA ConcludeData ==
    ASSUME TurnInv, DataInv, Conclude
    PROVE  DataInv'
<1>1. em' = em /\ text' = text /\ reasoning' = reasoning /\ owner' = owner /\ nextID' = nextID
  BY DEF Conclude
<1>2. wireMessages \in Seq(Message)
  BY TranscriptSoFar DEF Conclude
<1>3. wireMessages' = wireMessages \/ \E merged : wireMessages' = Attach(merged)
  BY DEF Conclude
<1>4. ASSUME NEW merged PROVE DOMAIN Attach(merged) = DOMAIN wireMessages
      /\ \A i \in DOMAIN wireMessages : i # owner.index => Attach(merged)[i] = wireMessages[i]
  BY DEF Attach
<1>5. IdsOf(wireMessages') = IdsOf(wireMessages)
  BY <1>2, <1>3, AttachedIds
<1>6. DOMAIN wireMessages' = DOMAIN wireMessages
      /\ \A i \in DOMAIN wireMessages : i = owner.index \/ wireMessages'[i] = wireMessages[i]
  BY <1>3, <1>4
<1>7. owner # NoOwner \/ wireMessages' = wireMessages
  BY DEF Conclude
<1>8. ListedInv'
  BY <1>1, <1>6, <1>7 DEF DataInv, ListedInv, AllListed, IsOwner
<1>9. TextMessage' = TextMessage /\ ReasoningMessage' = ReasoningMessage /\ OpenIds' = OpenIds
  BY <1>1 DEF TextMessage, ReasoningMessage, OpenIds
<1> QED
  BY <1>1, <1>5, <1>8, <1>9 DEF DataInv, OpenInv, IdsInv

LEMMA DataInit == Init => DataInv
<1> SUFFICES ASSUME Init PROVE DataInv
  OBVIOUS
<1>1. em.wire = <<>> /\ wireMessages = <<>> /\ ~text.open /\ ~reasoning.open
  BY DEF Init, NewEmitter, Closed
<1>2. \A S : Said(em, S) = <<>>
  <2>1. \A S : Selected(em.wire, S) = <<>>
    BY <1>1, SelectedEmpty
  <2> QED
    BY <2>1 DEF Said
<1> QED
  BY <1>1, <1>2 DEF DataInv, ListedInv, AllListed, OpenInv, IdsInv, OpenIds, IdsOf

LEMMA DataNext == TurnInv /\ DataInv /\ [Next]_vars => DataInv'
<1> SUFFICES ASSUME TurnInv, DataInv, [Next]_vars
             PROVE  DataInv'
  OBVIOUS
<1>1. CASE UNCHANGED vars \/ Returned \/ Quiet \/ RefuseFragment \/ OpenFails \/ ConcludeEmpty
  <2>1. UNCHANGED <<em, blocks>>
    BY <1>1 DEF vars, Returned, Quiet, Cancel, OpenStream, CheckRequest, Recv, RecvEOF, RecvError,
                RecvChunk, RecvKeepAlive, CallsEnded, SkipFragment, FragmentDone, ChunkDone,
                RefuseFragment, OpenFails, ConcludeEmpty, blocks
  <2> QED
    BY <2>1 DEF blocks, DataInv, ListedInv, AllListed, IsOwner, OpenInv, TextMessage,
                ReasoningMessage, IdsInv, OpenIds, IdsOf
<1>2. CASE EndCall \/ FlushArg \/ AcceptFragment
  BY <1>2, ToolsData
<1>3. CASE ApplyReasoning \/ ApplyText
  BY <1>3, ReasoningData, TextData
<1>4. CASE EnsureToolOwner \/ CloseBlocks
  BY <1>4, BlocksData
<1>5. CASE Conclude
  BY <1>5, ConcludeData
<1> QED
  BY <1>1, <1>2, <1>3, <1>4, <1>5 DEF Next, TurnStep, Apply, Finish, Quiet

(* WireMessages holds what the client assembled from the frames: each        *)
(* message but the owner was ended on the wire, and its content is the       *)
(* content of its frames.  closeText and closeReasoning list a block only    *)
(* when the client is still there, with the deltas applyText and             *)
(* applyReasoning sent.                                                      *)
THEOREM TranscriptIsAssembled == Spec => []TranscriptMatchesWire
<1>1. DataInv => TranscriptMatchesWire
  BY DEF DataInv, ListedInv, AllListed, Listed, Delivered, Said, Sent, Ending,
         TranscriptMatchesWire, ContentOnWire, DeltasOf, wire
<1> QED
  BY <1>1, DataInit, DataNext, TurnInvariant, PTL DEF Spec

-----------------------------------------------------------------------------
(***************************************************************************)
(* The arguments of the calls.  What an accepted fragment does to its      *)
(* buffer, case by case: nothing is told of a call that ended or that is   *)
(* not live; a started call sends the delta; a call that is ready starts;  *)
(* until then the delta is postponed.                                      *)
(***************************************************************************)
Merged(before, b, delta) ==
    /\ b \in Buffers /\ before \in Buffers /\ b.ended = before.ended
    /\ before.id # NoID => b.id = before.id
    /\ \/ /\ ~live \/ before.ended
          /\ b.started = before.started /\ b.pendingArgs = before.pendingArgs
          /\ before.ended => b.arguments = before.arguments
          /\ em' = em
       \/ /\ live /\ ~before.ended /\ before.started
          /\ b.started /\ b.pendingArgs = before.pendingArgs
          /\ b.arguments = Join(before.arguments, delta)
          /\ em' = ToolArgs(em, b.id, delta)
       \/ /\ live /\ ~before.ended /\ ~before.started
          /\ b.started /\ b.pendingArgs = Join(before.pendingArgs, delta)
          /\ b.arguments = Join(before.arguments, delta)
          /\ b.id \in ToolIDs /\ b.name \in Names
          /\ em' = ToolStart(em, b.id, b.name, owner.id)
       \/ /\ live /\ ~before.ended /\ ~before.started
          /\ ~b.started /\ b.pendingArgs = Join(before.pendingArgs, delta)
          /\ b.arguments = Join(before.arguments, delta)
          /\ em' = em

(* The buffer of the fragment is one of the turn's or a new one. *)
LEMMA FoundList ==
    ASSUME NEW t, TablesOK(t), NEW f \in Fragments, Correlatable(f)
    PROVE  LET g == WithBuffer(t, f) IN
           /\ Len(t.order) <= Len(g.order)
           /\ \A p \in 1..Len(t.order) : g.order[p] = t.order[p]
           /\ \A p \in 1..Len(g.order) :
                 p > Len(t.order) => p = Known(g, f) /\ g.order[p] = NewBuffer(f.index)
<1> DEFINE g   == WithBuffer(t, f)
           pos == Len(t.order) + 1
           new == NewBuffer(f.index)
<1>1. Known(t, f) \in 0..Len(t.order) /\ Len(t.order) \in Nat /\ t.order \in Seq(Buffers)
      /\ t.indexed \in [Indices -> Nat] /\ t.byID \in [ToolIDs -> Nat]
  BY KnownType DEF TablesOK, CallTables
<1>2. CASE Known(t, f) # 0
  BY <1>1, <1>2 DEF WithBuffer
<1>3. CASE Known(t, f) = 0
  <2>1. /\ g.order = Append(t.order, new) /\ Len(g.order) = pos /\ g.order[pos] = new
        /\ \A p \in 1..Len(t.order) : g.order[p] = t.order[p]
    BY <1>1, <1>3 DEF WithBuffer, CallTables, TablesOK
  <2>2. /\ g.indexed = IF f.index # NoIndex THEN [t.indexed EXCEPT ![f.index] = pos] ELSE t.indexed
        /\ g.byID = IF f.index # NoIndex THEN t.byID ELSE [t.byID EXCEPT ![f.id] = pos]
    BY <1>3 DEF WithBuffer, TablesOK, CallTables
  <2>3. (f.index # NoIndex => f.index \in Indices) /\ (f.index = NoIndex => f.id \in ToolIDs)
    BY KnownType DEF Correlatable
  <2> HIDE DEF g, new
  <2>4. Known(g, f) = pos
    BY <1>1, <2>2, <2>3 DEF Known
  <2> QED
    BY <1>1, <2>1, <2>4 DEF g, new
<1> QED
  BY <1>2, <1>3

LEMMA MergedBuffer ==
    ASSUME TurnInv, AcceptFragment
    PROVE  LET pos    == Known(calls', call)
               before == WithBuffer(calls, call).order[pos]
               delta  == IF call.args THEN piece(cursor) ELSE NoDelta
           IN  /\ TablesOK(calls') /\ IDsClaimed(calls') /\ call' = call
               /\ pos \in 1..Len(calls'.order) /\ Len(calls.order) <= Len(calls'.order)
               /\ \A p \in 1..Len(calls'.order) :
                     p # pos => p \in 1..Len(calls.order) /\ calls'.order[p] = calls.order[p]
               /\ IF pos \in 1..Len(calls.order) THEN before = calls.order[pos]
                  ELSE before = NewBuffer(call.index)
               /\ Merged(before, calls'.order[pos], delta)
<1> DEFINE found  == WithBuffer(calls, call)
           pos    == Known(found, call)
           delta  == IF call.args THEN piece(cursor) ELSE NoDelta
           before == found.order[pos]
           merged == Merge(before, call, delta)
           talks  == live /\ ~before.ended
           starts == talks /\ Ready(merged)
           sends  == talks /\ merged.started
           buffer == IF talks /\ ~merged.started THEN Postpone(merged, delta) ELSE merged
           stored == [buffer EXCEPT !.started = @ \/ starts]
<1>1. /\ TablesOK(calls) /\ IDsClaimed(calls) /\ live \in BOOLEAN
      /\ call \in Fragments /\ Correlatable(call) /\ piece(cursor) \in Tokens
      /\ ~Ambiguous(found, call)
  BY CallFacts DEF AcceptFragment, TurnInv, CallsInv, ControlInv
<1>2. /\ TablesOK(found) /\ found \in CallTables /\ found.order \in Seq(Buffers)
      /\ pos \in 1..Len(found.order) /\ Len(found.order) \in Nat /\ Len(calls.order) \in Nat
  BY <1>1, FoundBuffer DEF TablesOK, CallTables
<1>3. /\ Len(calls.order) <= Len(found.order)
      /\ \A p \in 1..Len(calls.order) : found.order[p] = calls.order[p]
      /\ \A p \in 1..Len(found.order) :
            p > Len(calls.order) => p = pos /\ found.order[p] = NewBuffer(call.index)
  BY <1>1, FoundList
<1>4. delta \in Tokens \cup {NoDelta} /\ call.id \in ToolID /\ call.name \in Name
  BY <1>1 DEF Fragments
<1>5. before \in Buffers
  BY <1>2
<1>6. before.id # NoID /\ ~before.ended /\ call.id # NoID => before.id = call.id
  <2>1. CASE call.index # NoIndex
    BY <1>1, <2>1 DEF Ambiguous, ChangedID
  <2>2. CASE call.index = NoIndex
    <3>1. call.id \in ToolIDs /\ pos = found.byID[call.id] /\ pos # 0
      BY <1>1, <1>2, <2>2, KnownType DEF Known, Correlatable
    <3>2. \/ found.order[pos].id = call.id \/ found.order[pos].ended \/ found.order[pos].id = NoID
      BY <1>1, <3>1, FoundBuffer
    <3> QED
      BY <3>2
  <2> QED
    BY <2>1, <2>2
<1>7. em' = IF sends THEN ToolArgs(em, merged.id, delta)
            ELSE IF starts THEN ToolStart(em, merged.id, merged.name, owner.id) ELSE em
  BY DEF AcceptFragment
<1>8. calls' = [Claim(found, call) EXCEPT !.order[pos] = stored]
  BY DEF AcceptFragment
<1> HIDE DEF before, delta
<1>9. /\ merged \in Buffers /\ merged.ended = before.ended /\ merged.started = before.started
      /\ merged.pendingArgs = before.pendingArgs
      /\ merged.id = IF before.ended \/ call.id = NoID THEN before.id ELSE call.id
      /\ merged.arguments = IF before.ended THEN before.arguments ELSE Join(before.arguments, delta)
  <2>1. Join(before.arguments, delta) \in Seq(Tokens)
    BY <1>4, <1>5 DEF Join, Buffers
  <2> QED
    BY <1>4, <1>5, <2>1 DEF Merge, Buffers
<1> HIDE DEF merged
<1>10. /\ buffer \in Buffers /\ buffer.id = merged.id /\ buffer.ended = merged.ended
       /\ buffer.name = merged.name /\ buffer.started = merged.started
       /\ buffer.arguments = merged.arguments
       /\ buffer.pendingArgs = IF talks /\ ~merged.started THEN Join(merged.pendingArgs, delta)
                               ELSE merged.pendingArgs
  <2>1. Join(merged.pendingArgs, delta) \in Seq(Tokens)
    BY <1>4, <1>9 DEF Join, Buffers
  <2> QED
    BY <1>9, <2>1 DEF Postpone, Buffers
<1>11. starts \in BOOLEAN /\ sends \in BOOLEAN /\ talks \in BOOLEAN /\ merged.started \in BOOLEAN
       /\ (starts <=> talks /\ ~merged.started /\ merged.id # NoID /\ merged.name # NoName)
       /\ merged.id \in ToolID /\ merged.name \in Name
  BY <1>1, <1>5, <1>9 DEF Ready, Buffers
<1> HIDE DEF buffer, starts
<1>12. /\ stored \in Buffers /\ stored.id = merged.id /\ stored.ended = before.ended
       /\ stored.name = merged.name /\ stored.started = (merged.started \/ starts)
       /\ stored.arguments = merged.arguments /\ stored.pendingArgs = buffer.pendingArgs
  BY <1>9, <1>10, <1>11 DEF Buffers
<1> HIDE DEF stored
<1>13. Merged(before, stored, delta)
  <2>1. before.id # NoID => stored.id = before.id
    BY <1>6, <1>9, <1>12
  <2>2. CASE ~talks
    BY <1>5, <1>7, <1>9, <1>10, <1>11, <1>12, <2>1, <2>2 DEF Merged
  <2>3. CASE talks /\ before.started
    BY <1>5, <1>7, <1>9, <1>10, <1>11, <1>12, <2>1, <2>3 DEF Merged
  <2>4. CASE talks /\ ~before.started /\ starts
    <3>1. merged.id \in ToolIDs /\ merged.name \in Names
      BY <1>11, <2>4 DEF ToolID, Name
    <3> QED
      BY <1>5, <1>7, <1>9, <1>10, <1>11, <1>12, <2>1, <2>4, <3>1 DEF Merged
  <2>5. CASE talks /\ ~before.started /\ ~starts
    BY <1>5, <1>7, <1>9, <1>10, <1>11, <1>12, <2>1, <2>5 DEF Merged
  <2> QED
    BY <1>11, <2>2, <2>3, <2>4, <2>5
<1>14. TablesOK(calls') /\ IDsClaimed(calls') /\ Known(calls', call) = pos
  BY <1>1, <1>8, <1>9, <1>12, AcceptedBuffer DEF before
<1>15. /\ Len(calls'.order) = Len(found.order) /\ calls'.order[pos] = stored
       /\ \A p \in 1..Len(found.order) : p # pos => calls'.order[p] = found.order[p]
  <2>1. /\ Claim(found, call).order = found.order
        /\ DOMAIN Claim(found, call) = DOMAIN found
    BY <1>2 DEF Claim, CallTables
  <2>2. calls'.order = [found.order EXCEPT ![pos] = stored]
    BY <1>2, <1>8, <2>1 DEF CallTables
  <2> QED
    BY <1>2, <1>12, <2>2
<1>16. call' = call
  BY DEF AcceptFragment, call, chunk
<1> HIDE DEF found, pos
<1>17. \A p \in 1..Len(found.order) : p # pos => p \in 1..Len(calls.order) /\ found.order[p] = calls.order[p]
  BY <1>2, <1>3
<1>18. IF pos \in 1..Len(calls.order) THEN before = calls.order[pos] ELSE before = NewBuffer(call.index)
  BY <1>2, <1>3 DEF before
<1> QED
  BY <1>2, <1>3, <1>13, <1>14, <1>15, <1>16, <1>17, <1>18 DEF before, delta, found

(***************************************************************************)
(* What was said of a call and what is postponed are what was merged.      *)
(* Arguments are postponed for a started call only while its flush runs.   *)
(* The emitter and the turn agree on the calls that started: the uniqueness*)
(* of the buffers' ids makes one buffer speak for each of them.            *)
(*                                                                         *)
(* The emitter outlives the turn.  earlier holds the ids it may know from  *)
(* turns before this one, none when the turn is alone: of these calls it   *)
(* drops the frames a second time, so only that they are known is claimed. *)
(***************************************************************************)
FlushOnly ==
    \A p \in 1..Len(calls.order) : calls.order[p].started =>
        /\ live /\ calls.order[p].id \in ToolIDs
        /\ calls.order[p].pendingArgs # <<>> =>
               pc = "flush" /\ p = Known(calls, call) /\ ~calls.order[p].ended

Backed(earlier) ==
    Good(em) => \A p \in 1..Len(calls.order) : calls.order[p].started =>
        /\ calls.order[p].id \in em.startedToolCalls
        /\ calls.order[p].id \notin earlier /\ ~calls.order[p].ended =>
               calls.order[p].id \notin em.endedToolCalls

StartedHeld(earlier) ==
    Good(em) => \A c \in em.startedToolCalls \ earlier :
        \E p \in 1..Len(calls.order) : calls.order[p].id = c /\ calls.order[p].started

Spoken(e, b) ==
    b.arguments = (IF b.started THEN Said(e, ArgumentFrames(b.id)) ELSE <<>>) \o b.pendingArgs

SpokenInv(earlier) ==
    live /\ Good(em) =>
        \A p \in 1..Len(calls.order) : calls.order[p].id \notin earlier => Spoken(em, calls.order[p])

ArgsInv(earlier) == FlushOnly /\ Backed(earlier) /\ StartedHeld(earlier) /\ SpokenInv(earlier)

-----------------------------------------------------------------------------
LEMMA SaidType ==
    ASSUME NEW e, EmitterInv(e), NEW S
    PROVE  Said(e, S) \in Seq(Delta)
<1> DEFINE sent == Selected(e.wire, S)
<1>1. sent \in Seq(Frames)
  BY SelectedElements DEF EmitterInv, EmitterType
<1>2. Said(e, S) = [i \in DOMAIN sent |-> sent[i].delta]
  BY DEF Said
<1> HIDE DEF sent
<1>3. \A i \in 1..Len(sent) : sent[i].delta \in Delta
  <2>1. \A f \in Frames : f.delta \in Delta
    BY DEF Frames
  <2> QED
    BY <1>1, <2>1
<1>4. Len(sent) \in Nat /\ Said(e, S) = [i \in 1..Len(sent) |-> sent[i].delta]
  BY <1>1, <1>2
<1> QED
  BY <1>3, <1>4

LEMMA HeadMoves ==
    ASSUME NEW S, NEW x \in Seq(S), NEW s \in Seq(S), s # <<>>
    PROVE  Append(x, Head(s)) \o Tail(s) = x \o s
<1>1. /\ Len(s) \in Nat \ {0} /\ Len(x) \in Nat /\ Head(s) = s[1] /\ Head(s) \in S
      /\ Tail(s) \in Seq(S) /\ Len(Tail(s)) = Len(s) - 1
      /\ \A i \in 1..(Len(s) - 1) : Tail(s)[i] = s[i + 1]
  OBVIOUS
<1> DEFINE l == Append(x, Head(s)) \o Tail(s)
           r == x \o s
<1>2. l \in Seq(S) /\ r \in Seq(S) /\ Len(l) = Len(r)
  BY <1>1
<1>3. \A i \in 1..Len(r) : l[i] = r[i]
  BY <1>1
<1> HIDE DEF l, r
<1>4. l = r
  BY <1>2, <1>3
<1> QED
  BY <1>4 DEF l, r

LEMMA CallFrames ==
    ASSUME NEW id
    PROVE  /\ Contents(ArgumentFrames(id))
           /\ \A c : \A delta \in Delta : c \in ToolID =>
                 (CallFrame("TOOL_CALL_ARGS", c, delta) \in ArgumentFrames(id) <=> c = id)
           /\ \A f \in ArgumentFrames(id) : f.type = "TOOL_CALL_ARGS" /\ f.call = id
<1>1. \A f \in ArgumentFrames(id) : f.type = "TOOL_CALL_ARGS" /\ f.call = id
  BY DEF ArgumentFrames
<1>2. NoMessage \in Nat /\ NoName \in Name
  BY DEF NoMessage, Name
<1>3. ASSUME NEW c, NEW delta \in Delta
      PROVE  CallFrame("TOOL_CALL_ARGS", c, delta) \in ArgumentFrames(id) <=> c = id
  BY <1>2 DEF ArgumentFrames, CallFrame
<1> QED
  BY <1>1, <1>3 DEF Contents, ContentTypes

(* Nothing is said of a call that did not start, and none ends unstarted.   *)
LEMMA UnstartedCall ==
    ASSUME NEW e, EmitterInv(e), NEW id \in ToolIDs, id \notin e.startedToolCalls
    PROVE  Said(e, ArgumentFrames(id)) = <<>> /\ id \notin e.endedToolCalls
<1>1. e \in EmitterType /\ OneLifecycle(e.wire) /\ RemembersCalls(e)
  BY DEF EmitterInv
<1>2. /\ e.wire \in Seq(Frames) /\ Len(e.wire) \in Nat /\ DOMAIN e.wire = 1..Len(e.wire)
  BY <1>1 DEF EmitterType
<1>3. \A j \in DOMAIN e.wire : ~Feeds(e.wire[j], id) /\ ~Ends(e.wire[j], id)
  BY <1>1, <1>2 DEF OneLifecycle, RemembersCalls
<1>4. \A f \in Sent(e) : f \notin ArgumentFrames(id)
  BY <1>3, CallFrames DEF Sent, Feeds
<1>5. id \notin e.endedToolCalls
  BY <1>1, <1>3 DEF RemembersCalls
<1> QED
  BY <1>1, <1>4, <1>5, SaidNothing

LEMMA StartRemembers ==
    ASSUME NEW e, WireOK(e), NEW id \in ToolIDs, NEW name \in Names, NEW parent \in Nat,
           Good(ToolStart(e, id, name, parent))
    PROVE  ToolStart(e, id, name, parent).startedToolCalls = e.startedToolCalls \cup {id}
<1> DEFINE closed == CloseOpenBlocks(e)
           start  == ToolStartFrame(id, name, parent)
           r      == ToolStart(e, id, name, parent)
<1>1. EmitterInv(e) /\ EmitterInv(closed) /\ SameCalls(closed, e)
  BY CloseKeepsInv DEF WireOK
<1>2. id \in ToolID /\ id # NoID /\ name \in Name /\ name # NoName
  BY NoIDAssumption, NoNameAssumption DEF ToolID, Name
<1>3. start \in Frames
  BY <1>2, ToolFramesAreFrames, NoDeltaType
<1>4. ~Wrote(closed, start) => ~Good(Emit(closed, start))
  BY <1>1, <1>3, EmitFact DEF EmitterInv
<1>5. /\ Emit(closed, start).startedToolCalls = closed.startedToolCalls
      /\ Emit(closed, start) \in EmitterType
  BY <1>1, <1>3, EmitFact DEF EmitterInv, SameCalls
<1>6. id \in e.endedToolCalls => id \in e.startedToolCalls
  BY <1>1, UnstartedCall
<1>7. r = IF id \in e.startedToolCalls THEN closed
          ELSE IF Wrote(closed, start)
          THEN [Emit(closed, start) EXCEPT !.startedToolCalls = @ \cup {id}] ELSE Emit(closed, start)
  BY <1>2, <1>6 DEF ToolStart, ToolStarted, ToolEnded
<1> HIDE DEF closed, start, r
<1>8. CASE id \in e.startedToolCalls
  BY <1>1, <1>7, <1>8 DEF SameCalls, r
<1>9. CASE id \notin e.startedToolCalls
  <2>1. Wrote(closed, start)
    BY <1>4, <1>7, <1>9 DEF r
  <2> QED
    BY <1>1, <1>5, <1>7, <1>9, <2>1 DEF EmitterType, SameCalls, r
<1> QED
  BY <1>8, <1>9

LEMMA EndRemembers ==
    ASSUME NEW e, WireOK(e), NEW id \in ToolIDs
    PROVE  ToolEnd(e, id).endedToolCalls \subseteq e.endedToolCalls \cup {id}
<1> DEFINE closed == CloseOpenBlocks(e)
           end    == CallFrame("TOOL_CALL_END", id, NoDelta)
           d      == ToolEnd(e, id)
<1>1. EmitterInv(e) /\ EmitterInv(closed) /\ SameCalls(closed, e)
  BY CloseKeepsInv DEF WireOK
<1>2. PICK name \in Name : TRUE
  BY DEF Name
<1>3. end \in Frames
  BY <1>2, ToolFramesAreFrames, NoDeltaType DEF ToolID
<1>4. Emit(closed, end).endedToolCalls = closed.endedToolCalls /\ Emit(closed, end) \in EmitterType
  BY <1>1, <1>3, EmitFact DEF EmitterInv, SameCalls
<1>5. d \in {e, Emit(closed, end), [Emit(closed, end) EXCEPT !.endedToolCalls = @ \cup {id}]}
  BY DEF ToolEnd
<1> HIDE DEF d, closed, end
<1> QED
  BY <1>1, <1>4, <1>5 DEF EmitterType, SameCalls, d

-----------------------------------------------------------------------------
LEMMA ArgsInit == Init => \A earlier : ArgsInv(earlier)
<1> SUFFICES ASSUME NEW earlier, Init PROVE ArgsInv(earlier)
  OBVIOUS
<1>1. calls.order = <<>> /\ em.startedToolCalls = {}
  BY DEF Init, NewEmitter, NoCalls
<1> QED
  BY <1>1 DEF ArgsInv, FlushOnly, Backed, StartedHeld, SpokenInv

(* The steps that leave the buffers alone, none of them in the flush of a   *)
(* started call.                                                            *)
LEMMA ArgsKept ==
    ASSUME NEW earlier \in SUBSET ToolIDs, TurnInv, ArgsInv(earlier),
           calls' = calls, live' = live, pc # "flush" \/ ~Flushing, SameCalls(em', em), Good(em') => Good(em),
           \A c \in ToolIDs : Said(em', ArgumentFrames(c)) = Said(em, ArgumentFrames(c))
    PROVE  ArgsInv(earlier)'
<1>1. \A p \in 1..Len(calls.order) : calls.order[p].started =>
         live /\ calls.order[p].id \in ToolIDs /\ calls.order[p].pendingArgs = <<>>
  BY DEF ArgsInv, FlushOnly, Flushing
<1>2. FlushOnly'
  BY <1>1 DEF FlushOnly
<1>3. Backed(earlier)' /\ StartedHeld(earlier)'
  BY DEF ArgsInv, Backed, StartedHeld, SameCalls
<1>4. SpokenInv(earlier)'
  <2> SUFFICES ASSUME live, Good(em'), NEW p \in 1..Len(calls.order), calls.order[p].id \notin earlier
               PROVE  Spoken(em', calls.order[p])
    BY DEF SpokenInv
  <2>1. Spoken(em, calls.order[p])
    BY DEF ArgsInv, SpokenInv
  <2> QED
    BY <1>1, <2>1 DEF Spoken
<1> QED
  BY <1>2, <1>3, <1>4 DEF ArgsInv

LEMMA BlocksArgs ==
    ASSUME NEW earlier \in SUBSET ToolIDs, TurnInv, TurnWireInv, ArgsInv(earlier),
           ApplyReasoning \/ ApplyText \/ EnsureToolOwner \/ CloseBlocks
    PROVE  ArgsInv(earlier)'
<1>1. calls' = calls /\ live' = live /\ pc # "flush"
  BY DEF ApplyReasoning, ApplyText, EnsureToolOwner, CloseBlocks, InTools, request
<1>2. SameCalls(em', em) /\ (Good(em') => Good(em))
  BY NoneHeld, ReasoningWrites, TextWrites, BlocksWrite
     DEF ApplyReasoning, ApplyText, TurnWireInv, ReasoningWritten, TextWritten, BlocksWritten
<1>3. ASSUME NEW c \in ToolIDs
      PROVE  Said(em', ArgumentFrames(c)) = Said(em, ArgumentFrames(c))
  <2> DEFINE S == ArgumentFrames(c)
  <2>1. /\ Contents(S) /\ \A id : /\ BlockFrame("REASONING_CONTENT", id, piece(0)) \notin S
                                  /\ BlockFrame("TEXT_CONTENT", id, piece(0)) \notin S
    BY CallFrames DEF BlockFrame
  <2> HIDE DEF S
  <2>2. CASE ApplyReasoning
    <3>1. Continues(EndText(em), em, S) /\ Continues(em', EndText(em), S)
      BY <2>1, <2>2, ReasoningSays
    <3> QED
      BY <3>1 DEF Continues, S
  <2>3. CASE ApplyText
    <3>1. Continues(EndReasoning(em), em, S) /\ Continues(em', EndReasoning(em), S)
      BY <2>1, <2>3, TextSays
    <3> QED
      BY <3>1 DEF Continues, S
  <2>4. CASE EnsureToolOwner \/ CloseBlocks
    <3> DEFINE quiet == EndReasoning(em)
    <3>1. em' \in {quiet, EndText(quiet)}
      BY <2>4 DEF EnsureToolOwner, CloseBlocks
    <3>2. text \in Block /\ reasoning \in Block /\ EmitterInv(em)
      BY DEF TurnInv, BlocksInv, EmitterOK
    <3>3. Continues(quiet, em, S)
      BY <2>1, <3>2, EndsSay
    <3> HIDE DEF quiet
    <3>4. EmitterInv(quiet)
      BY <3>3 DEF Continues
    <3>5. Continues(EndText(quiet), quiet, S)
      BY <2>1, <3>2, <3>4, EndsSay
    <3> QED
      BY <3>1, <3>3, <3>5 DEF Continues, S
  <2> QED
    BY <2>2, <2>3, <2>4 DEF S
<1> QED
  BY <1>1, <1>2, <1>3, ArgsKept

LEMMA EndCallArgs ==
    ASSUME NEW earlier \in SUBSET ToolIDs, TurnInv, TurnWireInv, ArgsInv(earlier), EndCall
    PROVE  ArgsInv(earlier)'
<1> DEFINE b == calls.order[cursor]
           c == [b EXCEPT !.ended = TRUE]
<1>1. calls \in CallTables /\ calls.order \in Seq(Buffers) /\ IDsClaimed(calls) /\ Len(calls.order) \in Nat
  BY DEF TurnInv, CallsInv, TablesOK, CallTables
<1>2. cursor \in 1..Len(calls.order) /\ pc = "end"
  BY <1>1 DEF EndCall, AllEnded, TurnInv, ControlInv
<1>3. /\ Len(calls'.order) = Len(calls.order)
      /\ \A p \in 1..Len(calls.order) :
            calls'.order[p] = IF p = cursor THEN c ELSE calls.order[p]
  BY <1>1, <1>2 DEF EndCall, CallTables
<1>4. b \in Buffers
  BY <1>1, <1>2
<1>5. /\ c.id = b.id /\ c.started = b.started /\ c.arguments = b.arguments /\ c.ended
      /\ c.pendingArgs = b.pendingArgs /\ b.id \in ToolID
  BY <1>4 DEF Buffers
<1>6. em' = IF b.started /\ ~b.ended THEN ToolEnd(em, b.id) ELSE em
  BY DEF EndCall
<1>7. live' = live
  BY DEF EndCall, request
<1> HIDE DEF b, c
<1>8. \A p \in 1..Len(calls.order) : calls.order[p].started =>
         live /\ calls.order[p].id \in ToolIDs /\ calls.order[p].pendingArgs = <<>>
  BY <1>2 DEF ArgsInv, FlushOnly
<1>9. EmitterInv(em) /\ WireOK(em) /\ \A id \in ToolIDs : Contents(ArgumentFrames(id))
  BY CallFrames DEF TurnInv, EmitterOK, TurnWireInv
<1>10. /\ em'.startedToolCalls = em.startedToolCalls
       /\ em'.endedToolCalls \subseteq em.endedToolCalls \cup (IF b.started THEN {b.id} ELSE {})
       /\ Good(em') => Good(em)
       /\ \A id \in ToolIDs : Continues(em', em, ArgumentFrames(id))
  <2>1. CASE em' = em
    BY <1>9, <2>1, ContinuesItself
  <2>2. CASE b.started /\ em' = ToolEnd(em, b.id)
    <3>1. b.id \in ToolIDs
      BY <1>2, <1>8, <2>2 DEF b
    <3>2. /\ em'.startedToolCalls = em.startedToolCalls /\ (Good(em') => Good(em))
      BY <1>5, <1>9, <2>2, ToolEndOrderly DEF ToolSent
    <3>3. em'.endedToolCalls \subseteq em.endedToolCalls \cup {b.id}
      BY <1>9, <2>2, <3>1, EndRemembers
    <3>4. \A id \in ToolIDs : Continues(em', em, ArgumentFrames(id))
      BY <1>5, <1>9, <2>2, ToolsSay, NoDeltaType DEF Name
    <3> QED
      BY <2>2, <3>2, <3>3, <3>4
  <2> QED
    BY <1>6, <2>1, <2>2
<1>11. FlushOnly'
  BY <1>2, <1>3, <1>5, <1>7, <1>8 DEF FlushOnly, b
<1>12. Backed(earlier)'
  <2> SUFFICES ASSUME Good(em'), NEW p \in 1..Len(calls.order), calls'.order[p].started
               PROVE  /\ calls'.order[p].id \in em'.startedToolCalls
                      /\ calls'.order[p].id \notin earlier /\ ~calls'.order[p].ended =>
                             calls'.order[p].id \notin em'.endedToolCalls
    BY <1>3 DEF Backed
  <2>1. calls'.order[p].id = calls.order[p].id /\ calls.order[p].started
    BY <1>2, <1>3, <1>5 DEF b
  <2>2. calls.order[p].id \in em.startedToolCalls /\ calls.order[p].id \in ToolIDs
    BY <1>8, <1>10, <2>1 DEF ArgsInv, Backed
  <2>3. ASSUME calls.order[p].id \notin earlier, ~calls'.order[p].ended
        PROVE  calls.order[p].id \notin em'.endedToolCalls
    <3>1. p # cursor /\ calls.order[p].id \notin em.endedToolCalls
      BY <1>3, <1>5, <1>10, <2>1, <2>3 DEF ArgsInv, Backed
    <3>2. calls.order[p].id # b.id
      BY <1>1, <1>2, <2>2, <3>1, NoIDAssumption DEF IDsClaimed, b
    <3> QED
      BY <1>10, <3>1, <3>2
  <2> QED
    BY <1>10, <2>1, <2>2, <2>3
<1>13. StartedHeld(earlier)'
  BY <1>2, <1>3, <1>5, <1>10 DEF ArgsInv, StartedHeld, b
<1>14. SpokenInv(earlier)'
  <2> SUFFICES ASSUME live, Good(em'), NEW p \in 1..Len(calls.order), calls'.order[p].id \notin earlier
               PROVE  Spoken(em', calls'.order[p])
    BY <1>3, <1>7 DEF SpokenInv
  <2>1. Spoken(em, calls.order[p])
    BY <1>3, <1>5, <1>10 DEF ArgsInv, SpokenInv, b
  <2>2. /\ calls'.order[p].arguments = calls.order[p].arguments
        /\ calls'.order[p].pendingArgs = calls.order[p].pendingArgs
        /\ calls'.order[p].started = calls.order[p].started
        /\ calls'.order[p].id = calls.order[p].id
    BY <1>3, <1>5 DEF b
  <2>3. calls.order[p].started =>
          Said(em', ArgumentFrames(calls.order[p].id)) = Said(em, ArgumentFrames(calls.order[p].id))
    BY <1>8, <1>10 DEF Continues
  <2> QED
    BY <2>1, <2>2, <2>3 DEF Spoken
<1> QED
  BY <1>11, <1>12, <1>13, <1>14 DEF ArgsInv

LEMMA RefuseArgs ==
    ASSUME NEW earlier \in SUBSET ToolIDs, TurnInv, ArgsInv(earlier), RefuseFragment
    PROVE  ArgsInv(earlier)'
<1>1. /\ TablesOK(calls) /\ IDsClaimed(calls) /\ call \in Fragments /\ Correlatable(call)
      /\ calls' = WithBuffer(calls, call) /\ UNCHANGED <<em, live>>
      /\ pc = "tools"
  BY CallFacts DEF RefuseFragment, InTools, TurnInv, CallsInv, request
<1>2. /\ Len(calls.order) <= Len(calls'.order)
      /\ \A p \in 1..Len(calls.order) : calls'.order[p] = calls.order[p]
      /\ \A p \in 1..Len(calls'.order) : p > Len(calls.order) => calls'.order[p] = NewBuffer(call.index)
  BY <1>1, FoundList
<1>3. Len(calls.order) \in Nat /\ Len(calls'.order) \in Nat
  <2>1. TablesOK(calls')
    BY <1>1, FoundBuffer
  <2> QED
    BY <1>1, <2>1 DEF TablesOK, CallTables
<1>4. ASSUME NEW p \in 1..Len(calls'.order)
      PROVE  \/ p \in 1..Len(calls.order) /\ calls'.order[p] = calls.order[p]
             \/ ~calls'.order[p].started /\ calls'.order[p].arguments = <<>> /\ calls'.order[p].pendingArgs = <<>>
  <2>1. p \in 1..Len(calls.order) \/ calls'.order[p] = NewBuffer(call.index)
    BY <1>2, <1>3
  <2> QED
    BY <1>2, <2>1 DEF NewBuffer
<1>5. FlushOnly'
  BY <1>1, <1>4 DEF ArgsInv, FlushOnly
<1>6. Backed(earlier)' /\ StartedHeld(earlier)'
  <2>1. 1..Len(calls.order) \subseteq 1..Len(calls'.order)
    BY <1>2, <1>3
  <2> QED
    BY <1>1, <1>2, <1>4, <2>1, SMTT(30) DEF ArgsInv, Backed, StartedHeld
<1>7. SpokenInv(earlier)'
  <2>1. <<>> \o <<>> = <<>>
    OBVIOUS
  <2> QED
    BY <1>1, <1>4, <2>1 DEF ArgsInv, SpokenInv, Spoken
<1> QED
  BY <1>5, <1>6, <1>7 DEF ArgsInv

(* The flush hands the first postponed text to the client: what was said    *)
(* and what is postponed stay what was merged.                              *)
LEMMA FlushArgs ==
    ASSUME NEW earlier \in SUBSET ToolIDs, TurnInv, TurnWireInv, ArgsInv(earlier), FlushArg
    PROVE  ArgsInv(earlier)'
<1> DEFINE pos == Known(calls, call)
           b   == calls.order[pos]
           d   == Head(b.pendingArgs)
           c   == [b EXCEPT !.pendingArgs = Tail(@)]
<1>1. /\ TablesOK(calls) /\ IDsClaimed(calls) /\ calls.order \in Seq(Buffers) /\ Len(calls.order) \in Nat
      /\ EmitterInv(em) /\ WireOK(em) /\ calls \in CallTables
      /\ call \in Fragments /\ Correlatable(call) /\ pos # 0
  BY CallFacts DEF FlushArg, TurnInv, TurnWireInv, CallsInv, TablesOK, CallTables, EmitterOK, ControlInv
<1>2. pos \in 1..Len(calls.order)
  BY <1>1, KnownType
<1>3. b \in Buffers /\ b.started /\ b.pendingArgs # <<>>
  BY <1>1, <1>2 DEF FlushArg, Flushing
<1>4. em' = ToolArgs(em, b.id, d) /\ live' = live /\ pc' = pc /\ pc = "flush" /\ call' = call
      /\ calls' = [calls EXCEPT !.order[pos] = c]
  BY DEF FlushArg, request, call, chunk
<1>5. /\ live /\ b.id \in ToolIDs /\ ~b.ended
      /\ \A p \in 1..Len(calls.order) : calls.order[p].started =>
            calls.order[p].id \in ToolIDs /\ (p # pos => calls.order[p].pendingArgs = <<>>)
  BY <1>2, <1>3 DEF ArgsInv, FlushOnly
<1>6. b.id \notin earlier =>
        /\ Good(em) => b.id \in em.startedToolCalls /\ b.id \notin em.endedToolCalls
        /\ live /\ Good(em) => Spoken(em, b)
  BY <1>2, <1>3, <1>5 DEF ArgsInv, Backed, SpokenInv
<1>7. calls'.order = [calls.order EXCEPT ![pos] = c]
  BY <1>1, <1>4 DEF CallTables
<1>8. ASSUME NEW p \in 1..Len(calls.order), p # pos, calls.order[p].started
      PROVE  calls.order[p].id # b.id
  BY <1>1, <1>2, <1>5, <1>8, NoIDAssumption DEF IDsClaimed
<1> HIDE DEF b
<1>9. b.pendingArgs \in Seq(Tokens) /\ d \in Tokens /\ Tail(b.pendingArgs) \in Seq(Tokens)
  <2>1. b.pendingArgs \in Seq(Tokens)
    BY <1>3 DEF Buffers
  <2> QED
    BY <1>3, <2>1
<1>10. /\ c \in Buffers /\ c.id = b.id /\ c.started /\ c.ended = b.ended /\ c.arguments = b.arguments
       /\ c.pendingArgs = Tail(b.pendingArgs)
  BY <1>3, <1>9 DEF Buffers
<1> HIDE DEF c, d
<1>11. /\ Len(calls'.order) = Len(calls.order) /\ calls'.order[pos] = c
       /\ \A p \in 1..Len(calls.order) : p # pos => calls'.order[p] = calls.order[p]
  BY <1>1, <1>2, <1>7
<1>12. Known(calls', call') = pos
  <2>1. b.id = calls.order[pos].id /\ (calls.order[pos].ended => c.ended)
    BY <1>10 DEF b
  <2> QED
    BY <1>1, <1>2, <1>4, <1>10, <2>1, ReplacedBuffer
<1> HIDE DEF pos
<1>13. SameCalls(em', em) /\ (Good(em') => Good(em))
  <2>1. b.id \in ToolID /\ d \in Delta
    BY <1>5, <1>9 DEF ToolID, Delta
  <2> QED
    BY <1>1, <1>4, <2>1, ToolArgsOrderly DEF ToolSent
<1>14. /\ \A id \in ToolIDs : id # b.id => Said(em', ArgumentFrames(id)) = Said(em, ArgumentFrames(id))
       /\ Good(em') /\ b.id \notin earlier =>
             Said(em', ArgumentFrames(b.id)) = Append(Said(em, ArgumentFrames(b.id)), d)
  <2>1. b.id \in ToolID /\ d \in Delta /\ b.id # NoID /\ d # NoDelta
    BY <1>5, <1>9, NoIDAssumption, NoDeltaAssumption DEF ToolID, Delta
  <2>2. PICK name \in Name : TRUE
    BY DEF Name
  <2>3. ASSUME NEW id \in ToolIDs
        PROVE  /\ Contents(ArgumentFrames(id))
               /\ CallFrame("TOOL_CALL_ARGS", b.id, d) \in ArgumentFrames(id) <=> b.id = id
    BY <2>1, CallFrames
  <2>4. ASSUME NEW id \in ToolIDs, id # b.id
        PROVE  Said(em', ArgumentFrames(id)) = Said(em, ArgumentFrames(id))
    <3>1. Continues(ToolArgs(em, b.id, d), em, ArgumentFrames(id))
      BY <1>1, <2>1, <2>3, <2>4, ToolsSay
    <3> QED
      BY <1>4, <3>1 DEF Continues
  <2>5. Good(em') /\ b.id \notin earlier =>
          Said(em', ArgumentFrames(b.id)) = Append(Said(em, ArgumentFrames(b.id)), d)
    BY <1>1, <1>4, <1>5, <1>6, <1>13, <2>1, <2>3, ToolsSay
  <2> QED
    BY <2>4, <2>5
<1>15. FlushOnly'
  <2> SUFFICES ASSUME NEW p \in 1..Len(calls.order), calls'.order[p].started
               PROVE  /\ live /\ calls'.order[p].id \in ToolIDs
                      /\ calls'.order[p].pendingArgs # <<>> => p = pos /\ ~calls'.order[p].ended
    BY <1>4, <1>11, <1>12 DEF FlushOnly
  <2> QED
    BY <1>5, <1>10, <1>11
<1>16. Backed(earlier)' /\ StartedHeld(earlier)'
  <2>1. \A p \in 1..Len(calls.order) :
           /\ calls'.order[p].id = calls.order[p].id /\ calls'.order[p].started = calls.order[p].started
           /\ calls'.order[p].ended = calls.order[p].ended
    BY <1>3, <1>10, <1>11 DEF b, Buffers
  <2> QED
    BY <1>11, <1>13, <2>1 DEF ArgsInv, Backed, StartedHeld, SameCalls
<1>17. SpokenInv(earlier)'
  <2> SUFFICES ASSUME live, Good(em'), NEW p \in 1..Len(calls.order), calls'.order[p].id \notin earlier
               PROVE  Spoken(em', calls'.order[p])
    BY <1>4, <1>11 DEF SpokenInv
  <2>1. CASE p = pos
    <3> DEFINE said == Said(em, ArgumentFrames(b.id))
    <3>0. b.id \notin earlier
      BY <1>10, <1>11, <2>1
    <3>1. b.arguments = said \o b.pendingArgs
      BY <1>3, <1>5, <1>6, <1>13, <3>0 DEF Spoken
    <3>2. said \in Seq(Delta) /\ b.pendingArgs \in Seq(Delta)
      <4>1. Tokens \subseteq Delta
        BY DEF Delta
      <4> QED
        BY <1>1, <1>9, <4>1, SaidType
    <3> HIDE DEF said
    <3>3. Append(said, d) \o Tail(b.pendingArgs) = said \o b.pendingArgs
      BY <1>3, <3>2, HeadMoves DEF d
    <3>4. c.arguments = Said(em', ArgumentFrames(c.id)) \o c.pendingArgs
      BY <1>10, <1>14, <3>0, <3>1, <3>3 DEF said
    <3> QED
      BY <1>10, <1>11, <2>1, <3>4 DEF Spoken
  <2>2. CASE p # pos
    <3>1. Spoken(em, calls.order[p])
      BY <1>11, <1>13, <2>2 DEF ArgsInv, SpokenInv
    <3>2. calls.order[p].started =>
            Said(em', ArgumentFrames(calls.order[p].id)) = Said(em, ArgumentFrames(calls.order[p].id))
      BY <1>5, <1>8, <1>14, <2>2
    <3> QED
      BY <1>11, <2>2, <3>1, <3>2 DEF Spoken
  <2> QED
    BY <2>1, <2>2
<1> QED
  BY <1>15, <1>16, <1>17 DEF ArgsInv

(* An accepted fragment changes one buffer.                                 *)
LEMMA AcceptArgs ==
    ASSUME NEW earlier \in SUBSET ToolIDs, TurnInv, TurnWireInv, ArgsInv(earlier), AcceptFragment
    PROVE  ArgsInv(earlier)'
<1> DEFINE pos    == Known(calls', call)
           before == WithBuffer(calls, call).order[pos]
           b      == calls'.order[pos]
           delta  == IF call.args THEN piece(cursor) ELSE NoDelta
           old    == 1..Len(calls.order)
           all    == 1..Len(calls'.order)
<1>1. /\ TablesOK(calls') /\ IDsClaimed(calls') /\ call' = call
      /\ pos \in all /\ Len(calls.order) <= Len(calls'.order)
      /\ \A p \in all : p # pos => p \in old /\ calls'.order[p] = calls.order[p]
      /\ IF pos \in old THEN before = calls.order[pos] ELSE before = NewBuffer(call.index)
      /\ Merged(before, b, delta)
  BY MergedBuffer
<1>2. /\ pc = "tools" /\ pc' = "flush" /\ live' = live /\ EmitterInv(em) /\ WireOK(em)
      /\ owner.id \in Nat /\ delta \in Delta /\ delta \in Tokens \cup {NoDelta}
  <2>1. pc = "tools" /\ pc' = "flush" /\ live' = live
    BY DEF AcceptFragment, InTools, request
  <2>2. owner.id \in Nat
    BY DEF TurnInv, TranscriptInv
  <2>3. piece(cursor) \in Tokens
    BY CallFacts DEF AcceptFragment
  <2> QED
    BY <2>1, <2>2, <2>3 DEF TurnInv, EmitterOK, TurnWireInv, Delta
<1>3. Len(calls.order) \in Nat /\ Len(calls'.order) \in Nat /\ old \subseteq all
  BY <1>1 DEF TurnInv, CallsInv, TablesOK, CallTables
<1>4. \A p \in old : calls.order[p].started =>
         live /\ calls.order[p].id \in ToolIDs /\ calls.order[p].pendingArgs = <<>>
  BY <1>2 DEF ArgsInv, FlushOnly
<1>5. \A p \in all : p # pos /\ b.id # NoID => calls'.order[p].id # b.id
  BY <1>1 DEF IDsClaimed
<1> HIDE DEF pos, before, b, delta
<1>6. /\ before.started => live /\ before.id \in ToolIDs /\ before.pendingArgs = <<>>
      /\ Good(em) /\ before.started =>
            /\ before.id \in em.startedToolCalls
            /\ before.id \notin earlier /\ ~before.ended => before.id \notin em.endedToolCalls
      /\ live /\ Good(em) /\ before.id \notin earlier => Spoken(em, before)
  <2>1. CASE pos \in old
    BY <1>1, <1>4, <2>1 DEF ArgsInv, Backed, SpokenInv
  <2>2. CASE pos \notin old
    <3>1. <<>> \o <<>> = <<>>
      OBVIOUS
    <3>2. ~before.started /\ before.arguments = <<>> /\ before.pendingArgs = <<>>
      BY <1>1, <2>2 DEF NewBuffer
    <3> HIDE DEF old
    <3>3. Spoken(em, before)
      BY <3>1, <3>2 DEF Spoken
    <3> QED
      BY <3>2, <3>3
  <2> QED
    BY <2>1, <2>2
<1>7. b \in Buffers /\ before \in Buffers
  BY <1>1 DEF Merged
<1>8. ASSUME live, Good(em), before.id \notin earlier, ~before.started
      PROVE  /\ before.arguments = before.pendingArgs
             /\ Join(before.arguments, delta) = <<>> \o Join(before.pendingArgs, delta)
  <2>1. before.arguments \in Seq(Tokens) /\ before.pendingArgs \in Seq(Tokens)
    BY <1>7 DEF Buffers
  <2>2. before.arguments = before.pendingArgs
    BY <1>6, <1>8, <2>1 DEF Spoken
  <2>3. Join(before.pendingArgs, delta) \in Seq(Tokens)
    BY <1>2, <2>1 DEF Join
  <2> QED
    BY <2>2, <2>3
<1>9. /\ b.started => live /\ b.id \in ToolIDs /\ (b.pendingArgs # <<>> => ~b.ended)
      /\ before.started => b.started /\ b.id = before.id
      /\ Good(em') => Good(em)
      /\ Good(em') => /\ em.startedToolCalls \subseteq em'.startedToolCalls
                      /\ em'.startedToolCalls \subseteq
                            em.startedToolCalls \cup (IF b.started THEN {b.id} ELSE {})
                      /\ em'.endedToolCalls = em.endedToolCalls
      /\ Good(em') /\ b.started =>
            /\ b.id \in em'.startedToolCalls
            /\ b.id \notin earlier /\ ~b.ended => b.id \notin em'.endedToolCalls
      /\ \A id \in ToolIDs : id # b.id => Said(em', ArgumentFrames(id)) = Said(em, ArgumentFrames(id))
      /\ live /\ Good(em') /\ b.id \notin earlier => Spoken(em', b)
  <2>1. before.started => before.id # NoID
    BY <1>6, NoIDAssumption
  <2>0. b.id \notin earlier => before.id \notin earlier
    BY <1>1, NoIDAssumption DEF Merged
  <2>2. CASE /\ ~live \/ before.ended
             /\ b.started = before.started /\ b.pendingArgs = before.pendingArgs
             /\ before.ended => b.arguments = before.arguments
             /\ em' = em
    <3>1. before.started => b.id = before.id
      BY <1>1, <2>1 DEF Merged
    <3>2. live /\ Good(em') /\ b.id \notin earlier => Spoken(em', b)
      BY <1>6, <2>0, <2>2, <3>1 DEF Spoken
    <3>3. b.ended = before.ended
      BY <1>1 DEF Merged
    <3> QED
      BY <1>6, <2>2, <3>1, <3>2, <3>3
  <2>3. CASE /\ live /\ ~before.ended /\ ~before.started
             /\ ~b.started /\ b.pendingArgs = Join(before.pendingArgs, delta)
             /\ b.arguments = Join(before.arguments, delta)
             /\ em' = em
    BY <1>1, <1>8, <2>0, <2>3 DEF Spoken
  <2>4. CASE /\ live /\ ~before.ended /\ before.started
             /\ b.started /\ b.pendingArgs = before.pendingArgs
             /\ b.arguments = Join(before.arguments, delta)
             /\ em' = ToolArgs(em, b.id, delta)
    <3>1. /\ b.id = before.id /\ b.id \in ToolIDs /\ b.id \in ToolID /\ b.pendingArgs = <<>>
          /\ b.id # NoID
      BY <1>1, <1>6, <2>1, <2>4 DEF Merged, ToolID
    <3>2. SameCalls(em', em) /\ (Good(em') => Good(em))
      BY <1>2, <2>4, <3>1, ToolArgsOrderly DEF ToolSent
    <3>3. PICK name \in Name : TRUE
      BY DEF Name
    <3>4. ASSUME NEW id \in ToolIDs
          PROVE  /\ Contents(ArgumentFrames(id))
                 /\ CallFrame("TOOL_CALL_ARGS", b.id, delta) \in ArgumentFrames(id) <=> b.id = id
      BY <1>2, <3>1, CallFrames
    <3>5. ASSUME NEW id \in ToolIDs, id # b.id
          PROVE  Said(em', ArgumentFrames(id)) = Said(em, ArgumentFrames(id))
      <4>1. Continues(ToolArgs(em, b.id, delta), em, ArgumentFrames(id))
        BY <1>2, <3>1, <3>4, <3>5, ToolsSay
      <4> QED
        BY <2>4, <4>1 DEF Continues
    <3>6. ASSUME Good(em'), b.id \notin earlier
          PROVE  Said(em', ArgumentFrames(b.id)) = Join(Said(em, ArgumentFrames(b.id)), delta)
      <4>1. CASE delta = NoDelta
        <5>1. em' = em
          BY <2>4, <4>1 DEF ToolArgs
        <5> QED
          BY <4>1, <5>1 DEF Join
      <4>2. CASE delta # NoDelta
        <5>1. b.id \in em.startedToolCalls /\ b.id \notin em.endedToolCalls
          BY <1>6, <2>4, <3>1, <3>2, <3>6
        <5>2. Said(em', ArgumentFrames(b.id)) = Append(Said(em, ArgumentFrames(b.id)), delta)
          BY <1>2, <2>4, <3>1, <3>4, <3>6, <4>2, <5>1, ToolsSay
        <5> QED
          BY <4>2, <5>2 DEF Join
      <4> QED
        BY <4>1, <4>2
    <3>7. Good(em') /\ b.id \notin earlier => Spoken(em', b)
      <4> SUFFICES ASSUME Good(em'), b.id \notin earlier PROVE Spoken(em', b)
        OBVIOUS
      <4> DEFINE said == Said(em, ArgumentFrames(b.id))
                 now  == Said(em', ArgumentFrames(b.id))
      <4>1. before.arguments = said \o <<>>
        BY <1>6, <2>4, <3>1, <3>2 DEF Spoken
      <4>2. said \in Seq(Delta)
        BY <1>2, SaidType
      <4>3. now = Join(said, delta)
        BY <3>6
      <4> HIDE DEF said, now
      <4>4. before.arguments = said
        BY <4>1, <4>2
      <4>5. now \in Seq(Delta)
        BY <1>2, <4>2, <4>3 DEF Join
      <4>6. b.arguments = now \o <<>>
        BY <2>4, <4>3, <4>4, <4>5
      <4> QED
        BY <2>4, <3>1, <4>6 DEF Spoken, now
    <3> QED
      BY <1>6, <2>4, <3>1, <3>2, <3>5, <3>7 DEF SameCalls
  <2>5. CASE /\ live /\ ~before.ended /\ ~before.started
             /\ b.started /\ b.pendingArgs = Join(before.pendingArgs, delta)
             /\ b.arguments = Join(before.arguments, delta)
             /\ b.id \in ToolIDs /\ b.name \in Names
             /\ em' = ToolStart(em, b.id, b.name, owner.id)
    <3>1. b.id \in ToolID /\ b.id # NoID /\ b.name \in Name /\ ~b.ended
      BY <1>1, <2>5, NoIDAssumption DEF ToolID, Name, Merged
    <3>2. Good(em') => Good(em)
      BY <1>2, <2>5, <3>1, ToolStartOrderly DEF ToolSent
    <3>3. ASSUME Good(em), b.id \notin earlier PROVE b.id \notin em.startedToolCalls
      <4>1. ASSUME NEW p \in old, calls.order[p].id = b.id, calls.order[p].started
            PROVE  FALSE
        <5>1. p # pos
          BY <1>1, <2>5, <4>1
        <5> QED
          BY <1>1, <1>3, <1>5, <3>1, <4>1, <5>1
      <4> QED
        BY <3>3, <4>1 DEF ArgsInv, StartedHeld
    <3>4. em'.endedToolCalls = em.endedToolCalls
      BY <1>2, <2>5, <3>1, ToolStartOrderly
    <3>5. Good(em') => em'.startedToolCalls = em.startedToolCalls \cup {b.id}
      BY <1>2, <2>5, StartRemembers
    <3>6. ASSUME NEW id \in ToolIDs
          PROVE  Said(em', ArgumentFrames(id)) = Said(em, ArgumentFrames(id))
      <4>1. Continues(ToolStart(em, b.id, b.name, owner.id), em, ArgumentFrames(id))
        BY <1>2, <3>1, CallFrames, ToolsSay
      <4> QED
        BY <2>5, <4>1 DEF Continues
    <3>7. Good(em) /\ b.id \notin earlier =>
            Said(em, ArgumentFrames(b.id)) = <<>> /\ b.id \notin em.endedToolCalls
      BY <1>2, <2>5, <3>3, UnstartedCall
    <3>8. Good(em') /\ b.id \notin earlier => Spoken(em', b)
      BY <1>8, <2>0, <2>5, <3>2, <3>6, <3>7 DEF Spoken
    <3> QED
      BY <2>5, <3>1, <3>2, <3>4, <3>5, <3>6, <3>7, <3>8
  <2> QED
    BY <1>1, <2>2, <2>3, <2>4, <2>5 DEF Merged
<1>10. \A p \in all : p # pos /\ calls'.order[p].started => calls'.order[p].id # b.id
  BY <1>1, <1>4, <1>5, NoIDAssumption
<1>11. FlushOnly'
  <2> SUFFICES ASSUME NEW p \in all, calls'.order[p].started
               PROVE  /\ live /\ calls'.order[p].id \in ToolIDs
                      /\ calls'.order[p].pendingArgs # <<>> => p = pos /\ ~calls'.order[p].ended
    BY <1>1, <1>2 DEF FlushOnly, pos
  <2>1. calls'.order[pos] = b
    BY DEF b
  <2> QED
    BY <1>1, <1>4, <1>9, <2>1
<1>12. Backed(earlier)'
  <2> SUFFICES ASSUME Good(em'), NEW p \in all, calls'.order[p].started
               PROVE  /\ calls'.order[p].id \in em'.startedToolCalls
                      /\ calls'.order[p].id \notin earlier /\ ~calls'.order[p].ended =>
                             calls'.order[p].id \notin em'.endedToolCalls
    BY DEF Backed
  <2>1. CASE p = pos
    BY <1>9, <2>1 DEF b
  <2>2. CASE p # pos
    <3>1. p \in old /\ calls'.order[p] = calls.order[p]
      BY <1>1, <2>2
    <3> QED
      BY <1>9, <3>1 DEF ArgsInv, Backed
  <2> QED
    BY <2>1, <2>2
<1>13. StartedHeld(earlier)'
  <2> SUFFICES ASSUME Good(em'), NEW c \in em'.startedToolCalls \ earlier
               PROVE  \E p \in all : calls'.order[p].id = c /\ calls'.order[p].started
    BY DEF StartedHeld
  <2>1. CASE c \in em.startedToolCalls
    <3>1. PICK p \in old : calls.order[p].id = c /\ calls.order[p].started
      BY <1>9, <2>1 DEF ArgsInv, StartedHeld
    <3>2. calls'.order[p].id = c /\ calls'.order[p].started
      BY <1>1, <1>3, <1>9, <3>1 DEF b
    <3> QED
      BY <1>3, <3>2
  <2>2. CASE b.started /\ c = b.id
    BY <1>1, <2>2 DEF b
  <2> QED
    BY <1>9, <2>1, <2>2
<1>14. SpokenInv(earlier)'
  <2> SUFFICES ASSUME live, Good(em'), NEW p \in all, calls'.order[p].id \notin earlier
               PROVE  Spoken(em', calls'.order[p])
    BY <1>2 DEF SpokenInv
  <2>1. CASE p = pos
    BY <1>9, <2>1 DEF b
  <2>2. CASE p # pos
    <3>1. p \in old /\ calls'.order[p] = calls.order[p] /\ Spoken(em, calls.order[p])
      BY <1>1, <1>9, <2>2 DEF ArgsInv, SpokenInv
    <3>2. calls.order[p].started =>
            Said(em', ArgumentFrames(calls.order[p].id)) = Said(em, ArgumentFrames(calls.order[p].id))
      BY <1>4, <1>9, <1>10, <2>2, <3>1
    <3> QED
      BY <3>1, <3>2 DEF Spoken
  <2> QED
    BY <2>1, <2>2
<1> QED
  BY <1>11, <1>12, <1>13, <1>14 DEF ArgsInv

LEMMA ArgsNext ==
    ASSUME NEW earlier \in SUBSET ToolIDs, TurnInv, TurnWireInv, ArgsInv(earlier), [Next]_vars
    PROVE  ArgsInv(earlier)'
<1>1. CASE UNCHANGED vars \/ Returned \/ Cancel
  <2>1. UNCHANGED <<em, live, calls, pc, chunks, cursor>>
    BY <1>1 DEF vars, Returned, Cancel
  <2> QED
    BY <2>1 DEF ArgsInv, FlushOnly, Backed, StartedHeld, SpokenInv, call, chunk
<1>2. CASE \/ OpenStream \/ CheckRequest \/ Recv \/ CallsEnded \/ SkipFragment \/ FragmentDone
           \/ ChunkDone \/ OpenFails \/ ConcludeEmpty \/ Conclude
  <2>1. UNCHANGED <<em, live, calls>>
    BY <1>2 DEF OpenStream, CheckRequest, Recv, RecvEOF, RecvError, RecvChunk, RecvKeepAlive,
                CallsEnded, SkipFragment, FragmentDone, ChunkDone, OpenFails, ConcludeEmpty,
                Conclude, request
  <2>2. pc # "flush" \/ ~Flushing
    BY <1>2 DEF OpenStream, CheckRequest, Recv, RecvEOF, RecvError, RecvChunk, RecvKeepAlive,
                CallsEnded, SkipFragment, FragmentDone, ChunkDone, OpenFails, ConcludeEmpty,
                Conclude, InTools
  <2> QED
    BY <2>1, <2>2, ArgsKept DEF SameCalls
<1>3. CASE ApplyReasoning \/ ApplyText \/ EnsureToolOwner \/ CloseBlocks
  BY <1>3, BlocksArgs
<1>4. CASE EndCall \/ RefuseFragment
  BY <1>4, EndCallArgs, RefuseArgs
<1>5. CASE AcceptFragment \/ FlushArg
  BY <1>5, AcceptArgs, FlushArgs
<1> QED
  BY <1>1, <1>2, <1>3, <1>4, <1>5 DEF Next, TurnStep, Apply, Finish

LEMMA ArgsAlways == Spec => [](TurnInv /\ TurnWireInv /\ ArgsInv({}))
<1>1. Init => ArgsInv({})
  BY ArgsInit
<1>2. TurnInv /\ TurnWireInv /\ ArgsInv({}) /\ [Next]_vars => ArgsInv({})'
  BY ArgsNext
<1> QED
  BY <1>1, <1>2, WireAlways, PTL DEF Spec

(* Between a buffer and the client no argument text is lost, duplicated or  *)
(* reordered: for each call, what toolCallBuffer.update sent and what it    *)
(* keeps in pendingArgs add up to what it merged, in that order;            *)
(* startIfReady flushes the rest.                                           *)
THEOREM ArgumentsReachTheWire == Spec => []ArgumentsConserved
<1>1. TurnInv /\ TurnWireInv /\ ArgsInv({}) => ArgumentsConserved
  <2> SUFFICES ASSUME TurnInv, ArgsInv({}), live, Good(em), NEW p \in DOMAIN buffers
               PROVE  LET b == buffers[p] IN
                      b.arguments = (IF b.started THEN ArgumentsOnWire(b.id) ELSE <<>>) \o b.pendingArgs
    BY DEF ArgumentsConserved, Lossless, Good
  <2>1. p \in 1..Len(calls.order)
    BY DEF buffers, TurnInv, CallsInv, TablesOK, CallTables
  <2>2. Spoken(em, calls.order[p])
    BY <2>1 DEF ArgsInv, SpokenInv
  <2> QED
    BY <2>2 DEF Spoken, Said, ArgumentsOnWire, DeltasOf, wire, buffers
<1> QED
  BY <1>1, ArgsAlways, PTL

-----------------------------------------------------------------------------
LEMMA SelectedKeeps ==
    ASSUME NEW S, NEW list \in Seq(S), NEW wanted, NEW n \in DOMAIN list, list[n] \in wanted
    PROVE  \E i \in DOMAIN Selected(list, wanted) : Selected(list, wanted)[i] = list[n]
<1>1. /\ Selected(list, wanted) \in Seq(S)
      /\ \A i \in DOMAIN Selected(list, wanted) :
            /\ Selected(list, wanted)[i] \in wanted
            /\ \E m \in DOMAIN list : Selected(list, wanted)[i] = list[m]
      /\ \A m \in DOMAIN list : list[m] \in wanted =>
            \E i \in DOMAIN Selected(list, wanted) : Selected(list, wanted)[i] = list[m]
  BY SelectedElements
<1> QED
  BY <1>1, Zenon

LEMMA MergedCalls ==
    ASSUME NEW order \in Seq(Buffers), NEW p \in 1..Len(order), order[p].id \in ToolIDs
    PROVE  LET merged == MergedToolCalls(order) IN
           /\ merged \in Seq(MergedCall) /\ p \in DOMAIN merged /\ merged[p] \in ReferredCall
           /\ merged[p].id = order[p].id /\ merged[p].arguments = order[p].arguments
<1>1. MergedToolCalls(order) \in Seq(MergedCall)
  BY MergedType
<1>2. DOMAIN order = 1..Len(order) /\ order[p] \in Buffers
  OBVIOUS
<1>3. DOMAIN MergedToolCalls(order) = 1..Len(order)
  BY <1>2 DEF MergedToolCalls
<1>4. MergedToolCalls(order)[p] =
        [id |-> order[p].id, name |-> order[p].name, arguments |-> order[p].arguments]
  BY <1>2 DEF MergedToolCalls
<1>5. order[p].name \in Name /\ order[p].arguments \in Seq(Tokens)
  BY <1>2 DEF Buffers
<1>6. MergedToolCalls(order)[p] \in ReferredCall
  BY <1>4, <1>5 DEF ReferredCall
<1> QED
  BY <1>1, <1>3, <1>4, <1>6

(* The response hands the caller the calls the client saw.                  *)
LEMMA ConcludeOwner ==
    ASSUME TurnInv, StartedInv({}), ArgsInv({}), Conclude
    PROVE  OwnerCallsMatchWire'
<1> DEFINE merged == MergedToolCalls(calls.order)
<1> SUFFICES ASSUME result'.assistant, primary' # "correlation", Good(em'),
                    NEW id \in em'.startedToolCalls
             PROVE  \E c \in DOMAIN wireMessages'[owner'.index].calls :
                       LET tc == wireMessages'[owner'.index].calls[c]
                       IN  tc.id = id /\ tc.arguments = ArgumentsOnWire(id)'
  BY DEF OwnerCallsMatchWire, Lossless, Good
<1>1. em' = em /\ owner' = owner /\ pc = "conclude"
  BY DEF Conclude
<1>2. /\ EmitterInv(em) /\ em \in EmitterType /\ RemembersCalls(em) /\ id \in ToolIDs
      /\ calls.order \in Seq(Buffers) /\ Len(calls.order) \in Nat
      /\ DOMAIN calls.order = 1..Len(calls.order)
  BY <1>1 DEF TurnInv, EmitterOK, EmitterInv, EmitterType, CallsInv, TablesOK, CallTables
<1>3. owner # NoOwner
  <2>1. PICK j \in DOMAIN em.wire : em.wire[j].type = "TOOL_CALL_START"
    BY <1>1, <1>2 DEF RemembersCalls, Starts
  <2> QED
    BY <2>1 DEF StartedInv, StartsUnder, Allowed
<1>4. owner.index \in DOMAIN wireMessages /\ wireMessages \in Seq(Message)
  BY <1>1, <1>3, TranscriptSoFar DEF StartedInv, OwnerListed
<1>5. wireMessages' = Attach(merged)
  <2>1. PICK concat \in BOOLEAN :
          /\ primary' = IF ~concat /\ primary = "none" THEN "concat" ELSE primary
          /\ result' = [returned |-> TRUE, assistant |-> concat, calls |-> ResponseCalls(concat),
                        partial |-> primary' # "none"]
          /\ wireMessages' = IF primary' # "correlation" /\ concat /\ owner # NoOwner
                             THEN Attach(ResponseCalls(concat)) ELSE wireMessages
    BY DEF Conclude
  <2>2. concat /\ primary' = primary
    BY <2>1
  <2> QED
    BY <1>3, <2>1, <2>2 DEF ResponseCalls
<1>6. wireMessages'[owner.index].calls = Selected(merged, ReferredCall)
  <2>1. \A m \in Message : DOMAIN m = {"id", "role", "content", "calls"}
    BY DEF Message
  <2>2. wireMessages[owner.index] \in Message
    BY <1>4
  <2> QED
    BY <1>4, <1>5, <2>1, <2>2 DEF Attach, ToAGUIToolCalls
<1>7. PICK p \in 1..Len(calls.order) : calls.order[p].id = id /\ calls.order[p].started
  BY <1>1 DEF ArgsInv, StartedHeld
<1>8. live /\ calls.order[p].pendingArgs = <<>> /\ calls.order[p] \in Buffers
  BY <1>1, <1>2, <1>7 DEF ArgsInv, FlushOnly
<1>9. calls.order[p].arguments = ArgumentsOnWire(id)
  <2> DEFINE said == Said(em, ArgumentFrames(id))
  <2>1. said \in Seq(Delta)
    BY <1>2, SaidType
  <2>2. calls.order[p].arguments = said \o <<>>
    BY <1>1, <1>7, <1>8 DEF ArgsInv, SpokenInv, Spoken
  <2>3. said = ArgumentsOnWire(id)
    BY DEF Said, ArgumentsOnWire, DeltasOf, wire
  <2> HIDE DEF said
  <2> QED
    BY <2>1, <2>2, <2>3
<1>10. /\ merged \in Seq(MergedCall) /\ p \in DOMAIN merged
       /\ merged[p].id = id /\ merged[p].arguments = ArgumentsOnWire(id)
       /\ merged[p] \in ReferredCall
  BY <1>2, <1>7, <1>8, <1>9, MergedCalls
<1> HIDE DEF merged
<1>11. PICK c \in DOMAIN Selected(merged, ReferredCall) : Selected(merged, ReferredCall)[c] = merged[p]
  BY <1>10, SelectedKeeps
<1>12. ArgumentsOnWire(id)' = ArgumentsOnWire(id)
  BY <1>1 DEF ArgumentsOnWire, DeltasOf, wire
<1> QED
  BY <1>1, <1>6, <1>10, <1>11, <1>12

LEMMA OwnerNext ==
    TurnInv /\ StartedInv({}) /\ ArgsInv({}) /\ OwnerCallsMatchWire /\ [Next]_vars => OwnerCallsMatchWire'
<1> SUFFICES ASSUME TurnInv, StartedInv({}), ArgsInv({}), OwnerCallsMatchWire, [Next]_vars
             PROVE  OwnerCallsMatchWire'
  OBVIOUS
<1>1. CASE UNCHANGED vars \/ Returned
  BY <1>1 DEF vars, Returned, OwnerCallsMatchWire, Lossless, ArgumentsOnWire, DeltasOf, wire
<1>2. CASE Conclude
  BY <1>2, ConcludeOwner
<1>3. CASE OpenFails \/ ConcludeEmpty
  <2>1. pc # "done" => ~result.assistant
    BY DEF TurnInv, ReturnInv, NotReturned
  <2>2. ~result'.assistant
    BY <1>3, <2>1 DEF OpenFails, ConcludeEmpty, NotReturned
  <2> QED
    BY <2>2 DEF OwnerCallsMatchWire
<1>4. CASE Cancel \/ OpenStream \/ CheckRequest \/ Recv \/ Apply \/ CloseBlocks
  <2>1. pc' # "done"
    BY <1>4 DEF Cancel, OpenStream, CheckRequest, Recv, RecvEOF, RecvError, RecvChunk, RecvKeepAlive,
                Apply, EndCall, CallsEnded, ApplyReasoning, ApplyText, SkipFragment, EnsureToolOwner,
                RefuseFragment, AcceptFragment, FlushArg, FragmentDone, ChunkDone, CloseBlocks, Fail,
                InTools, TurnInv, ControlInv
  <2> QED
    BY <2>1 DEF OwnerCallsMatchWire
<1> QED
  BY <1>1, <1>2, <1>3, <1>4 DEF Next, TurnStep, Finish

(* A turn that returns a response leaves in its owner message, which        *)
(* convert.ToAGUIToolCalls fills, every call the client saw start, under its*)
(* id and with exactly the arguments that were streamed to the client.      *)
THEOREM CallerGetsStreamedCalls == Spec => []OwnerCallsMatchWire
<1>1. Init => OwnerCallsMatchWire
  BY DEF Init, OwnerCallsMatchWire
<1>2. Init => StartedInv({})
  BY StartedInit
<1>3. TurnInv /\ StartedInv({}) /\ [Next]_vars => StartedInv({})'
  BY StartedNext
<1> QED
  BY <1>1, <1>2, <1>3, ArgsAlways, OwnerNext, PTL DEF Spec

(***************************************************************************)
(* The refinement.                                                         *)
(***************************************************************************)
LEMMA InitRefines == Init => Log!Init
<1> SUFFICES ASSUME Init PROVE Log!Init
  OBVIOUS
<1>1. ~em.err
  BY DEF Init, NewEmitter
<1> QED
  BY <1>1 DEF Init, Log!Init, Log!None, Log!Entry, OpenMessage, NoOpenMessage, TurnState, Closed,
              NoOwner, NotReturned

(* While the client is there: what the log shows as open, and completed. *)
LEMMA OpenFacts ==
    ASSUME TurnInv, ~em.err
    PROVE  /\ text.open => OpenMessage = Plain(text.id, "assistant", text.content)
           /\ reasoning.open => OpenMessage = Plain(reasoning.id, "reasoning", reasoning.content)
           /\ ~text.open /\ ~reasoning.open => OpenMessage = Log!None
           /\ text.open \/ reasoning.open => OpenMessage # Log!None
           /\ text.open => Log!Completed = Append(wireMessages, OpenMessage)
           /\ reasoning.open => Log!Completed = Append(wireMessages, OpenMessage)
           /\ ~text.open /\ ~reasoning.open => Log!Completed = wireMessages
<1>1. ~(text.open /\ reasoning.open)
  BY DEF TurnInv, BlocksInv
<1>2. /\ text.open => OpenMessage = Plain(text.id, "assistant", text.content)
      /\ reasoning.open => OpenMessage = Plain(reasoning.id, "reasoning", reasoning.content)
      /\ ~text.open /\ ~reasoning.open => OpenMessage = Log!None
  BY <1>1 DEF OpenMessage, NoOpenMessage, Log!None, Log!Entry
<1>3. \A id, content : /\ Plain(id, "assistant", content) # Log!None
                       /\ Plain(id, "reasoning", content) # Log!None
  BY DEF Plain, Log!None, Log!Entry
<1> QED
  BY <1>2, <1>3 DEF Log!Completed

LEMMA GrownMessage ==
    ASSUME NEW m, NEW id, NEW role, NEW content, m = Plain(id, role, content), NEW p
    PROVE  [m EXCEPT !.content = Append(@, p)] = Plain(id, role, Append(content, p))
  BY DEF Plain

(* Once the client is lost nothing is open. *)
LEMMA LostFacts ==
    /\ em.err => OpenMessage = Log!None
    /\ em'.err => OpenMessage' = Log!None
  BY DEF OpenMessage, NoOpenMessage, Log!None, Log!Entry

(* A step that only touches the emitter loses the client, or shows nothing. *)
LEMMA EmitterStep ==
    ASSUME TurnInv, pc # "done", pc' # "done", em.err => em'.err,
           em'.err \in BOOLEAN,
           UNCHANGED <<text, reasoning, wireMessages, nextID, owner, result>>
    PROVE  [Log!Next]_Log!vars
<1>1. em.err \in BOOLEAN
  BY DEF TurnInv, EmitterOK, EmitterInv, EmitterType
<1>2. CASE ~em.err /\ em'.err
  <2>1. Log!Lose
    BY <1>2, LostFacts DEF Log!Lose, TurnState
  <2> QED
    BY <2>1 DEF Log!Next
<1>3. CASE em.err = em'.err
  BY <1>3 DEF Log!vars, OpenMessage, TurnState
<1> QED
  BY <1>1, <1>2, <1>3

(* What every step that may lose the client has in common: from a state     *)
(* with a client, the log frozen or completed and at most one id taken.     *)
LEMMA LoseStep ==
    ASSUME TurnInv, ~em.err, em'.err, pc # "done", pc' # "done",
           wireMessages' \in {wireMessages, Log!Completed},
           nextID' \in {nextID, nextID + 1},
           UNCHANGED <<owner, result>>
    PROVE  [Log!Next]_Log!vars
<1>1. nextID \in Nat \ {0}
  BY DEF TurnInv, BlocksInv
<1>2. UNCHANGED <<owner.index, result.returned /\ ~result.partial>>
  BY Zenon
<1>3. (nextID - 1)' \in {nextID - 1, nextID - 1 + 1}
  <2>1. CASE nextID' = nextID
    BY <2>1
  <2>2. CASE nextID' = nextID + 1
    BY <1>1, <2>2
  <2> QED
    BY <2>1, <2>2
<1>4. Log!Lose
  BY <1>2, <1>3, LostFacts DEF Log!Lose, TurnState
<1> QED
  BY <1>4 DEF Log!Next

(* A delta goes to the open block of its kind, or to a new one. *)
LEMMA ReasoningRefines == TurnInv /\ ApplyReasoning => [Log!Next]_Log!vars
<1> SUFFICES ASSUME TurnInv, ApplyReasoning
             PROVE  [Log!Next]_Log!vars
  OBVIOUS
<1>1. PICK closed, opened : ReasoningApplied(closed, opened)
  BY ReasoningStep
<1>2. /\ ~em.err /\ pc = "reasoning" /\ pc' # "done" /\ nextID \in Nat \ {0}
      /\ ~(text.open /\ reasoning.open) /\ reasoning \in Block
      /\ ~reasoning.open => reasoning.content = <<>>
      /\ em'.err \in BOOLEAN /\ piece(0) \in Tokens
  BY <1>1, ChunkFacts DEF ApplyReasoning, TurnInv, EmitterOK, BlocksInv, Connected, InChunk,
                          ReasoningApplied, EmitterInv, EmitterType
<1>3. UNCHANGED <<owner, result>>
  BY <1>1 DEF ReasoningApplied
<1>4. wireMessages' = IF text.open /\ ~closed.err THEN Log!Completed ELSE wireMessages
  BY <1>1, <1>2, OpenFacts DEF ReasoningApplied, WithText
<1>5. CASE em'.err
  <2>1. nextID' \in {nextID, nextID + 1}
    BY <1>1 DEF ReasoningApplied
  <2> QED
    BY <1>2, <1>3, <1>4, <1>5, <2>1, LoseStep
<1>6. CASE ~em'.err
  <2> DEFINE id == IF reasoning.open THEN reasoning.id ELSE nextID
  <2>1. /\ ~closed.err /\ text' = Closed
        /\ nextID' = IF reasoning.open THEN nextID ELSE nextID + 1
        /\ reasoning' = [id |-> id, content |-> Append(reasoning.content, piece(0)), open |-> TRUE]
    BY <1>1, <1>6 DEF ReasoningApplied, Grown
  <2>2. OpenMessage' = Plain(id, "reasoning", Append(reasoning.content, piece(0)))
    BY <1>6, <2>1, ClosedType DEF OpenMessage
  <2>3. TurnState = "running" /\ TurnState' = "running"
    BY <1>2, <1>6 DEF TurnState
  <2>4. CASE reasoning.open
    <3>1. OpenMessage = Plain(reasoning.id, "reasoning", reasoning.content)
          /\ OpenMessage # Log!None
      BY <1>2, <2>4, OpenFacts
    <3>2. OpenMessage' = [OpenMessage EXCEPT !.content = Append(@, piece(0))]
      <4>1. [OpenMessage EXCEPT !.content = Append(@, piece(0))]
              = Plain(reasoning.id, "reasoning", Append(reasoning.content, piece(0)))
        BY <3>1, GrownMessage
      <4> QED
        BY <2>2, <2>4, <4>1
    <3>3. Log!Continue
      BY <1>2, <1>3, <1>4, <2>1, <2>3, <2>4, <3>1, <3>2 DEF Log!Continue
    <3> QED
      BY <3>3 DEF Log!Next
  <2>5. CASE ~reasoning.open
    <3>1. OpenMessage.role # "reasoning"
      BY <1>2, <2>5, OpenFacts DEF Plain, Log!None, Log!Entry
    <3>2. wireMessages' = Log!Completed
      BY <1>2, <1>4, <2>1, <2>5, OpenFacts
    <3>3. OpenMessage' = Log!Entry(nextID - 1 + 1, "reasoning", <<piece(0)>>)
      <4>1. Append(<<>>, piece(0)) = <<piece(0)>>
        OBVIOUS
      <4>2. nextID - 1 + 1 = nextID
        BY <1>2
      <4> QED
        BY <1>2, <2>2, <2>5, <4>1, <4>2 DEF Plain, Log!Entry
    <3>4. nextID' - 1 = nextID - 1 + 1
      BY <1>2, <2>1, <2>5
    <3>5. Log!Switch
      BY <1>2, <1>3, <2>3, <3>1, <3>2, <3>3, <3>4 DEF Log!Switch, Log!Roles
    <3> QED
      BY <3>5 DEF Log!Next
  <2> QED
    BY <2>4, <2>5
<1> QED
  BY <1>2, <1>5, <1>6

(* The same of a text delta. *)
LEMMA TextRefines == TurnInv /\ ApplyText => [Log!Next]_Log!vars
<1> SUFFICES ASSUME TurnInv, ApplyText
             PROVE  [Log!Next]_Log!vars
  OBVIOUS
<1>1. PICK closed, opened : TextApplied(closed, opened)
  BY TextStep
<1>2. /\ ~em.err /\ pc = "text" /\ pc' # "done" /\ nextID \in Nat \ {0}
      /\ ~(reasoning.open /\ text.open) /\ text \in Block
      /\ ~text.open => text.content = <<>>
      /\ em'.err \in BOOLEAN /\ piece(0) \in Tokens
  BY <1>1, ChunkFacts DEF ApplyText, TurnInv, EmitterOK, BlocksInv, Connected, InChunk,
                          TextApplied, EmitterInv, EmitterType
<1>3. UNCHANGED <<owner, result>>
  BY <1>1 DEF TextApplied
<1>4. wireMessages' = IF reasoning.open /\ ~closed.err THEN Log!Completed ELSE wireMessages
  BY <1>1, <1>2, OpenFacts DEF TextApplied, WithReasoning
<1>5. CASE em'.err
  <2>1. nextID' \in {nextID, nextID + 1}
    BY <1>1 DEF TextApplied
  <2> QED
    BY <1>2, <1>3, <1>4, <1>5, <2>1, LoseStep
<1>6. CASE ~em'.err
  <2> DEFINE id == IF text.open THEN text.id ELSE nextID
  <2>1. /\ ~closed.err /\ reasoning' = Closed
        /\ nextID' = IF text.open THEN nextID ELSE nextID + 1
        /\ text' = [id |-> id, content |-> Append(text.content, piece(0)), open |-> TRUE]
    BY <1>1, <1>6 DEF TextApplied, Grown
  <2>2. OpenMessage' = Plain(id, "assistant", Append(text.content, piece(0)))
    BY <1>6, <2>1, ClosedType DEF OpenMessage
  <2>3. TurnState = "running" /\ TurnState' = "running"
    BY <1>2, <1>6 DEF TurnState
  <2>4. CASE text.open
    <3>1. OpenMessage = Plain(text.id, "assistant", text.content)
          /\ OpenMessage # Log!None
      BY <1>2, <2>4, OpenFacts
    <3>2. OpenMessage' = [OpenMessage EXCEPT !.content = Append(@, piece(0))]
      <4>1. [OpenMessage EXCEPT !.content = Append(@, piece(0))]
              = Plain(text.id, "assistant", Append(text.content, piece(0)))
        BY <3>1, GrownMessage
      <4> QED
        BY <2>2, <2>4, <4>1
    <3>3. Log!Continue
      BY <1>2, <1>3, <1>4, <2>1, <2>3, <2>4, <3>1, <3>2 DEF Log!Continue
    <3> QED
      BY <3>3 DEF Log!Next
  <2>5. CASE ~text.open
    <3>1. OpenMessage.role # "assistant"
      BY <1>2, <2>5, OpenFacts DEF Plain, Log!None, Log!Entry
    <3>2. wireMessages' = Log!Completed
      BY <1>2, <1>4, <2>1, <2>5, OpenFacts
    <3>3. OpenMessage' = Log!Entry(nextID - 1 + 1, "assistant", <<piece(0)>>)
      <4>1. Append(<<>>, piece(0)) = <<piece(0)>>
        OBVIOUS
      <4>2. nextID - 1 + 1 = nextID
        BY <1>2
      <4> QED
        BY <1>2, <2>2, <2>5, <4>1, <4>2 DEF Plain, Log!Entry
    <3>4. nextID' - 1 = nextID - 1 + 1
      BY <1>2, <2>1, <2>5
    <3>5. Log!Switch
      BY <1>2, <1>3, <2>3, <3>1, <3>2, <3>3, <3>4 DEF Log!Switch, Log!Roles
    <3> QED
      BY <3>5 DEF Log!Next
  <2> QED
    BY <2>4, <2>5
<1> QED
  BY <1>2, <1>5, <1>6

(* The owner is logged after what was open. *)
LEMMA OwnerRefines == TurnInv /\ EnsureToolOwner => [Log!Next]_Log!vars
<1> SUFFICES ASSUME TurnInv, EnsureToolOwner
             PROVE  [Log!Next]_Log!vars
  OBVIOUS
<1>1. PICK quiet, closed : OwnerEnsured(quiet, closed)
  BY OwnerStep
<1> DEFINE messages == WithText(closed, WithReasoning(quiet, wireMessages))
           cut      == reasoning.open /\ quiet.err
           failed   == cut \/ (text.open /\ closed.err)
<1>2. /\ ~em.err /\ pc = "tools" /\ nextID \in Nat \ {0} /\ owner = NoOwner
      /\ ~(text.open /\ reasoning.open) /\ text \in Block /\ reasoning \in Block
      /\ wireMessages \in Seq(Callless)
  BY DEF EnsureToolOwner, InTools, TurnInv, EmitterOK, BlocksInv, TranscriptInv, Connected
<1>3. /\ EmitterInv(em') /\ (em'.err <=> failed) /\ quiet.err \in BOOLEAN /\ closed.err \in BOOLEAN
      /\ ~reasoning.open => ~quiet.err
      /\ ~text.open => closed.err = quiet.err
      /\ reasoning' = Closed /\ text' = IF cut THEN text ELSE Closed
      /\ UNCHANGED result
      /\ failed => pc' = "close" /\ wireMessages' = messages /\ UNCHANGED <<owner, nextID>>
      /\ ~failed => /\ owner' = [id |-> nextID, index |-> Len(messages) + 1]
                    /\ nextID' = nextID + 1
                    /\ wireMessages' = Append(messages, Plain(nextID, "assistant", <<>>))
                    /\ pc' = pc
  BY <1>1 DEF OwnerEnsured
<1>4. messages = IF failed THEN wireMessages ELSE Log!Completed
  <2>1. /\ text.open => Log!Completed = Append(wireMessages, Plain(text.id, "assistant", text.content))
        /\ reasoning.open => Log!Completed = Append(wireMessages, Plain(reasoning.id, "reasoning", reasoning.content))
        /\ ~text.open /\ ~reasoning.open => Log!Completed = wireMessages
    BY <1>2, OpenFacts
  <2> QED
    BY <1>2, <1>3, <2>1 DEF WithText, WithReasoning
<1>5. messages \in Seq(Callless)
  BY <1>2, ClosedMessages
<1> HIDE DEF messages
<1>6. CASE failed
  BY <1>2, <1>3, <1>4, <1>6, LoseStep
<1>7. CASE ~failed
  <2> HIDE DEF failed, cut
  <2>1. ~em'.err /\ text' = Closed /\ reasoning' = Closed
    BY <1>3, <1>7 DEF failed, cut
  <2>2. OpenMessage' = Log!None
    BY <2>1, ClosedType DEF OpenMessage, NoOpenMessage, Log!None, Log!Entry
  <2>3. /\ wireMessages' = Append(Log!Completed, Plain(nextID, "assistant", <<>>))
        /\ Len(wireMessages') = Len(messages) + 1
    <3>1. Plain(nextID, "assistant", <<>>) \in Callless
      BY <1>2 DEF Plain, Callless, Roles
    <3> QED
      BY <1>3, <1>4, <1>5, <1>7, <3>1
  <2>4. Plain(nextID, "assistant", <<>>) = Log!Entry(nextID - 1 + 1, "assistant", <<>>)
    <3>1. nextID - 1 + 1 = nextID
      BY <1>2
    <3> QED
      BY <3>1 DEF Plain, Log!Entry
  <2>5. owner.index = 0 /\ owner'.index = Len(wireMessages')
    BY <1>2, <1>3, <1>7, <2>3 DEF NoOwner
  <2>6. (nextID - 1)' = nextID - 1 + 1
    BY <1>2, <1>3, <1>7
  <2>7. TurnState = "running" /\ TurnState' = "running"
    BY <1>2, <1>3, <1>7, <2>1 DEF TurnState
  <2>8. UNCHANGED (result.returned /\ ~result.partial)
    BY <1>3, Zenon
  <2>9. Log!Own
    BY <2>2, <2>3, <2>4, <2>5, <2>6, <2>7, <2>8 DEF Log!Own
  <2> QED
    BY <2>9 DEF Log!Next
<1> QED
  BY <1>6, <1>7

(* What is open joins the log, unless the client was lost before or is now. *)
LEMMA CloseRefines == TurnInv /\ CloseBlocks => [Log!Next]_Log!vars
<1> SUFFICES ASSUME TurnInv, CloseBlocks
             PROVE  [Log!Next]_Log!vars
  OBVIOUS
<1>1. PICK quiet, closed : BlocksClosed(quiet, closed)
  BY CloseStep
<1>2. /\ pc = "close" /\ em.err \in BOOLEAN /\ ~(text.open /\ reasoning.open)
  BY DEF CloseBlocks, TurnInv, EmitterOK, EmitterInv, EmitterType, BlocksInv
<1>3. /\ em'.err \in BOOLEAN /\ (em.err => em'.err) /\ em'.err = closed.err
      /\ em.err => quiet.err
      /\ quiet.err => closed.err
      /\ ~reasoning.open => quiet.err = em.err
      /\ ~text.open => closed.err = quiet.err
      /\ quiet.err \in BOOLEAN
      /\ text' = Closed /\ reasoning' = Closed /\ pc' = "end"
      /\ wireMessages' = WithText(closed, WithReasoning(quiet, wireMessages))
      /\ UNCHANGED <<owner, nextID, result>>
  BY <1>1 DEF BlocksClosed, EmitterInv, EmitterType
<1>4. CASE em.err
  <2>1. wireMessages' = wireMessages
    BY <1>3, <1>4 DEF WithText, WithReasoning
  <2>2. em'.err /\ OpenMessage = Log!None /\ OpenMessage' = Log!None
    BY <1>3, <1>4, LostFacts
  <2>3. TurnState = "lost" /\ TurnState' = "lost"
    BY <1>2, <1>3, <1>4, <2>2 DEF TurnState
  <2>4. UNCHANGED (result.returned /\ ~result.partial)
    BY <1>3, Zenon
  <2> QED
    BY <1>3, <2>1, <2>2, <2>3, <2>4 DEF Log!vars
<1>5. CASE ~em.err
  <2>1. /\ text.open => Log!Completed = Append(wireMessages, Plain(text.id, "assistant", text.content))
        /\ reasoning.open => Log!Completed = Append(wireMessages, Plain(reasoning.id, "reasoning", reasoning.content))
        /\ ~text.open /\ ~reasoning.open => Log!Completed = wireMessages
    BY <1>5, OpenFacts
  <2>2. wireMessages' = IF em'.err THEN wireMessages ELSE Log!Completed
    BY <1>2, <1>3, <1>5, <2>1 DEF WithText, WithReasoning
  <2>3. CASE em'.err
    BY <1>2, <1>3, <1>5, <2>2, <2>3, LoseStep
  <2>4. CASE ~em'.err
    <3>1. OpenMessage' = Log!None
      BY <1>3, <2>4, ClosedType DEF OpenMessage, NoOpenMessage, Log!None, Log!Entry
    <3>2. TurnState = "running" /\ TurnState' = "running"
      BY <1>2, <1>3, <1>5, <2>4 DEF TurnState
    <3>3. UNCHANGED (result.returned /\ ~result.partial)
      BY <1>3, Zenon
    <3>4. CASE OpenMessage = Log!None
      <4>1. ~text.open /\ ~reasoning.open
        BY <1>5, <3>4, OpenFacts
      <4>2. wireMessages' = wireMessages
        BY <2>1, <2>2, <2>4, <4>1
      <4> QED
        BY <1>3, <3>1, <3>2, <3>3, <3>4, <4>2 DEF Log!vars
    <3>5. CASE OpenMessage # Log!None
      <4>1. Log!Complete
        BY <1>3, <2>2, <2>4, <3>1, <3>2, <3>3, <3>5 DEF Log!Complete
      <4> QED
        BY <4>1 DEF Log!Next
    <3> QED
      BY <3>4, <3>5
  <2> QED
    BY <1>3, <2>3, <2>4
<1> QED
  BY <1>2, <1>4, <1>5

(* The turn returns: only the owner's calls change, and with the client     *)
(* lost the result is not a complete one.                                   *)
LEMMA ReturnRefines ==
    ASSUME TurnInv, OpenFails \/ ConcludeEmpty \/ Conclude
    PROVE  [Log!Next]_Log!vars
<1>1. /\ pc \in {"open", "conclude"} /\ pc' = "done"
      /\ UNCHANGED <<em, text, reasoning, owner, nextID>>
  BY DEF OpenFails, ConcludeEmpty, Conclude, request, blocks
<1>2. ~text.open /\ ~reasoning.open /\ wireMessages \in Seq(Callless)
  BY <1>1 DEF TurnInv, BlocksInv, Closing, TranscriptInv
<1>3. OpenMessage = Log!None /\ OpenMessage' = Log!None
  BY <1>1, <1>2 DEF OpenMessage, NoOpenMessage, Log!None, Log!Entry
<1>4. TurnState # "returned" /\ TurnState' = "returned" /\ (TurnState = "running" <=> ~em.err)
  BY <1>1 DEF TurnState
<1>5. result'.returned /\ ~result'.partial => ~em.err
  <2>1. CASE OpenFails
    BY <2>1 DEF OpenFails, TurnInv, ReturnInv, NotReturned
  <2>2. CASE ConcludeEmpty \/ Conclude
    BY <1>1, <2>2, ReturnsInv DEF ReturnInv
  <2> QED
    BY <2>1, <2>2
<1>6. /\ DOMAIN wireMessages' = DOMAIN wireMessages
      /\ \A i \in DOMAIN wireMessages :
             wireMessages'[i] = IF i = owner.index
                                THEN [wireMessages[i] EXCEPT !.calls = wireMessages'[i].calls]
                                ELSE wireMessages[i]
  <2>1. \A i \in DOMAIN wireMessages : wireMessages[i] \in Callless
    BY <1>2
  <2>2. CASE wireMessages' = wireMessages
    <3>1. \A m \in Callless : [m EXCEPT !.calls = m.calls] = m
      BY DEF Callless
    <3> QED
      BY <2>1, <2>2, <3>1
  <2>3. CASE \E merged : wireMessages' = Attach(merged)
    <3>1. PICK given : wireMessages' = [wireMessages EXCEPT ![owner.index].calls = given]
      BY <2>3 DEF Attach
    <3>2. DOMAIN wireMessages' = DOMAIN wireMessages
      BY <3>1
    <3>3. \A i \in DOMAIN wireMessages :
              i # owner.index => wireMessages'[i] = wireMessages[i]
      BY <3>1
    <3>4. \A i \in DOMAIN wireMessages :
              i = owner.index => wireMessages'[i] = [wireMessages[i] EXCEPT !.calls = given]
      BY <3>1
    <3>5. \A m \in Callless : [m EXCEPT !.calls = given].calls = given
      BY DEF Callless
    <3> QED
      BY <2>1, <3>2, <3>3, <3>4, <3>5
  <2>4. wireMessages' = wireMessages \/ \E merged : wireMessages' = Attach(merged)
    BY DEF OpenFails, ConcludeEmpty, Conclude, blocks
  <2> QED
    BY <2>2, <2>3, <2>4
<1>7. /\ UNCHANGED (nextID - 1)
      /\ UNCHANGED owner.index
  BY <1>1
<1>8. Log!Return
  BY <1>3, <1>4, <1>5, <1>6, <1>7 DEF Log!Return
<1> QED
  BY <1>8 DEF Log!Next

(* The other steps only talk to the emitter, if at all. *)
LEMMA RestRefines ==
    ASSUME TurnInv,
           Quiet \/ EndCall \/ RefuseFragment \/ AcceptFragment \/ FlushArg
    PROVE  [Log!Next]_Log!vars
<1>1. UNCHANGED <<text, reasoning, wireMessages, nextID, owner, result>>
  BY DEF Quiet, Cancel, OpenStream, CheckRequest, Recv, RecvEOF, RecvError, RecvChunk,
         RecvKeepAlive, CallsEnded, SkipFragment, FragmentDone, ChunkDone, EndCall,
         RefuseFragment, AcceptFragment, FlushArg, blocks
<1>2. pc # "done" /\ pc' # "done"
  BY DEF Quiet, Cancel, OpenStream, CheckRequest, Recv, RecvEOF, RecvError, RecvChunk,
         RecvKeepAlive, CallsEnded, SkipFragment, FragmentDone, ChunkDone, EndCall,
         RefuseFragment, AcceptFragment, FlushArg, InTools, Fail, TurnInv, ControlInv
<1>3. (em.err => em'.err) /\ em'.err \in BOOLEAN
  <2>1. CASE EndCall \/ AcceptFragment \/ FlushArg
    BY <2>1, EndCallInv, AcceptInv, FlushInv DEF Later, EmitterInv, EmitterType
  <2>2. CASE Quiet \/ RefuseFragment
    <3>1. em' = em
      BY <2>2 DEF Quiet, Cancel, OpenStream, CheckRequest, Recv, RecvEOF, RecvError, RecvChunk,
                  RecvKeepAlive, CallsEnded, SkipFragment, FragmentDone, ChunkDone, RefuseFragment
    <3> QED
      BY <3>1 DEF TurnInv, EmitterOK, EmitterInv, EmitterType
  <2> QED
    BY <2>1, <2>2
<1> QED
  BY <1>1, <1>2, <1>3, EmitterStep

LEMMA StepRefines == TurnInv /\ [Next]_vars => [Log!Next]_Log!vars
<1> SUFFICES ASSUME TurnInv, [Next]_vars
             PROVE  [Log!Next]_Log!vars
  OBVIOUS
<1>1. CASE UNCHANGED vars
  <2>1. UNCHANGED <<em, text, reasoning, wireMessages, nextID, owner, result, pc>>
    BY <1>1 DEF vars
  <2>2. UNCHANGED (result.returned /\ ~result.partial)
    BY <2>1, Zenon
  <2>3. UNCHANGED OpenMessage /\ UNCHANGED TurnState
    BY <2>1 DEF OpenMessage, TurnState
  <2> QED
    BY <2>1, <2>2, <2>3 DEF Log!vars
<1>2. CASE ApplyReasoning \/ ApplyText
  BY <1>2, ReasoningRefines, TextRefines
<1>3. CASE EnsureToolOwner \/ CloseBlocks
  BY <1>3, OwnerRefines, CloseRefines
<1>4. CASE OpenFails \/ ConcludeEmpty \/ Conclude
  BY <1>4, ReturnRefines
<1>5. CASE Quiet \/ EndCall \/ RefuseFragment \/ AcceptFragment \/ FlushArg
  BY <1>5, RestRefines
<1> QED
  BY <1>1, <1>2, <1>3, <1>4, <1>5 DEF Next, TurnStep, Apply, Finish, Quiet, Returned

(* A turn implements the log of TurnLog: whatever chunks, errors and lost   *)
(* frames it meets, what its caller is given is written one message at a    *)
(* time, frozen when the client is lost and final when the turn returns.    *)
THEOREM TurnImplementsLog == Spec => ImplementsTurnLog
<1>1. Init => Log!Init
  BY InitRefines
<1>2. TurnInv /\ [Next]_vars => [Log!Next]_Log!vars
  BY StepRefines
<1> QED
  BY <1>1, <1>2, TurnInvariant, PTL DEF Spec, ImplementsTurnLog, Log!Spec

(* The messages of the transcript are in the order the client saw them      *)
(* begin, the owner of the tool calls included: what holds of the log holds *)
(* of the turn.                                                             *)
THEOREM TranscriptIsInOrder == Spec => []TranscriptInOrder
<1>1. Log!InOrder => TranscriptInOrder
  BY DEF Log!InOrder, TranscriptInOrder
<1>2. Log!Spec => []Log!InOrder
  BY Log!LogInOrder
<1> QED
  BY <1>1, <1>2, TurnImplementsLog, PTL DEF ImplementsTurnLog

=============================================================================
