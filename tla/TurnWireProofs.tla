---------------------------- MODULE TurnWireProofs ----------------------------
(***************************************************************************)
(* The wire of a turn, for every value of the constants.  TurnWireInv ties *)
(* what the emitter remembers to what the turn has open, and the calls     *)
(* started to the buffers endToolCalls walks: then blocks keep apart,      *)
(* nothing dangles, and no ended block is missing from the transcript.     *)
(*                                                                         *)
(* The last part is about a provider that does not come back to its tool   *)
(* calls after other content (LiveResume is FALSE).  Uninterrupted says    *)
(* that no tool frame falls into an open block; then frames stay inside    *)
(* their block, and no id is used twice.                                   *)
(***************************************************************************)
EXTENDS TurnProofs

-----------------------------------------------------------------------------
(***************************************************************************)
(* What the emitter remembers, against what the turn has open.  A tool     *)
(* frame may end a block the turn still holds open, never the other way    *)
(* round.                                                                  *)
(***************************************************************************)
Shown(id, block) == id # NoMessage => block.open /\ id = block.id

TextHeld(e)      == Good(e) => Shown(e.openTextID, text)
ReasoningHeld(e) ==
    Good(e) => Shown(e.openReasoningID, reasoning) /\ Shown(e.openReasoningMessageID, reasoning)

(* Nothing but the turn ended them. *)
TextKept(e)      == Good(e) /\ text.open => text.id # NoMessage /\ e.openTextID = text.id
ReasoningKept(e) ==
    Good(e) /\ reasoning.open => /\ reasoning.id # NoMessage
                                 /\ e.openReasoningID = reasoning.id
                                 /\ e.openReasoningMessageID = reasoning.id

LEMMA ANonEmptyDelta == \E delta \in Delta : delta # NoDelta
  BY NoDeltaAssumption DEF Delta

(* closeText and closeReasoning. *)
TextEndFrames == IF text.open THEN {BlockFrame("TEXT_END", text.id, NoDelta)} ELSE {}
ReasoningEndFrames ==
    IF reasoning.open THEN {BlockFrame("REASONING_MESSAGE_END", reasoning.id, NoDelta),
                            BlockFrame("REASONING_END", reasoning.id, NoDelta)} ELSE {}

TextEnded(d, e) ==
    /\ WireOK(d) /\ SameCalls(d, e)
    /\ Sent(d) \subseteq Sent(e) \cup TextEndFrames
    /\ Within(e) /\ TextKept(e) => Within(d)
    /\ Good(d) => /\ Good(e) /\ d.openTextID = NoMessage
                  /\ d.openReasoningID = e.openReasoningID
                  /\ d.openReasoningMessageID = e.openReasoningMessageID

LEMMA EndTextOrderly ==
    ASSUME NEW e, WireOK(e), text \in Block, TextHeld(e)
    PROVE  TextEnded(EndText(e), e)
<1>1. CASE ~text.open
  <2>1. EndText(e) = e
    BY <1>1 DEF EndText
  <2>2. Good(e) => e.openTextID = NoMessage
    BY <1>1 DEF TextHeld, Shown
  <2> QED
    BY <2>1, <2>2 DEF TextEnded, SameCalls
<1>2. CASE text.open
  <2> DEFINE d == EndText(e)
  <2>1. HelperStep("TEXT_END", text.id, NoDelta, d, e)
    BY <1>2, ANonEmptyDelta, HelperSteps DEF EndText, Block
  <2>2. Good(e) /\ TextKept(e) => Belongs(e.wire, BlockFrame("TEXT_END", text.id, NoDelta))
    BY <1>2, BelongsThere DEF TextKept, WireOK, Orderly
  <2> HIDE DEF d
  <2>3. Good(d) => /\ Good(e) /\ d.openTextID = NoMessage
                   /\ d.openReasoningID = e.openReasoningID
                   /\ d.openReasoningMessageID = e.openReasoningMessageID
    BY <2>1 DEF HelperStep, Moved, TextHeld, Shown
  <2>4. BlockFrame("TEXT_END", text.id, NoDelta) \in TextEndFrames
    BY <1>2 DEF TextEndFrames
  <2> QED
    BY <2>1, <2>2, <2>3, <2>4 DEF HelperStep, TextEnded, d
<1> QED
  BY <1>1, <1>2 DEF Block

ReasoningEnded(d, e) ==
    /\ WireOK(d) /\ SameCalls(d, e)
    /\ Sent(d) \subseteq Sent(e) \cup ReasoningEndFrames
    /\ Within(e) /\ ReasoningKept(e) => Within(d)
    /\ Good(d) => /\ Good(e) /\ d.openTextID = e.openTextID
                  /\ d.openReasoningID = NoMessage /\ d.openReasoningMessageID = NoMessage

LEMMA EndReasoningOrderly ==
    ASSUME NEW e, WireOK(e), reasoning \in Block, ReasoningHeld(e)
    PROVE  ReasoningEnded(EndReasoning(e), e)
<1>1. CASE ~reasoning.open
  <2>1. EndReasoning(e) = e
    BY <1>1 DEF EndReasoning
  <2>2. Good(e) => e.openReasoningID = NoMessage /\ e.openReasoningMessageID = NoMessage
    BY <1>1 DEF ReasoningHeld, Shown
  <2> QED
    BY <2>1, <2>2 DEF ReasoningEnded, SameCalls
<1>2. CASE reasoning.open
  <2> DEFINE id == reasoning.id
             m  == ReasoningMessageEnd(e, id)
             d  == ReasoningEnd(m, id)
  <2>1. HelperStep("REASONING_MESSAGE_END", id, NoDelta, m, e)
    BY ANonEmptyDelta, HelperSteps DEF Block
  <2>2. Good(e) /\ ReasoningKept(e) => Belongs(e.wire, BlockFrame("REASONING_MESSAGE_END", id, NoDelta))
    BY <1>2, BelongsThere DEF ReasoningKept, WireOK, Orderly
  <2> HIDE DEF m
  <2>3. WireOK(m)
    BY <2>1 DEF HelperStep
  <2>4. HelperStep("REASONING_END", id, NoDelta, d, m)
    BY <2>3, ANonEmptyDelta, HelperSteps DEF Block
  <2>5. Good(m) /\ ReasoningKept(e) => Belongs(m.wire, BlockFrame("REASONING_END", id, NoDelta))
    <3>1. Good(m) => MarksAll(m)
      BY <2>3 DEF WireOK, Orderly
    <3>2. Good(m) /\ ReasoningKept(e) => id # NoMessage /\ m.openReasoningID = id
      BY <1>2, <2>1 DEF HelperStep, Moved, ReasoningKept
    <3> QED
      BY <3>1, <3>2, BelongsThere
  <2>6. d = EndReasoning(e)
    BY <1>2 DEF EndReasoning, m
  <2> HIDE DEF d
  <2>7. Good(d) => /\ Good(e) /\ d.openTextID = e.openTextID
                   /\ d.openReasoningID = NoMessage /\ d.openReasoningMessageID = NoMessage
    BY <2>1, <2>4 DEF HelperStep, Moved, ReasoningHeld, Shown
  <2>8. Sent(d) \subseteq Sent(e) \cup ReasoningEndFrames
    BY <1>2, <2>1, <2>4 DEF HelperStep, ReasoningEndFrames
  <2>9. Within(e) /\ ReasoningKept(e) => Within(d)
    BY <2>1, <2>2, <2>4, <2>5 DEF HelperStep
  <2> QED
    BY <2>1, <2>4, <2>6, <2>7, <2>8, <2>9 DEF HelperStep, ReasoningEnded, SameCalls
<1> QED
  BY <1>1, <1>2 DEF Block

-----------------------------------------------------------------------------
(* applyReasoning and applyText as the wire sees them. *)

ReasoningID == IF reasoning.open THEN reasoning.id ELSE nextID
TextID      == IF text.open THEN text.id ELSE nextID

NoCallOpen(e) == e.startedToolCalls \subseteq e.endedToolCalls

ReasoningFrames(delta) ==
    {BlockFrame("REASONING_START", ReasoningID, NoDelta),
     BlockFrame("REASONING_MESSAGE_START", ReasoningID, NoDelta),
     BlockFrame("REASONING_CONTENT", ReasoningID, delta)}

ReasoningWritten ==
    /\ WireOK(em') /\ SameCalls(em', em)
    /\ Sent(em') \subseteq Sent(em) \cup TextEndFrames \cup ReasoningFrames(piece(0))
    /\ Within(em) /\ TextKept(em) /\ ReasoningKept(em) => Within(em')
    /\ Good(em') =>
           /\ Good(em) /\ em'.openTextID = NoMessage /\ text' = Closed
           /\ reasoning'.open /\ reasoning'.id = ReasoningID /\ ReasoningID # NoMessage
           /\ IF reasoning.open
              THEN /\ em'.openReasoningID = em.openReasoningID
                   /\ em'.openReasoningMessageID = em.openReasoningMessageID
              ELSE em'.openReasoningID = ReasoningID /\ em'.openReasoningMessageID = ReasoningID
           /\ \E closed : ~closed.err /\ wireMessages' = WithText(closed, wireMessages)

LEMMA ReasoningWrites ==
    ASSUME TurnInv, ApplyReasoning, WireOK(em), TextHeld(em), ReasoningHeld(em),
           Good(em) => NoCallOpen(em)
    PROVE  ReasoningWritten
<1> DEFINE closed == EndText(em)
           id     == ReasoningID
           begun  == ReasoningStart(closed, id)
           opened == IF reasoning.open THEN closed ELSE ReasoningMessageStart(begun, id)
           sent   == ReasoningContent(opened, id, piece(0))
<1>1. /\ text \in Block /\ reasoning \in Block /\ id \in Nat /\ piece(0) \in Delta
      /\ piece(0) # NoDelta
  BY ChunkFacts, NoDeltaAssumption
     DEF ApplyReasoning, TurnInv, BlocksInv, Block, InChunk, ReasoningID
<1>2. TextEnded(closed, em)
  BY <1>1, EndTextOrderly
<1>3. em' = sent
  BY DEF ApplyReasoning, ReasoningID
<1>4. /\ text' = Closed /\ wireMessages' = WithText(closed, wireMessages)
      /\ ~closed.err => reasoning' = Grown(reasoning, id, opened, sent)
  BY <1>3 DEF ApplyReasoning, Forget, ReasoningID
<1> HIDE DEF closed
<1>5. /\ WireOK(closed) /\ SameCalls(closed, em)
      /\ Sent(closed) \subseteq Sent(em) \cup TextEndFrames
      /\ Within(em) /\ TextKept(em) => Within(closed)
      /\ Good(closed) => /\ Good(em) /\ closed.openTextID = NoMessage
                         /\ closed.openReasoningID = em.openReasoningID
                         /\ closed.openReasoningMessageID = em.openReasoningMessageID
                         /\ MarksAll(closed)
  BY <1>2 DEF TextEnded, WireOK, Orderly
<1>6. /\ WireOK(opened) /\ SameCalls(opened, em)
      /\ Sent(opened) \subseteq Sent(em) \cup TextEndFrames \cup ReasoningFrames(piece(0))
      /\ Within(em) /\ TextKept(em) => Within(opened)
      /\ Good(opened) =>
             /\ Good(closed) /\ opened.openTextID = NoMessage /\ MarksAll(opened)
             /\ IF reasoning.open
                THEN /\ opened.openReasoningID = em.openReasoningID
                     /\ opened.openReasoningMessageID = em.openReasoningMessageID
                ELSE /\ opened.openReasoningID = id /\ opened.openReasoningMessageID = id
                     /\ id # NoMessage
  <2>1. CASE reasoning.open
    BY <1>5, <2>1
  <2>2. CASE ~reasoning.open
    <3>1. Good(closed) => Forgot(closed) /\ NoCallOpen(closed)
      BY <1>5, <2>2 DEF Forgot, NoCallOpen, SameCalls, ReasoningHeld, Shown
    <3>2. HelperStep("REASONING_START", id, NoDelta, begun, closed)
      BY <1>1, <1>5, <3>1, ANonEmptyDelta, HelperSteps DEF NoCallOpen
    <3> HIDE DEF begun
    <3>3. /\ WireOK(begun) /\ SameCalls(begun, closed) /\ (Good(begun) => MarksAll(begun))
          /\ Good(begun) => /\ Good(closed) /\ id # NoMessage /\ begun.openTextID = NoMessage
                            /\ begun.openReasoningID = id /\ begun.openReasoningMessageID = NoMessage
      BY <1>5, <3>1, <3>2 DEF HelperStep, Moved, WireOK, Orderly, Forgot
    <3>4. HelperStep("REASONING_MESSAGE_START", id, NoDelta, opened, begun)
      BY <1>1, <2>2, <3>3, ANonEmptyDelta, HelperSteps
    <3> HIDE DEF opened, id
    <3>5. /\ WireOK(opened) /\ SameCalls(opened, begun) /\ (Good(opened) => MarksAll(opened))
          /\ Good(opened) => /\ Good(begun) /\ opened.openTextID = NoMessage
                             /\ opened.openReasoningID = id /\ opened.openReasoningMessageID = id
      BY <3>3, <3>4 DEF HelperStep, Moved, WireOK, Orderly
    <3>6. Sent(opened) \subseteq Sent(em) \cup TextEndFrames \cup ReasoningFrames(piece(0))
      BY <1>5, <3>2, <3>4 DEF HelperStep, ReasoningFrames, id
    <3>7. Within(closed) => Within(opened)
      <4>1. Good(closed) => Belongs(closed.wire, BlockFrame("REASONING_START", id, NoDelta))
        BY DEF Belongs, BlockFrame, Kinds, TextKind, ReasoningKind, ReasoningMessageKind
      <4>2. Good(begun) => Belongs(begun.wire, BlockFrame("REASONING_MESSAGE_START", id, NoDelta))
        BY <3>3, BelongsThere
      <4> QED
        BY <3>2, <3>4, <4>1, <4>2 DEF HelperStep
    <3> QED
      BY <1>5, <2>2, <3>3, <3>5, <3>6, <3>7 DEF SameCalls
  <2> QED
    BY <2>1, <2>2
<1> HIDE DEF opened
<1>7. HelperStep("REASONING_CONTENT", id, piece(0), sent, opened)
  BY <1>1, <1>6, HelperSteps
<1> HIDE DEF sent, id
<1>8. /\ WireOK(sent) /\ SameCalls(sent, em)
      /\ Good(sent) => /\ Good(opened) /\ id # NoMessage
                       /\ sent.openTextID = opened.openTextID
                       /\ sent.openReasoningID = opened.openReasoningID
                       /\ sent.openReasoningMessageID = opened.openReasoningMessageID
  BY <1>6, <1>7 DEF HelperStep, Moved, SameCalls
<1>9. Sent(sent) \subseteq Sent(em) \cup TextEndFrames \cup ReasoningFrames(piece(0))
  BY <1>6, <1>7 DEF HelperStep, ReasoningFrames, id
<1>10. Within(em) /\ TextKept(em) /\ ReasoningKept(em) => Within(sent)
  <2>1. Good(opened) /\ ReasoningKept(em) =>
            Belongs(opened.wire, BlockFrame("REASONING_CONTENT", id, piece(0)))
    <3>1. Good(opened) /\ ReasoningKept(em) =>
              id # NoMessage /\ opened.openReasoningID = id /\ opened.openReasoningMessageID = id
      BY <1>5, <1>6 DEF ReasoningKept, id, ReasoningID
    <3> QED
      BY <1>6, <3>1, BelongsThere
  <2> QED
    BY <1>6, <1>7, <2>1 DEF HelperStep
<1>11. Good(sent) => /\ ~closed.err /\ reasoning'.open /\ reasoning'.id = id
  <2>1. Good(sent) => ~closed.err /\ ~opened.err
    BY <1>6, <1>8 DEF Good
  <2> QED
    <3>1. ControlInv /\ InChunk /\ opened.err \in BOOLEAN
      BY <1>6 DEF ApplyReasoning, TurnInv, InChunk, WireOK, EmitterInv, EmitterType
    <3>2. ~opened.err => Grown(reasoning, id, opened, sent).open
      BY <1>1, <3>1, GrownType DEF id
    <3>3. Grown(reasoning, id, opened, sent).id = id
      BY DEF Grown
    <3> QED
      BY <1>4, <2>1, <3>2, <3>3
<1> QED
  BY <1>3, <1>4, <1>5, <1>6, <1>8, <1>9, <1>10, <1>11 DEF ReasoningWritten, id

TextFrames(delta) ==
    {BlockFrame("TEXT_START", TextID, NoDelta), BlockFrame("TEXT_CONTENT", TextID, delta)}

TextWritten ==
    /\ WireOK(em') /\ SameCalls(em', em)
    /\ Sent(em') \subseteq Sent(em) \cup ReasoningEndFrames \cup TextFrames(piece(0))
    /\ Within(em) /\ TextKept(em) /\ ReasoningKept(em) => Within(em')
    /\ Good(em') =>
           /\ Good(em) /\ em'.openReasoningID = NoMessage /\ em'.openReasoningMessageID = NoMessage
           /\ reasoning' = Closed
           /\ text'.open /\ text'.id = TextID /\ TextID # NoMessage
           /\ em'.openTextID = IF text.open THEN em.openTextID ELSE TextID
           /\ \E closed : ~closed.err /\ wireMessages' = WithReasoning(closed, wireMessages)

LEMMA TextWrites ==
    ASSUME TurnInv, ApplyText, WireOK(em), TextHeld(em), ReasoningHeld(em),
           Good(em) => NoCallOpen(em)
    PROVE  TextWritten
<1> DEFINE closed == EndReasoning(em)
           id     == TextID
           opened == IF text.open THEN closed ELSE TextStart(closed, id)
           sent   == TextContent(opened, id, piece(0))
<1>1. /\ text \in Block /\ reasoning \in Block /\ id \in Nat /\ piece(0) \in Delta
      /\ piece(0) # NoDelta
  BY ChunkFacts, NoDeltaAssumption DEF ApplyText, TurnInv, BlocksInv, Block, InChunk, TextID
<1>2. ReasoningEnded(closed, em)
  BY <1>1, EndReasoningOrderly
<1>3. em' = sent
  BY DEF ApplyText, TextID
<1>4. /\ reasoning' = Closed /\ wireMessages' = WithReasoning(closed, wireMessages)
      /\ ~closed.err => text' = Grown(text, id, opened, sent)
  BY <1>3 DEF ApplyText, Forget, TextID
<1> HIDE DEF closed
<1>5. /\ WireOK(closed) /\ SameCalls(closed, em)
      /\ Sent(closed) \subseteq Sent(em) \cup ReasoningEndFrames
      /\ Within(em) /\ ReasoningKept(em) => Within(closed)
      /\ Good(closed) => /\ Good(em) /\ closed.openTextID = em.openTextID
                         /\ closed.openReasoningID = NoMessage
                         /\ closed.openReasoningMessageID = NoMessage
                         /\ MarksAll(closed)
  BY <1>2 DEF ReasoningEnded, WireOK, Orderly
<1>6. /\ WireOK(opened) /\ SameCalls(opened, em)
      /\ Sent(opened) \subseteq Sent(em) \cup ReasoningEndFrames \cup TextFrames(piece(0))
      /\ Within(em) /\ ReasoningKept(em) => Within(opened)
      /\ Good(opened) =>
             /\ Good(closed) /\ MarksAll(opened)
             /\ opened.openReasoningID = NoMessage /\ opened.openReasoningMessageID = NoMessage
             /\ IF text.open THEN opened.openTextID = em.openTextID
                ELSE opened.openTextID = id /\ id # NoMessage
  <2>1. CASE text.open
    BY <1>5, <2>1
  <2>2. CASE ~text.open
    <3>1. Good(closed) => Forgot(closed) /\ NoCallOpen(closed)
      BY <1>5, <2>2 DEF Forgot, NoCallOpen, SameCalls, TextHeld, Shown
    <3>2. HelperStep("TEXT_START", id, NoDelta, opened, closed)
      BY <1>1, <1>5, <2>2, <3>1, ANonEmptyDelta, HelperSteps DEF NoCallOpen
    <3> HIDE DEF opened, id
    <3>3. /\ WireOK(opened) /\ SameCalls(opened, closed) /\ (Good(opened) => MarksAll(opened))
          /\ Good(opened) => /\ Good(closed) /\ id # NoMessage /\ opened.openTextID = id
                             /\ opened.openReasoningID = NoMessage
                             /\ opened.openReasoningMessageID = NoMessage
      BY <1>5, <3>2 DEF HelperStep, Moved, WireOK, Orderly
    <3>4. Sent(opened) \subseteq Sent(em) \cup ReasoningEndFrames \cup TextFrames(piece(0))
      BY <1>5, <3>2 DEF HelperStep, TextFrames, id
    <3>5. Within(closed) => Within(opened)
      <4>1. Good(closed) => Belongs(closed.wire, BlockFrame("TEXT_START", id, NoDelta))
        BY DEF Belongs, BlockFrame, Kinds, TextKind, ReasoningKind, ReasoningMessageKind
      <4> QED
        BY <3>2, <4>1 DEF HelperStep
    <3> QED
      BY <1>5, <2>2, <3>3, <3>4, <3>5 DEF SameCalls
  <2> QED
    BY <2>1, <2>2
<1> HIDE DEF opened
<1>7. HelperStep("TEXT_CONTENT", id, piece(0), sent, opened)
  BY <1>1, <1>6, HelperSteps
<1> HIDE DEF sent, id
<1>8. /\ WireOK(sent) /\ SameCalls(sent, em)
      /\ Good(sent) => /\ Good(opened) /\ id # NoMessage
                       /\ sent.openTextID = opened.openTextID
                       /\ sent.openReasoningID = opened.openReasoningID
                       /\ sent.openReasoningMessageID = opened.openReasoningMessageID
  BY <1>6, <1>7 DEF HelperStep, Moved, SameCalls
<1>9. Sent(sent) \subseteq Sent(em) \cup ReasoningEndFrames \cup TextFrames(piece(0))
  BY <1>6, <1>7 DEF HelperStep, TextFrames, id
<1>10. Within(em) /\ TextKept(em) /\ ReasoningKept(em) => Within(sent)
  <2>1. Good(opened) /\ TextKept(em) => Belongs(opened.wire, BlockFrame("TEXT_CONTENT", id, piece(0)))
    <3>1. Good(opened) /\ TextKept(em) => id # NoMessage /\ opened.openTextID = id
      BY <1>5, <1>6 DEF TextKept, id, TextID
    <3> QED
      BY <1>6, <3>1, BelongsThere
  <2> QED
    BY <1>6, <1>7, <2>1 DEF HelperStep
<1>11. Good(sent) => /\ ~closed.err /\ text'.open /\ text'.id = id
  <2>1. Good(sent) => ~closed.err /\ ~opened.err
    BY <1>6, <1>8 DEF Good
  <2> QED
    <3>1. ControlInv /\ InChunk /\ opened.err \in BOOLEAN
      BY <1>6 DEF ApplyText, TurnInv, InChunk, WireOK, EmitterInv, EmitterType
    <3>2. ~opened.err => Grown(text, id, opened, sent).open
      BY <1>1, <3>1, GrownType DEF id
    <3>3. Grown(text, id, opened, sent).id = id
      BY DEF Grown
    <3> QED
      BY <1>4, <2>1, <3>2, <3>3
<1> QED
  BY <1>3, <1>4, <1>5, <1>6, <1>8, <1>9, <1>10, <1>11 DEF TextWritten, id

(* ensureToolOwner and closeBlocks: both blocks end. *)
BlocksWritten ==
    /\ WireOK(em') /\ SameCalls(em', em)
    /\ Sent(em') \subseteq Sent(em) \cup TextEndFrames \cup ReasoningEndFrames
    /\ Within(em) /\ TextKept(em) /\ ReasoningKept(em) => Within(em')
    /\ Good(em') =>
           /\ Good(em) /\ Forgot(em') /\ text' = Closed /\ reasoning' = Closed
           /\ \E quiet, closed, tail :
                 /\ ~quiet.err /\ ~closed.err
                 /\ LET messages == WithText(closed, WithReasoning(quiet, wireMessages))
                    IN  wireMessages' \in {messages, Append(messages, tail)}

LEMMA BlocksWrite ==
    ASSUME TurnInv, EnsureToolOwner \/ CloseBlocks, WireOK(em), TextHeld(em), ReasoningHeld(em)
    PROVE  BlocksWritten
<1> DEFINE quiet    == EndReasoning(em)
           closed   == EndText(quiet)
           messages == WithText(closed, WithReasoning(quiet, wireMessages))
<1>1. text \in Block /\ reasoning \in Block
  BY DEF TurnInv, BlocksInv
<1>2. ReasoningEnded(quiet, em)
  BY <1>1, EndReasoningOrderly
<1>3. /\ em' \in {quiet, closed}
      /\ em' = quiet => em' = closed \/ quiet.err
      /\ reasoning' = Closed
      /\ text' = Closed \/ quiet.err
      /\ wireMessages' \in {messages, Append(messages, Plain(nextID, "assistant", <<>>))}
  BY DEF EnsureToolOwner, CloseBlocks, Forget
<1> HIDE DEF quiet
<1>4. WireOK(quiet) /\ TextHeld(quiet) /\ (TextKept(em) => TextKept(quiet))
  BY <1>2 DEF ReasoningEnded, TextHeld, TextKept
<1>5. TextEnded(closed, quiet)
  BY <1>1, <1>4, EndTextOrderly
<1> HIDE DEF closed
<1>6. Good(em') => em' = closed
  BY <1>3 DEF Good
<1>7. WireOK(em') /\ SameCalls(em', em)
  BY <1>2, <1>3, <1>5 DEF ReasoningEnded, TextEnded, SameCalls
<1>8. Sent(em') \subseteq Sent(em) \cup TextEndFrames \cup ReasoningEndFrames
  BY <1>2, <1>3, <1>5 DEF ReasoningEnded, TextEnded
<1>9. Within(em) /\ TextKept(em) /\ ReasoningKept(em) => Within(em')
  BY <1>2, <1>3, <1>4, <1>5 DEF ReasoningEnded, TextEnded
<1>10. Good(closed) => Good(quiet) /\ Good(em) /\ Forgot(closed) /\ ~quiet.err /\ ~closed.err
  BY <1>2, <1>5 DEF ReasoningEnded, TextEnded, Forgot, Good
<1>11. Good(em') => Good(em) /\ Forgot(em') /\ ~quiet.err /\ ~closed.err /\ text' = Closed
  BY <1>3, <1>6, <1>10
<1> HIDE DEF messages
<1>12. Good(em') => \E q, c, tail :
            /\ ~q.err /\ ~c.err
            /\ wireMessages' \in {WithText(c, WithReasoning(q, wireMessages)),
                                  Append(WithText(c, WithReasoning(q, wireMessages)), tail)}
  BY <1>3, <1>11 DEF messages
<1> QED
  BY <1>3, <1>7, <1>8, <1>9, <1>11, <1>12 DEF BlocksWritten

-----------------------------------------------------------------------------
(***************************************************************************)
(* The invariant: the wire is orderly, the emitter remembers no block the  *)
(* turn has closed, a call started and not ended is in a buffer that       *)
(* endToolCalls will still find, and it has found all of them where        *)
(* reasoning or text goes on.                                              *)
(***************************************************************************)
Held(c, t) ==
    \E p \in DOMAIN t.order : t.order[p].id = c /\ t.order[p].started /\ ~t.order[p].ended

CallsHeld ==
    Good(em) => \A c \in em.startedToolCalls \ em.endedToolCalls : live /\ Held(c, calls)

CallsDone ==
    /\ pc = "open" => calls.order = <<>>
    /\ live => \A p \in DOMAIN calls.order :
           pc \in {"reasoning", "text", "conclude", "done"} \/ (pc = "end" /\ p < cursor)
               => calls.order[p].ended

TurnWireInv == WireOK(em) /\ TextHeld(em) /\ ReasoningHeld(em) /\ CallsHeld /\ CallsDone

LEMMA NoneHeld ==
    ASSUME TurnWireInv, pc \in {"reasoning", "text", "conclude", "done"}, Good(em)
    PROVE  NoCallOpen(em)
  BY DEF TurnWireInv, CallsHeld, CallsDone, Held, NoCallOpen

LEMMA WireInit == Init => TurnWireInv
<1> SUFFICES ASSUME Init PROVE TurnWireInv
  OBVIOUS
<1>1. PICK script \in Scripts : em = NewEmitter(script)
  BY DEF Init
<1>2. WireOK(em)
  BY <1>1, TurnScriptAssumption, FreshOrderly
<1>3. /\ em.openTextID = NoMessage /\ em.openReasoningID = NoMessage
      /\ em.openReasoningMessageID = NoMessage /\ em.startedToolCalls = {}
  BY <1>1 DEF NewEmitter
<1>4. calls.order = <<>> /\ pc = "open"
  BY DEF Init, NoCalls
<1> QED
  BY <1>2, <1>3, <1>4 DEF TurnWireInv, TextHeld, ReasoningHeld, Shown, CallsHeld, CallsDone

LEMMA QuietWire ==
    ASSUME TurnInv, TurnWireInv, Quiet
    PROVE  TurnWireInv'
<1>1. UNCHANGED <<em, text, reasoning, calls, live>>
  BY DEF Quiet, Cancel, OpenStream, CheckRequest, Recv, RecvEOF, RecvError, RecvChunk,
         RecvKeepAlive, CallsEnded, SkipFragment, FragmentDone, ChunkDone, request, blocks
<1>2. /\ calls.order \in Seq(Buffers) /\ cursor \in Nat /\ live \in BOOLEAN
      /\ after \in {"reasoning", "text", "conclude"} /\ pc \in Places
  BY DEF TurnInv, CallsInv, TablesOK, CallTables, ControlInv
<1>3. \A p \in DOMAIN calls.order : p \in Nat /\ ~(p < 1) /\ p <= Len(calls.order)
  BY <1>2
<1>4. CallsDone'
  <2>1. CASE Cancel
    BY <1>1, <2>1 DEF Cancel, TurnWireInv, CallsDone
  <2>2. CASE OpenStream \/ CheckRequest \/ RecvEOF \/ RecvError \/ RecvKeepAlive \/ SkipFragment
             \/ FragmentDone \/ ChunkDone
    <3>1. pc' \in {"check", "recv", "close", "tools"}
      BY <2>2 DEF OpenStream, CheckRequest, RecvEOF, RecvError, RecvKeepAlive, SkipFragment, InTools,
                  FragmentDone, ChunkDone, Fail
    <3> QED
      BY <1>1, <3>1 DEF CallsDone
  <2>3. CASE RecvChunk
    <3>1. pc' \in {"end", "tools"} /\ cursor' = 1
      BY <2>3 DEF RecvChunk
    <3> QED
      BY <1>1, <1>3, <3>1 DEF CallsDone
  <2>4. CASE CallsEnded
    <3>1. pc = "end" /\ (live => cursor > Len(calls.order)) /\ pc' \in {"close", after}
      BY <2>4 DEF CallsEnded, AllEnded, Fail
    <3>2. live => \A p \in DOMAIN calls.order : calls.order[p].ended
      BY <1>2, <1>3, <3>1 DEF TurnWireInv, CallsDone
    <3> QED
      BY <1>1, <1>2, <3>1, <3>2 DEF CallsDone
  <2> QED
    BY <2>1, <2>2, <2>3, <2>4 DEF Quiet, Recv
<1> QED
  BY <1>1, <1>4 DEF TurnWireInv, TextHeld, ReasoningHeld, CallsHeld

(* A tool helper remembers no block that was not remembered. *)
LEMMA ToolsKeepHeld ==
    ASSUME NEW e, NEW r, ToolSent(r, e), TextHeld(e), ReasoningHeld(e)
    PROVE  TextHeld(r) /\ ReasoningHeld(r)
  BY DEF ToolSent, TextHeld, ReasoningHeld, SameOpen, Forgot, Shown

LEMMA EndCallWire ==
    ASSUME TurnInv, TurnWireInv, EndCall
    PROVE  TurnWireInv'
<1> DEFINE b == calls.order[cursor]
<1>1. calls \in CallTables /\ calls.order \in Seq(Buffers) /\ live \in BOOLEAN
  BY DEF TurnInv, CallsInv, TablesOK, CallTables, ControlInv
<1>2. cursor \in 1..Len(calls.order) /\ live /\ pc = "end" /\ pc' = "end" /\ cursor' = cursor + 1
  BY <1>1 DEF EndCall, AllEnded, TurnInv, ControlInv
<1>3. b \in Buffers
  BY <1>1, <1>2
<1>4. b.id \in ToolID
  BY <1>3 DEF Buffers
<1>5. /\ ToolSent(em', em) /\ em'.startedToolCalls = em.startedToolCalls
      /\ em.endedToolCalls \subseteq em'.endedToolCalls
      /\ Good(em') /\ b.started /\ ~b.ended /\ b.id \in em.startedToolCalls
             => b.id \in em'.endedToolCalls
  BY <1>4, ToolEndOrderly, NoToolFrame DEF EndCall, TurnWireInv
<1>6. /\ DOMAIN calls'.order = DOMAIN calls.order
      /\ \A p \in DOMAIN calls.order :
            calls'.order[p] = IF p = cursor THEN [b EXCEPT !.ended = TRUE] ELSE calls.order[p]
  BY <1>1, <1>2 DEF EndCall, CallTables
<1>7. [b EXCEPT !.ended = TRUE].ended
  BY <1>3 DEF Buffers
<1>8. UNCHANGED <<live, text, reasoning>>
  BY DEF EndCall, request, blocks
<1> HIDE DEF b
<1>9. CallsHeld'
  <2> SUFFICES ASSUME Good(em'), NEW c \in em'.startedToolCalls \ em'.endedToolCalls
               PROVE  Held(c, calls')
    BY <1>2, <1>8 DEF CallsHeld
  <2>1. Good(em) /\ c \in em.startedToolCalls \ em.endedToolCalls
    BY <1>5 DEF ToolSent
  <2>2. PICK p \in DOMAIN calls.order :
            calls.order[p].id = c /\ calls.order[p].started /\ ~calls.order[p].ended
    BY <2>1 DEF TurnWireInv, CallsHeld, Held
  <2>3. p # cursor
    BY <1>5, <2>1, <2>2 DEF b
  <2> QED
    BY <1>6, <2>2, <2>3 DEF Held
<1>10. CallsDone'
  <2>1. \A p \in DOMAIN calls.order : p < cursor + 1 => p < cursor \/ p = cursor
    BY <1>1, <1>2
  <2> QED
    BY <1>2, <1>6, <1>7, <1>8, <2>1 DEF CallsDone, TurnWireInv
<1>11. TextHeld(em') /\ ReasoningHeld(em')
  BY <1>5, ToolsKeepHeld DEF TurnWireInv
<1> QED
  BY <1>5, <1>8, <1>9, <1>10, <1>11 DEF TurnWireInv, ToolSent, TextHeld, ReasoningHeld

LEMMA HeldIsFound ==
    ASSUME NEW t \in CallTables, NEW f, NEW c, Held(c, t)
    PROVE  Held(c, WithBuffer(t, f))
<1> DEFINE new == NewBuffer(f.index)
<1>1. t.order \in Seq(Buffers) /\ Len(t.order) \in Nat
  BY DEF CallTables
<1> HIDE DEF new
<1>2. WithBuffer(t, f).order \in {t.order, Append(t.order, new)}
  BY DEF WithBuffer, CallTables, new
<1>3. /\ DOMAIN t.order \subseteq DOMAIN Append(t.order, new)
      /\ \A p \in DOMAIN t.order : Append(t.order, new)[p] = t.order[p]
  BY <1>1
<1> QED
  BY <1>2, <1>3 DEF Held

LEMMA RefuseWire ==
    ASSUME TurnInv, TurnWireInv, RefuseFragment
    PROVE  TurnWireInv'
<1>1. calls \in CallTables /\ calls' = WithBuffer(calls, call) /\ pc' = "close"
  BY DEF RefuseFragment, Fail, TurnInv, CallsInv, TablesOK
<1>2. UNCHANGED <<em, live, text, reasoning>>
  BY DEF RefuseFragment, request, blocks
<1>3. CallsHeld'
  BY <1>1, <1>2, HeldIsFound DEF TurnWireInv, CallsHeld
<1>4. CallsDone'
  BY <1>1 DEF CallsDone
<1> QED
  BY <1>2, <1>3, <1>4 DEF TurnWireInv, TextHeld, ReasoningHeld

LEMMA FlushWire ==
    ASSUME TurnInv, TurnWireInv, FlushArg
    PROVE  TurnWireInv'
<1> DEFINE pos == Known(calls, call)
           b   == calls.order[pos]
           c   == [b EXCEPT !.pendingArgs = Tail(@)]
<1>1. /\ TablesOK(calls) /\ calls \in CallTables /\ calls.order \in Seq(Buffers)
      /\ call \in Fragments /\ Correlatable(call) /\ pos # 0
  BY CallFacts DEF FlushArg, TurnInv, CallsInv, TablesOK, CallTables, ControlInv
<1>2. pos \in 1..Len(calls.order)
  BY <1>1, KnownType
<1>3. b \in Buffers /\ b.pendingArgs # <<>>
  BY <1>1, <1>2 DEF FlushArg, Flushing
<1>4. b.id \in ToolID /\ Head(b.pendingArgs) \in Delta
  <2>1. b.pendingArgs \in Seq(Tokens)
    BY <1>3 DEF Buffers
  <2> QED
    BY <1>3, <2>1 DEF Buffers, Delta
<1>5. ToolSent(em', em) /\ SameCalls(em', em)
  BY <1>4, ToolArgsOrderly DEF FlushArg, TurnWireInv
<1>6. /\ DOMAIN calls'.order = DOMAIN calls.order
      /\ \A p \in DOMAIN calls.order :
            calls'.order[p] = IF p = pos THEN c ELSE calls.order[p]
  BY <1>1, <1>2 DEF FlushArg, CallTables
<1>7. c.id = b.id /\ c.started = b.started /\ c.ended = b.ended
  BY <1>3 DEF Buffers
<1> HIDE DEF c, pos
<1>8. UNCHANGED <<live, text, reasoning>> /\ pc' = "flush"
  BY DEF FlushArg, request, blocks
<1>9. CallsHeld'
  BY <1>5, <1>6, <1>7, <1>8 DEF TurnWireInv, CallsHeld, Held, ToolSent, SameCalls
<1>10. CallsDone'
  BY <1>8 DEF CallsDone
<1>11. TextHeld(em') /\ ReasoningHeld(em')
  BY <1>5, ToolsKeepHeld DEF TurnWireInv
<1> QED
  BY <1>5, <1>8, <1>9, <1>10, <1>11 DEF TurnWireInv, ToolSent, TextHeld, ReasoningHeld

(* What the emitter is told of an accepted fragment, in short: stored is    *)
(* the buffer it leaves at pos.                                             *)
LEMMA AcceptWire ==
    ASSUME TurnInv, TurnWireInv, AcceptFragment
    PROVE  TurnWireInv'
<1> DEFINE found  == WithBuffer(calls, call)
           pos    == Known(found, call)
           delta  == IF call.args THEN piece(cursor) ELSE NoDelta
           before == found.order[pos]
           merged == Merge(before, call, delta)
           talks  == live /\ ~before.ended
           starts == talks /\ Ready(merged)
           sends  == talks /\ merged.started
           buffer == IF talks /\ ~merged.started THEN Postpone(merged, delta) ELSE merged
           stored == [buffer EXCEPT !.started = @ \/ starts]
<1>1. /\ TablesOK(calls) /\ IDsClaimed(calls) /\ calls \in CallTables /\ live \in BOOLEAN
      /\ call \in Fragments /\ Correlatable(call) /\ piece(cursor) \in Tokens
      /\ owner.id \in Nat
  BY CallFacts DEF AcceptFragment, TurnInv, CallsInv, TablesOK, ControlInv, TranscriptInv
<1>2. /\ TablesOK(found) /\ pos \in 1..Len(found.order)
      /\ found \in CallTables /\ found.order \in Seq(Buffers)
  BY <1>1, FoundBuffer DEF TablesOK, CallTables
<1>3. before \in Buffers
  BY <1>2
<1>4. delta \in Tokens \cup {NoDelta} /\ call.id \in ToolID /\ call.name \in Name
  BY <1>1 DEF Fragments
<1>5. before.id # NoID /\ ~before.ended /\ call.id # NoID => before.id = call.id
  <2>1. ~Ambiguous(found, call)
    BY DEF AcceptFragment
  <2>2. CASE call.index # NoIndex
    BY <2>1, <2>2 DEF Ambiguous, ChangedID
  <2>3. CASE call.index = NoIndex
    <3>1. call.id \in ToolIDs /\ pos = found.byID[call.id] /\ pos # 0
      BY <1>1, <1>2, <2>3, KnownType DEF Known, Correlatable
    <3>2. \/ found.order[pos].id = call.id \/ found.order[pos].ended \/ found.order[pos].id = NoID
      BY <1>1, <3>1, FoundBuffer
    <3> QED
      BY <3>2
  <2> QED
    BY <2>2, <2>3
<1>6. \A c : Held(c, calls) => Held(c, found)
  BY <1>1, HeldIsFound
<1>7. em' = IF sends THEN ToolArgs(em, merged.id, delta)
            ELSE IF starts THEN ToolStart(em, merged.id, merged.name, owner.id) ELSE em
  BY DEF AcceptFragment
<1>8. calls' = [Claim(found, call) EXCEPT !.order[pos] = stored]
  BY DEF AcceptFragment
<1> HIDE DEF before, delta, found
<1>9. /\ merged \in Buffers /\ merged.ended = before.ended /\ merged.started = before.started
      /\ merged.id = IF before.ended \/ call.id = NoID THEN before.id ELSE call.id
  <2>1. Join(before.arguments, delta) \in Seq(Tokens)
    BY <1>3, <1>4 DEF Join, Buffers
  <2> QED
    BY <1>3, <1>4, <2>1 DEF Merge, Buffers
<1> HIDE DEF merged
<1>10. /\ buffer \in Buffers /\ buffer.id = merged.id /\ buffer.ended = merged.ended
       /\ buffer.started = merged.started
  BY <1>4, <1>9, SMTT(30) DEF Postpone, Join, Buffers
<1> HIDE DEF buffer
<1>11. /\ stored.id = merged.id /\ stored.ended = before.ended
       /\ before.started => stored.started
       /\ starts => stored.started
  BY <1>9, <1>10 DEF Buffers
<1>12. starts => live /\ ~before.ended
  OBVIOUS
<1> HIDE DEF stored, starts, sends
<1>13. /\ DOMAIN calls'.order = DOMAIN found.order /\ pos \in DOMAIN found.order
       /\ \A p \in DOMAIN found.order :
             calls'.order[p] = IF p = pos THEN stored ELSE found.order[p]
  <2>1. /\ Claim(found, call).order = found.order
        /\ DOMAIN Claim(found, call) = DOMAIN found
    BY <1>2 DEF Claim, CallTables
  <2>2. calls'.order = [found.order EXCEPT ![pos] = stored]
    BY <1>2, <1>8, <2>1 DEF CallTables
  <2> QED
    BY <1>2, <2>2
<1> HIDE DEF pos
<1>14. merged.id \in ToolID /\ merged.name \in Name /\ delta \in Delta
  BY <1>4, <1>9 DEF Buffers, Delta
<1>15. /\ ToolSent(em', em) /\ em'.endedToolCalls = em.endedToolCalls
       /\ \/ em'.startedToolCalls = em.startedToolCalls
          \/ starts /\ em'.startedToolCalls = em.startedToolCalls \cup {merged.id}
  BY <1>1, <1>7, <1>14, ToolArgsOrderly, ToolStartOrderly, NoToolFrame DEF TurnWireInv, SameCalls
<1>16. UNCHANGED <<live, text, reasoning>> /\ pc' = "flush"
  BY DEF AcceptFragment, request, blocks
<1>17. ASSUME NEW c \in ToolIDs, Held(c, found) PROVE Held(c, calls')
  <2>1. PICK p \in DOMAIN found.order :
            found.order[p].id = c /\ found.order[p].started /\ ~found.order[p].ended
    BY <1>17 DEF Held
  <2>2. CASE p # pos
    BY <1>13, <2>1, <2>2 DEF Held
  <2>3. CASE p = pos
    <3>1. before.id = c /\ before.started /\ ~before.ended /\ c # NoID
      BY <2>1, <2>3, NoIDAssumption DEF before, pos
    <3>2. stored.id = c /\ stored.started /\ ~stored.ended
      BY <1>5, <1>9, <1>11, <3>1
    <3> QED
      BY <1>13, <3>2 DEF Held
  <2> QED
    BY <2>2, <2>3
<1>18. starts => live /\ Held(merged.id, calls')
  BY <1>11, <1>12, <1>13 DEF Held
<1>19. CallsHeld'
  <2> SUFFICES ASSUME Good(em'), NEW c \in em'.startedToolCalls \ em'.endedToolCalls
               PROVE  live /\ Held(c, calls')
    BY <1>16 DEF CallsHeld
  <2>1. CASE c \in em.startedToolCalls
    <3>1. Good(em) /\ c \in em.startedToolCalls \ em.endedToolCalls /\ c \in ToolIDs
      BY <1>15, <2>1 DEF ToolSent, WireOK, EmitterInv, EmitterType, TurnWireInv
    <3> QED
      BY <1>6, <1>17, <3>1 DEF TurnWireInv, CallsHeld
  <2>2. CASE c \notin em.startedToolCalls
    BY <1>15, <1>18, <2>2
  <2> QED
    BY <2>1, <2>2
<1>20. CallsDone'
  BY <1>16 DEF CallsDone
<1>21. TextHeld(em') /\ ReasoningHeld(em')
  BY <1>15, ToolsKeepHeld DEF TurnWireInv
<1> QED
  BY <1>15, <1>16, <1>19, <1>20, <1>21 DEF TurnWireInv, ToolSent, TextHeld, ReasoningHeld

LEMMA ReasoningWire ==
    ASSUME TurnInv, TurnWireInv, ApplyReasoning
    PROVE  TurnWireInv'
<1>1. ReasoningWritten
  BY NoneHeld, ReasoningWrites DEF ApplyReasoning, TurnWireInv
<1>2. UNCHANGED <<live, calls>> /\ pc = "reasoning" /\ pc' \in {"close", "end", "tools"}
  BY DEF ApplyReasoning, request, Fail
<1>3. CallsHeld'
  BY <1>1, <1>2 DEF ReasoningWritten, SameCalls, TurnWireInv, CallsHeld
<1>4. CallsDone'
  BY <1>2 DEF TurnWireInv, CallsDone
<1>5. TextHeld(em)' /\ ReasoningHeld(em)'
  BY <1>1 DEF ReasoningWritten, TurnWireInv, TextHeld, ReasoningHeld, Shown, ReasoningID
<1> QED
  BY <1>1, <1>3, <1>4, <1>5 DEF TurnWireInv, ReasoningWritten

LEMMA TextWire ==
    ASSUME TurnInv, TurnWireInv, ApplyText
    PROVE  TurnWireInv'
<1>1. TextWritten
  BY NoneHeld, TextWrites DEF ApplyText, TurnWireInv
<1>2. UNCHANGED <<live, calls>> /\ pc' \in {"close", "tools"}
  BY DEF ApplyText, request, Fail
<1>3. CallsHeld'
  BY <1>1, <1>2 DEF TextWritten, SameCalls, TurnWireInv, CallsHeld
<1>4. CallsDone'
  BY <1>2 DEF CallsDone
<1>5. TextHeld(em)' /\ ReasoningHeld(em)'
  BY <1>1 DEF TextWritten, TurnWireInv, TextHeld, ReasoningHeld, Shown, TextID
<1> QED
  BY <1>1, <1>3, <1>4, <1>5 DEF TurnWireInv, TextWritten

LEMMA BlocksWire ==
    ASSUME TurnInv, TurnWireInv, EnsureToolOwner \/ CloseBlocks
    PROVE  TurnWireInv'
<1>1. BlocksWritten
  BY BlocksWrite DEF TurnWireInv
<1>2. /\ UNCHANGED <<live, calls>>
      /\ pc' \in {"close", "tools"} \/ (pc' = "end" /\ cursor' = 1)
  BY DEF EnsureToolOwner, CloseBlocks, InTools, request, Fail
<1>3. calls.order \in Seq(Buffers)
  BY DEF TurnInv, CallsInv, TablesOK, CallTables
<1>4. \A p \in DOMAIN calls.order : ~(p < 1)
  BY <1>3
<1>5. CallsHeld'
  BY <1>1, <1>2 DEF BlocksWritten, SameCalls, TurnWireInv, CallsHeld
<1>6. CallsDone'
  BY <1>2, <1>4 DEF CallsDone
<1>7. TextHeld(em)' /\ ReasoningHeld(em)'
  BY <1>1 DEF BlocksWritten, Forgot, TextHeld, ReasoningHeld, Shown
<1> QED
  BY <1>1, <1>5, <1>6, <1>7 DEF TurnWireInv, BlocksWritten

LEMMA ReturnWire ==
    ASSUME TurnInv, TurnWireInv, OpenFails \/ ConcludeEmpty \/ Conclude
    PROVE  TurnWireInv'
<1>1. UNCHANGED <<em, live, text, reasoning, calls>> /\ pc \in {"open", "conclude"} /\ pc' = "done"
  BY DEF OpenFails, ConcludeEmpty, Conclude, request, blocks
<1>2. CallsDone'
  BY <1>1 DEF TurnWireInv, CallsDone
<1> QED
  BY <1>1, <1>2 DEF TurnWireInv, TextHeld, ReasoningHeld, CallsHeld

LEMMA WireNext == TurnInv /\ TurnWireInv /\ [Next]_vars => TurnWireInv'
<1> SUFFICES ASSUME TurnInv, TurnWireInv, [Next]_vars
             PROVE  TurnWireInv'
  OBVIOUS
<1>1. CASE UNCHANGED vars \/ Returned
  <2>1. UNCHANGED <<em, live, pc, cursor, text, reasoning, calls>>
    BY <1>1 DEF Returned, vars
  <2> QED
    BY <2>1 DEF TurnWireInv, TextHeld, ReasoningHeld, CallsHeld, CallsDone
<1>2. CASE Quiet
  BY <1>2, QuietWire
<1>3. CASE EndCall
  BY <1>3, EndCallWire
<1>4. CASE ApplyReasoning
  BY <1>4, ReasoningWire
<1>5. CASE ApplyText
  BY <1>5, TextWire
<1>6. CASE EnsureToolOwner \/ CloseBlocks
  BY <1>6, BlocksWire
<1>7. CASE RefuseFragment
  BY <1>7, RefuseWire
<1>8. CASE AcceptFragment
  BY <1>8, AcceptWire
<1>9. CASE FlushArg
  BY <1>9, FlushWire
<1>10. CASE OpenFails \/ ConcludeEmpty \/ Conclude
  BY <1>10, ReturnWire
<1> QED
  BY <1>1, <1>2, <1>3, <1>4, <1>5, <1>6, <1>7, <1>8, <1>9, <1>10
     DEF Next, TurnStep, Apply, Finish, Quiet

LEMMA WireAlways == Spec => [](TurnInv /\ TurnWireInv)
  BY TurnInvariant, WireInit, WireNext, PTL DEF Spec

(* Text, reasoning and tool calls never overlap on the wire: ensureToolOwner *)
(* and closeOpenBlocks end the blocks before a tool frame, endToolCalls ends *)
(* the calls before text or reasoning starts.                                *)
THEOREM BlocksStayApart == Spec => []BlocksNeverOverlap
<1>1. TurnWireInv => BlocksNeverOverlap
  BY DEF TurnWireInv, WireOK, Orderly, Apart, ApartAt, BlocksNeverOverlap, wire
<1> QED
  BY <1>1, WireAlways, PTL

(* An emitter that remembers no open block and no open call has ended all.  *)
LEMMA NothingOpen ==
    ASSUME NEW e, WireOK(e), Good(e), Forgot(e), NoCallOpen(e)
    PROVE  /\ \A kind \in Kinds, i \in DOMAIN e.wire : ~OpenBefore(e.wire, kind, i, Len(e.wire) + 1)
           /\ e.startedToolCalls = e.endedToolCalls
<1>1. EmitterInv(e) /\ MarksAll(e)
  BY DEF WireOK, Orderly
<1>2. NoneOpen(e.wire)
  BY <1>1, ForgotNone
<1>3. e.endedToolCalls \subseteq e.startedToolCalls
  <2> SUFFICES ASSUME NEW c \in e.endedToolCalls
               PROVE  c \in e.startedToolCalls
    OBVIOUS
  <2>1. c \in ToolIDs /\ e.wire \in Seq(Frames)
    BY <1>1 DEF EmitterInv, EmitterType
  <2>2. PICK j \in DOMAIN e.wire : Ends(e.wire[j], c)
    BY <1>1, <2>1 DEF EmitterInv, RemembersCalls
  <2>3. \E i \in 1..(j-1) : Starts(e.wire[i], c)
    BY <1>1, <2>1, <2>2 DEF EmitterInv, OneLifecycle
  <2>4. \E i \in DOMAIN e.wire : Starts(e.wire[i], c)
    BY <2>1, <2>3
  <2> QED
    BY <1>1, <2>1, <2>4 DEF EmitterInv, RemembersCalls
<1> QED
  BY <1>2, <1>3 DEF NoneOpen, OpenNow, NoCallOpen

LEMMA BlocksForgotten ==
    ASSUME TurnInv, TurnWireInv, pc = "done", Good(em)
    PROVE  Forgot(em)
<1>1. ~text.open /\ ~reasoning.open
  BY DEF TurnInv, BlocksInv, Closing
<1> QED
  BY <1>1 DEF TurnWireInv, TextHeld, ReasoningHeld, Shown, Forgot

(* Whatever ends the turn, a client that missed nothing is left with every   *)
(* block and every call ended: closeBlocks and endToolCalls in finish reach  *)
(* all that was started.                                                     *)
THEOREM NothingDangles == Spec => []EverythingStartedEnds
<1>1. TurnInv /\ TurnWireInv => EverythingStartedEnds
  <2> SUFFICES ASSUME TurnInv, TurnWireInv, pc = "done", Lossless
               PROVE  /\ \A kind \in Kinds, i \in DOMAIN wire :
                            ~OpenBefore(wire, kind, i, Len(wire) + 1)
                      /\ em.startedToolCalls = em.endedToolCalls
    BY DEF EverythingStartedEnds
  <2>1. Good(em) /\ WireOK(em)
    BY DEF Lossless, Good, TurnWireInv
  <2>2. Forgot(em) /\ NoCallOpen(em)
    BY <2>1, BlocksForgotten, NoneHeld
  <2> QED
    BY <2>1, <2>2, NothingOpen DEF wire
<1> QED
  BY <1>1, WireAlways, PTL

-----------------------------------------------------------------------------
(***************************************************************************)
(* The transcript misses no block.  A block that was ended on the wire is  *)
(* listed, or it is still open in the turn, which will list it: a tool     *)
(* frame ends a block on the wire before closeReasoning or closeText does. *)
(***************************************************************************)
IdsOf(messages) == {messages[i].id : i \in DOMAIN messages}
OpenIds == (IF text.open THEN {text.id} ELSE {}) \cup (IF reasoning.open THEN {reasoning.id} ELSE {})
Ending  == {"TEXT_END", "REASONING_END"}

EndsListed ==
    Good(em) => \A f \in Sent(em) : f.type \in Ending => f.msg \in IdsOf(wireMessages) \cup OpenIds

LEMMA IdsAppended ==
    ASSUME NEW messages \in Seq(Message), NEW m
    PROVE  IdsOf(Append(messages, m)) = IdsOf(messages) \cup {m.id}
<1> DEFINE longer == Append(messages, m)
           n      == Len(messages) + 1
<1>1. DOMAIN longer = DOMAIN messages \cup {n} /\ longer[n] = m /\ n \notin DOMAIN messages
      /\ \A i \in DOMAIN messages : longer[i] = messages[i]
  OBVIOUS
<1> HIDE DEF longer, n
<1> QED
  BY <1>1 DEF IdsOf, longer

(* What closing a block adds. *)
LEMMA IdsClosed ==
    ASSUME text \in Block, reasoning \in Block, NEW messages \in Seq(Message), NEW e, ~e.err
    PROVE  /\ WithText(e, messages) \in Seq(Message) /\ WithReasoning(e, messages) \in Seq(Message)
           /\ IdsOf(WithText(e, messages))
                = IdsOf(messages) \cup (IF text.open THEN {text.id} ELSE {})
           /\ IdsOf(WithReasoning(e, messages))
                = IdsOf(messages) \cup (IF reasoning.open THEN {reasoning.id} ELSE {})
<1>1. /\ Plain(text.id, "assistant", text.content) \in Message
      /\ Plain(reasoning.id, "reasoning", reasoning.content) \in Message
      /\ Plain(text.id, "assistant", text.content).id = text.id
      /\ Plain(reasoning.id, "reasoning", reasoning.content).id = reasoning.id
  BY DEF Plain, Block, Message, Roles
<1> QED
  BY <1>1, IdsAppended DEF WithText, WithReasoning

LEMMA TranscriptSoFar ==
    ASSUME TurnInv, pc # "done"
    PROVE  wireMessages \in Seq(Message) /\ text \in Block /\ reasoning \in Block
  BY CallessMessages DEF TurnInv, TranscriptInv, BlocksInv

LEMMA EndsInit == Init => EndsListed
<1> SUFFICES ASSUME Init PROVE EndsListed
  OBVIOUS
<1>1. em.wire = <<>>
  BY DEF Init, NewEmitter
<1> QED
  BY <1>1 DEF EndsListed, Sent

(* What the three actions that may send a tool frame do to the emitter.     *)
ToolCalled ==
    \E id \in ToolID, name \in Name, parent \in Nat, delta \in Delta :
        /\ parent = owner.id
        /\ em' \in {em, ToolStart(em, id, name, parent), ToolArgs(em, id, delta), ToolEnd(em, id)}

LEMMA ToolHelperCalled ==
    ASSUME TurnInv, EndCall \/ FlushArg \/ AcceptFragment
    PROVE  ToolCalled
<1>1. /\ calls \in CallTables /\ calls.order \in Seq(Buffers) /\ TablesOK(calls) /\ IDsClaimed(calls)
      /\ NoDelta \in Delta /\ NoID \in ToolID /\ owner.id \in Nat /\ NoName \in Name
  BY NoDeltaType DEF TurnInv, CallsInv, TablesOK, CallTables, ToolID, TranscriptInv, Name
<1>2. CASE EndCall
  <2> DEFINE b == calls.order[cursor]
  <2>1. b \in Buffers
    BY <1>1, <1>2 DEF EndCall, AllEnded, TurnInv, ControlInv
  <2>2. b.id \in ToolID /\ em' \in {em, ToolEnd(em, b.id)}
    BY <1>2, <2>1 DEF Buffers, EndCall
  <2> QED
    BY <1>1, <2>2 DEF ToolCalled
<1>3. CASE FlushArg
  <2> DEFINE b == calls.order[Known(calls, call)]
  <2>1. call \in Fragments /\ Correlatable(call) /\ Known(calls, call) # 0
    BY <1>3, CallFacts DEF FlushArg, TurnInv, CallsInv, ControlInv
  <2>2. b \in Buffers /\ b.pendingArgs # <<>>
    BY <1>1, <1>3, <2>1, KnownType DEF FlushArg, Flushing
  <2>3. b.id \in ToolID /\ Head(b.pendingArgs) \in Delta
    <3>1. b.pendingArgs \in Seq(Tokens)
      BY <2>2 DEF Buffers
    <3> QED
      BY <2>2, <3>1 DEF Buffers, Delta
  <2>4. em' = ToolArgs(em, b.id, Head(b.pendingArgs))
    BY <1>3 DEF FlushArg
  <2> QED
    BY <1>1, <2>3, <2>4 DEF ToolCalled
<1>4. CASE AcceptFragment
  <2> DEFINE found  == WithBuffer(calls, call)
             delta  == IF call.args THEN piece(cursor) ELSE NoDelta
             before == found.order[Known(found, call)]
             merged == Merge(before, call, delta)
  <2>1. call \in Fragments /\ Correlatable(call) /\ piece(cursor) \in Tokens
    BY <1>4, CallFacts DEF AcceptFragment, TurnInv
  <2>2. before \in Buffers
    <3>1. TablesOK(found) /\ Known(found, call) \in 1..Len(found.order)
      BY <1>1, <2>1, FoundBuffer
    <3>2. found.order \in Seq(Buffers)
      BY <3>1 DEF TablesOK, CallTables
    <3> QED
      BY <3>1, <3>2
  <2>3. em' \in {em, ToolStart(em, merged.id, merged.name, owner.id),
                 ToolArgs(em, merged.id, delta), ToolEnd(em, merged.id)}
    BY <1>4 DEF AcceptFragment
  <2>4. delta \in Delta /\ call.id \in ToolID /\ call.name \in Name
    BY <1>1, <2>1 DEF Fragments, Delta
  <2> HIDE DEF before, delta
  <2>5. merged.id \in ToolID /\ merged.name \in Name
    BY <2>2, <2>4 DEF Merge, Buffers
  <2> HIDE DEF merged
  <2> QED
    BY <1>1, <2>3, <2>4, <2>5 DEF ToolCalled
<1> QED
  BY <1>2, <1>3, <1>4

LEMMA ToolCallSent ==
    ASSUME TurnWireInv, ToolCalled
    PROVE  ToolSent(em', em)
<1>1. WireOK(em)
  BY DEF TurnWireInv
<1>2. PICK id \in ToolID, name \in Name, parent \in Nat, delta \in Delta :
        em' \in {em, ToolStart(em, id, name, parent), ToolArgs(em, id, delta), ToolEnd(em, id)}
  BY DEF ToolCalled
<1>3. ToolSent(em, em) /\ ToolSent(ToolEnd(em, id), em)
  BY <1>1, ToolEndOrderly, NoToolFrame
<1>4. ToolSent(ToolStart(em, id, name, parent), em)
  BY <1>1, ToolStartOrderly
<1>5. ToolSent(ToolArgs(em, id, delta), em)
  BY <1>1, ToolArgsOrderly
<1> QED
  BY <1>2, <1>3, <1>4, <1>5

(* A tool helper ends only what the turn has open. *)
LEMMA ToolsEnds ==
    ASSUME TurnInv, TurnWireInv, EndsListed, EndCall \/ FlushArg \/ AcceptFragment
    PROVE  EndsListed'
<1>1. ToolCalled /\ UNCHANGED blocks
  BY ToolHelperCalled DEF EndCall, FlushArg, AcceptFragment
<1> SUFFICES ASSUME Good(em'), NEW f \in Sent(em'), f.type \in Ending
             PROVE  f.msg \in IdsOf(wireMessages) \cup OpenIds
  BY <1>1 DEF EndsListed, OpenIds, IdsOf, blocks, Sent
<1>2. PICK id \in ToolID, name \in Name, parent \in Nat, delta \in Delta :
        em' \in {em, ToolStart(em, id, name, parent), ToolArgs(em, id, delta), ToolEnd(em, id)}
  BY <1>1 DEF ToolCalled
<1>3. EmitterInv(em) /\ Good(em)
  BY <1>1, ToolCallSent DEF TurnInv, EmitterOK, ToolSent
<1>4. f \in Sent(em) \cup EndsSent(em)
  BY <1>2, <1>3, ToolsSend DEF Ending, CallTypes
<1>5. CASE f \in Sent(em)
  BY <1>3, <1>5 DEF EndsListed
<1>6. CASE f \in EndsSent(em)
  BY <1>3, <1>6 DEF EndsSent, BlockFrame, TurnWireInv, TextHeld, ReasoningHeld, Shown, OpenIds
<1> QED
  BY <1>4, <1>5, <1>6

LEMMA BlocksEnds ==
    ASSUME TurnInv, TurnWireInv, EndsListed,
           ApplyReasoning \/ ApplyText \/ EnsureToolOwner \/ CloseBlocks
    PROVE  EndsListed'
<1>1. wireMessages \in Seq(Message) /\ text \in Block /\ reasoning \in Block
  BY TranscriptSoFar DEF ApplyReasoning, ApplyText, EnsureToolOwner, CloseBlocks, InTools
<1>2. /\ \A f \in TextEndFrames : text.open /\ f.msg = text.id
      /\ \A f \in ReasoningEndFrames : reasoning.open /\ f.msg = reasoning.id
  BY DEF TextEndFrames, ReasoningEndFrames, BlockFrame
<1>3. CASE ApplyReasoning
  <2>1. ReasoningWritten
    BY <1>3, NoneHeld, ReasoningWrites DEF ApplyReasoning, TurnWireInv
  <2> SUFFICES ASSUME Good(em'), NEW f \in Sent(em'), f.type \in Ending
               PROVE  f.msg \in IdsOf(wireMessages') \cup OpenIds'
    BY DEF EndsListed, IdsOf
  <2>2. PICK closed : ~closed.err /\ wireMessages' = WithText(closed, wireMessages)
    BY <2>1 DEF ReasoningWritten
  <2>3. IdsOf(wireMessages') = IdsOf(wireMessages) \cup (IF text.open THEN {text.id} ELSE {})
    BY <1>1, <2>2, IdsClosed
  <2>4. Good(em) /\ (reasoning.open => reasoning.id \in OpenIds')
    BY <2>1 DEF ReasoningWritten, ReasoningID, OpenIds
  <2>5. f \in Sent(em) \cup TextEndFrames
    BY <2>1 DEF ReasoningWritten, ReasoningFrames, BlockFrame, Ending
  <2> QED
    BY <1>2, <2>3, <2>4, <2>5 DEF EndsListed, OpenIds
<1>4. CASE ApplyText
  <2>1. TextWritten
    BY <1>4, NoneHeld, TextWrites DEF ApplyText, TurnWireInv
  <2> SUFFICES ASSUME Good(em'), NEW f \in Sent(em'), f.type \in Ending
               PROVE  f.msg \in IdsOf(wireMessages') \cup OpenIds'
    BY DEF EndsListed, IdsOf
  <2>2. PICK closed : ~closed.err /\ wireMessages' = WithReasoning(closed, wireMessages)
    BY <2>1 DEF TextWritten
  <2>3. IdsOf(wireMessages') = IdsOf(wireMessages) \cup (IF reasoning.open THEN {reasoning.id} ELSE {})
    BY <1>1, <2>2, IdsClosed
  <2>4. Good(em) /\ (text.open => text.id \in OpenIds')
    BY <2>1 DEF TextWritten, TextID, OpenIds
  <2>5. f \in Sent(em) \cup ReasoningEndFrames
    BY <2>1 DEF TextWritten, TextFrames, BlockFrame, Ending
  <2> QED
    BY <1>2, <2>3, <2>4, <2>5 DEF EndsListed, OpenIds
<1>5. CASE EnsureToolOwner \/ CloseBlocks
  <2>1. BlocksWritten
    BY <1>5, BlocksWrite DEF TurnWireInv
  <2> SUFFICES ASSUME Good(em'), NEW f \in Sent(em'), f.type \in Ending
               PROVE  f.msg \in IdsOf(wireMessages')
    BY DEF EndsListed, IdsOf
  <2>2. PICK quiet, closed, tail :
           /\ ~quiet.err /\ ~closed.err
           /\ LET messages == WithText(closed, WithReasoning(quiet, wireMessages))
              IN  wireMessages' \in {messages, Append(messages, tail)}
    BY <2>1 DEF BlocksWritten
  <2> DEFINE said     == WithReasoning(quiet, wireMessages)
             messages == WithText(closed, said)
  <2>3. said \in Seq(Message)
        /\ IdsOf(said) = IdsOf(wireMessages) \cup (IF reasoning.open THEN {reasoning.id} ELSE {})
    BY <1>1, <2>2, IdsClosed
  <2>4. wireMessages' \in {messages, Append(messages, tail)}
    BY <2>2
  <2> HIDE DEF said
  <2>5. messages \in Seq(Message)
        /\ IdsOf(messages) = IdsOf(said) \cup (IF text.open THEN {text.id} ELSE {})
    BY <1>1, <2>2, <2>3, IdsClosed
  <2> HIDE DEF messages
  <2>6. IdsOf(messages) \subseteq IdsOf(wireMessages')
    BY <2>4, <2>5, IdsAppended
  <2>7. Good(em) /\ f \in Sent(em) \cup TextEndFrames \cup ReasoningEndFrames
    BY <2>1 DEF BlocksWritten
  <2> QED
    BY <1>2, <2>3, <2>5, <2>6, <2>7 DEF EndsListed, OpenIds
<1> QED
  BY <1>3, <1>4, <1>5

LEMMA AttachedIds ==
    ASSUME wireMessages \in Seq(Message), NEW merged
    PROVE  IdsOf(Attach(merged)) = IdsOf(wireMessages)
<1>1. DOMAIN Attach(merged) = DOMAIN wireMessages
  BY DEF Attach
<1>2. \A i \in DOMAIN wireMessages : Attach(merged)[i].id = wireMessages[i].id
  <2> SUFFICES ASSUME NEW i \in DOMAIN wireMessages
               PROVE  Attach(merged)[i].id = wireMessages[i].id
    OBVIOUS
  <2>1. wireMessages[i] \in Message
    OBVIOUS
  <2> DEFINE m == [wireMessages[i] EXCEPT !.calls = ToAGUIToolCalls(merged)]
  <2>2. m.id = wireMessages[i].id
    BY <2>1 DEF Message
  <2>3. Attach(merged)[i] = IF i = owner.index THEN m ELSE wireMessages[i]
    BY DEF Attach
  <2> HIDE DEF m
  <2> QED
    BY <2>2, <2>3
<1> QED
  BY <1>1, <1>2 DEF IdsOf

LEMMA EndsNext == TurnInv /\ TurnWireInv /\ EndsListed /\ [Next]_vars => EndsListed'
<1> SUFFICES ASSUME TurnInv, TurnWireInv, EndsListed, [Next]_vars
             PROVE  EndsListed'
  OBVIOUS
<1>1. ASSUME em' = em, text' = text, reasoning' = reasoning,
             IdsOf(wireMessages') = IdsOf(wireMessages)
      PROVE  EndsListed'
  BY <1>1 DEF EndsListed, OpenIds, IdsOf, Sent
<1>2. CASE UNCHANGED vars \/ Returned \/ Quiet \/ RefuseFragment \/ OpenFails \/ ConcludeEmpty
  <2>1. em' = em /\ text' = text /\ reasoning' = reasoning /\ wireMessages' = wireMessages
    BY <1>2 DEF vars, Returned, Quiet, Cancel, OpenStream, CheckRequest, Recv, RecvEOF, RecvError,
                RecvChunk, RecvKeepAlive, CallsEnded, SkipFragment, FragmentDone, ChunkDone,
                RefuseFragment, OpenFails, ConcludeEmpty, blocks
  <2> QED
    BY <1>1, <2>1
<1>3. CASE EndCall \/ FlushArg \/ AcceptFragment
  BY <1>3, ToolsEnds
<1>4. CASE ApplyReasoning \/ ApplyText \/ EnsureToolOwner \/ CloseBlocks
  BY <1>4, BlocksEnds
<1>5. CASE Conclude
  <2>1. /\ em' = em /\ text' = text /\ reasoning' = reasoning
        /\ wireMessages' = wireMessages \/ \E merged : wireMessages' = Attach(merged)
    BY <1>5 DEF Conclude
  <2>2. wireMessages \in Seq(Message)
    BY <1>5, TranscriptSoFar DEF Conclude
  <2> QED
    BY <1>1, <2>1, <2>2, AttachedIds
<1> QED
  BY <1>2, <1>3, <1>4, <1>5 DEF Next, TurnStep, Apply, Finish, Quiet

(* Once the turn returned, every text and reasoning block that was ended on  *)
(* the wire is in WireMessages, whoever ended it: closeText, closeReasoning  *)
(* or a tool frame's closeOpenBlocks.                                        *)
THEOREM TranscriptIsComplete == Spec => []EndedBlocksInTranscript
<1>1. TurnInv /\ TurnWireInv /\ EndsListed => EndedBlocksInTranscript
  <2> SUFFICES ASSUME TurnInv, TurnWireInv, EndsListed, pc = "done", Lossless,
                      NEW j \in DOMAIN wire, wire[j].type \in {"TEXT_END", "REASONING_END"}
               PROVE  \E i \in DOMAIN wireMessages : wireMessages[i].id = wire[j].msg
    BY DEF EndedBlocksInTranscript
  <2>1. Good(em) /\ ~text.open /\ ~reasoning.open
    BY DEF Lossless, Good, TurnInv, BlocksInv, Closing
  <2>2. wire[j] \in Sent(em)
    BY DEF Sent, wire
  <2>3. wire[j].msg \in IdsOf(wireMessages)
    BY <2>1, <2>2 DEF EndsListed, Ending, OpenIds
  <2> QED
    BY <2>3 DEF IdsOf
<1>2. TurnInv /\ TurnWireInv /\ EndsListed /\ [Next]_vars => EndsListed'
  BY EndsNext
<1> QED
  BY <1>1, <1>2, WireAlways, EndsInit, PTL DEF Spec

-----------------------------------------------------------------------------
(***************************************************************************)
(* A provider that does not come back to its tool calls after other        *)
(* content.  The turn then never holds a block open while a tool frame may *)
(* be sent: each block is ended where it was started, by the turn, before  *)
(* the next tool frame.                                                    *)
(***************************************************************************)
BlockOpen == text.open \/ reasoning.open
GoesOn    == pc \in {"reasoning", "text"} \/ (pc = "end" /\ after # "conclude")

Unstarted(t) == \A p \in DOMAIN t.order : ~t.order[p].started
AllOver(t)   == \A p \in DOMAIN t.order : t.order[p].started => t.order[p].ended

CallsSeen == \E i \in DOMAIN chunks : HasCalls(chunks[i]) /\ (GoesOn => i < Len(chunks))
WentOn    == \E i, j \in DOMAIN chunks : i < j /\ HasCalls(chunks[i]) /\ HasContent(chunks[j])

Uninterrupted ==
    /\ ~live => Unstarted(calls)
    /\ pc = "flush" => owner # NoOwner
    /\ live => CallsAreContiguous(chunks)
    /\ live /\ BlockOpen => AllOver(calls) /\ (owner # NoOwner => WentOn)
    /\ owner # NoOwner => CallsSeen
    /\ GoesOn => HasContent(chunk)

LEMMA UninterruptedInit == Init => Uninterrupted
<1> SUFFICES ASSUME Init PROVE Uninterrupted
  OBVIOUS
<1>1. /\ calls.order = <<>> /\ chunks = <<>> /\ owner = NoOwner /\ pc = "open"
      /\ ~text.open /\ ~reasoning.open
  BY DEF Init, NoCalls, Closed
<1> QED
  BY <1>1 DEF Uninterrupted, Unstarted, CallsAreContiguous, BlockOpen, GoesOn

(* The fragment being applied is of the last chunk. *)
LEMMA CallsNow ==
    ASSUME TurnInv, (InTools /\ Correlatable(call)) \/ pc = "flush"
    PROVE  Len(chunks) \in DOMAIN chunks /\ HasCalls(chunk)
<1>1. cursor \in 1..Len(chunk.calls) /\ Len(chunks) \in Nat /\ Len(chunks) > 0 /\ Correlatable(call)
      /\ chunk.calls \in Seq(Fragments) /\ DOMAIN chunks = 1..Len(chunks)
  BY CallFacts, ChunkFacts DEF TurnInv, ControlInv, InTools, InChunk
<1> QED
  BY <1>1 DEF HasCalls, call

LEMMA NoBlockAtCalls ==
    ASSUME TurnInv, Uninterrupted, live, owner # NoOwner,
           (InTools /\ Correlatable(call)) \/ pc = "flush"
    PROVE  ~BlockOpen
<1> SUFFICES ASSUME BlockOpen PROVE FALSE
  OBVIOUS
<1>1. Len(chunks) \in DOMAIN chunks /\ HasCalls(chunk) /\ chunks \in Seq(Chunks)
  BY CallsNow DEF TurnInv, ControlInv
<1>2. PICK i, j \in DOMAIN chunks : i < j /\ HasCalls(chunks[i]) /\ HasContent(chunks[j])
  BY DEF Uninterrupted, WentOn
<1>3. j <= Len(chunks)
  BY <1>1
<1>4. CallsAreContiguous(chunks)
  BY DEF Uninterrupted
<1> HIDE DEF HasCalls, HasContent
<1> QED
  BY <1>1, <1>2, <1>3, <1>4 DEF CallsAreContiguous, chunk

LEMMA FoundCalls ==
    ASSUME NEW t \in CallTables, NEW f
    PROVE  /\ Unstarted(t) => Unstarted(WithBuffer(t, f))
           /\ AllOver(t) => AllOver(WithBuffer(t, f))
<1> DEFINE new == NewBuffer(f.index)
<1>1. t.order \in Seq(Buffers) /\ Len(t.order) \in Nat
  BY DEF CallTables
<1>2. ~new.started
  BY DEF NewBuffer
<1> HIDE DEF new
<1>3. WithBuffer(t, f).order \in {t.order, Append(t.order, new)}
  BY DEF WithBuffer, CallTables, new
<1>4. \A p \in DOMAIN Append(t.order, new) :
        Append(t.order, new)[p] = IF p \in DOMAIN t.order THEN t.order[p] ELSE new
  BY <1>1
<1> QED
  BY <1>2, <1>3, <1>4 DEF Unstarted, AllOver

LEMMA QuietUninterrupted ==
    ASSUME LiveResume = FALSE, TurnInv, Uninterrupted, Quiet
    PROVE  Uninterrupted'
<1>1. UNCHANGED <<text, reasoning, calls, live, owner>>
  BY DEF Quiet, Cancel, OpenStream, CheckRequest, Recv, RecvEOF, RecvError, RecvChunk,
         RecvKeepAlive, CallsEnded, SkipFragment, FragmentDone, ChunkDone, request, blocks
<1>2. CASE ~RecvChunk
  <2>1. chunks' = chunks
    BY <1>2 DEF Quiet, Cancel, OpenStream, CheckRequest, Recv, RecvEOF, RecvError,
         RecvKeepAlive, CallsEnded, SkipFragment, FragmentDone, ChunkDone
  <2>2. (GoesOn' => GoesOn) /\ (pc' = "flush" => pc = "flush")
    <3>1. CASE Cancel
      BY <3>1 DEF Cancel, GoesOn
    <3>2. CASE CallsEnded
      <4>1. pc = "end" /\ pc' \in {"close", after} /\ after' = after
        BY <3>2 DEF CallsEnded, Fail
      <4>2. after \in {"reasoning", "text", "conclude"}
        BY DEF TurnInv, ControlInv
      <4> QED
        BY <4>1, <4>2 DEF GoesOn
    <3>3. CASE ~Cancel /\ ~CallsEnded
      <4>1. pc' \in {"check", "recv", "close", "tools"}
        BY <1>2, <3>3 DEF Quiet, OpenStream, CheckRequest, Recv, RecvEOF, RecvError, RecvKeepAlive,
                  SkipFragment, InTools, FragmentDone, ChunkDone, Fail
      <4> QED
        BY <4>1 DEF GoesOn
    <3> QED
      BY <3>1, <3>2, <3>3
  <2>3. CallsSeen => CallsSeen'
    BY <2>1, <2>2 DEF CallsSeen
  <2>4. WentOn' <=> WentOn
    BY <2>1 DEF WentOn
  <2> QED
    BY <1>1, <2>1, <2>2, <2>3, <2>4 DEF Uninterrupted, BlockOpen, Unstarted, AllOver, chunk
<1>3. CASE RecvChunk
  <2>1. PICK c \in Chunks :
           /\ MaySend(c) /\ chunks' = Append(chunks, c)
           /\ IF c.reasoning THEN pc' = "end" /\ after' = "reasoning"
              ELSE IF c.text THEN pc' = "end" /\ after' = "text"
              ELSE pc' = "tools" /\ after' = after
    BY <1>3 DEF RecvChunk
  <2>2. chunks \in Seq(Chunks) /\ chunks' \in Seq(Chunks) /\ Len(chunks) \in Nat
        /\ Len(chunks') = Len(chunks) + 1 /\ chunks'[Len(chunks')] = c
        /\ DOMAIN chunks = 1..Len(chunks)
        /\ \A i \in DOMAIN chunks : i \in DOMAIN chunks' /\ chunks'[i] = chunks[i] /\ i < Len(chunks')
    BY <2>1 DEF TurnInv, ControlInv
  <2>3. (live => CallsAreContiguous(chunks'))
    BY <2>1 DEF MaySend
  <2>4. CallsSeen => CallsSeen'
    BY <2>2 DEF CallsSeen, HasCalls
  <2>5. WentOn => WentOn'
    BY <2>2 DEF WentOn, HasCalls, HasContent
  <2>6. pc' # "flush" /\ (GoesOn' => HasContent(chunk)')
    BY <2>1, <2>2 DEF GoesOn, HasContent, chunk
  <2> QED
    BY <1>1, <2>3, <2>4, <2>5, <2>6 DEF Uninterrupted, BlockOpen, Unstarted, AllOver
<1> QED
  BY <1>2, <1>3

LEMMA ToolsUninterrupted ==
    ASSUME TurnInv, Uninterrupted, EndCall \/ RefuseFragment \/ FlushArg \/ AcceptFragment
    PROVE  Uninterrupted'
<1>1. /\ calls \in CallTables /\ calls.order \in Seq(Buffers) /\ TablesOK(calls) /\ IDsClaimed(calls)
      /\ UNCHANGED <<text, reasoning, live, owner, chunks, after>>
      /\ live \in BOOLEAN
  BY DEF TurnInv, CallsInv, TablesOK, CallTables, EndCall, FlushArg, AcceptFragment, RefuseFragment,
         blocks, request, ControlInv
<1>2. (GoesOn' => GoesOn) /\ (pc' = "flush" => owner # NoOwner)
  <2>1. CASE EndCall
    BY <2>1 DEF EndCall, GoesOn
  <2>2. CASE ~EndCall
    <3>1. pc' \in {"flush", "close"} /\ (pc' = "flush" => owner # NoOwner)
      BY <2>2 DEF RefuseFragment, FlushArg, AcceptFragment, Fail, Uninterrupted
    <3> QED
      BY <3>1 DEF GoesOn
  <2> QED
    BY <2>1, <2>2
<1>3. (~live => Unstarted(calls')) /\ (live /\ BlockOpen => AllOver(calls'))
  <2>1. CASE EndCall
    <3> DEFINE b == calls.order[cursor]
    <3>1. cursor \in 1..Len(calls.order) /\ live
      BY <1>1, <2>1 DEF EndCall, AllEnded, TurnInv, ControlInv
    <3>2. b \in Buffers
      BY <1>1, <3>1
    <3>3. /\ DOMAIN calls'.order = DOMAIN calls.order
          /\ \A p \in DOMAIN calls.order :
                calls'.order[p] = IF p = cursor THEN [b EXCEPT !.ended = TRUE] ELSE calls.order[p]
      BY <1>1, <2>1, <3>1 DEF EndCall, CallTables
    <3>4. [b EXCEPT !.ended = TRUE].ended
      BY <3>2 DEF Buffers
    <3> HIDE DEF b
    <3> QED
      BY <3>1, <3>3, <3>4 DEF AllOver, Uninterrupted
  <2>2. CASE RefuseFragment
    <3>1. calls' = WithBuffer(calls, call)
      BY <2>2 DEF RefuseFragment
    <3> QED
      BY <1>1, <3>1, FoundCalls DEF Uninterrupted
  <2>3. CASE FlushArg
    <3>1. call \in Fragments /\ Correlatable(call) /\ Known(calls, call) # 0
      BY <2>3, CallFacts DEF FlushArg, TurnInv, CallsInv, ControlInv
    <3>2. Known(calls, call) \in DOMAIN calls.order /\ calls.order[Known(calls, call)].started
      BY <1>1, <2>3, <3>1, KnownType DEF FlushArg, Flushing
    <3>3. live
      BY <1>1, <3>2 DEF Uninterrupted, Unstarted
    <3>4. ~BlockOpen
      BY <2>3, <3>3, NoBlockAtCalls DEF FlushArg, Uninterrupted
    <3> QED
      BY <3>3, <3>4
  <2>4. CASE AcceptFragment
    <3> SUFFICES ASSUME ~live PROVE Unstarted(calls')
      BY <2>4, NoBlockAtCalls DEF AcceptFragment
    <3> DEFINE found  == WithBuffer(calls, call)
               pos    == Known(found, call)
               delta  == IF call.args THEN piece(cursor) ELSE NoDelta
               before == found.order[pos]
               merged == Merge(before, call, delta)
               stored == [merged EXCEPT !.started = @ \/ FALSE]
    <3>1. call \in Fragments /\ Correlatable(call)
      BY <2>4, CallFacts DEF AcceptFragment
    <3>2. /\ pos \in 1..Len(found.order) /\ found \in CallTables /\ found.order \in Seq(Buffers)
          /\ Unstarted(found)
      BY <1>1, <3>1, FoundBuffer, FoundCalls DEF TablesOK, CallTables, Uninterrupted
    <3>3. before \in Buffers /\ ~before.started
      BY <3>2 DEF Unstarted
    <3>4. calls' = [Claim(found, call) EXCEPT !.order[pos] = stored]
      BY <2>4 DEF AcceptFragment
    <3> HIDE DEF before, delta, found
    <3>5. ~stored.started
      BY <3>3 DEF Merge, Buffers
    <3> HIDE DEF stored
    <3>6. Claim(found, call).order = found.order /\ DOMAIN Claim(found, call) = DOMAIN found
      BY <3>2 DEF Claim, CallTables
    <3>7. calls'.order = [found.order EXCEPT ![pos] = stored]
      BY <3>2, <3>4, <3>6 DEF CallTables
    <3> QED
      BY <3>2, <3>5, <3>7 DEF Unstarted
  <2> QED
    BY <2>1, <2>2, <2>3, <2>4
<1>4. CallsSeen => CallsSeen'
  BY <1>1, <1>2 DEF CallsSeen
<1>5. WentOn' <=> WentOn
  BY <1>1 DEF WentOn
<1> QED
  BY <1>1, <1>2, <1>3, <1>4, <1>5 DEF Uninterrupted, BlockOpen, chunk

LEMMA BlocksUninterrupted ==
    ASSUME TurnInv, TurnWireInv, Uninterrupted,
           ApplyReasoning \/ ApplyText \/ EnsureToolOwner \/ CloseBlocks
    PROVE  Uninterrupted'
<1>1. UNCHANGED <<live, calls, chunks>> /\ chunks \in Seq(Chunks)
  BY DEF ApplyReasoning, ApplyText, EnsureToolOwner, CloseBlocks, request, TurnInv, ControlInv
<1>2. CASE ApplyReasoning \/ ApplyText
  <2>1. owner' = owner /\ pc \in {"reasoning", "text"} /\ pc' \in {"close", "end", "tools"}
    BY <1>2 DEF ApplyReasoning, ApplyText, Fail
  <2>2. GoesOn
    BY <2>1 DEF GoesOn
  <2>3. live => AllOver(calls)
    BY <2>1 DEF TurnWireInv, CallsDone, AllOver
  <2>4. CallsSeen => CallsSeen'
    BY <1>1, <2>2 DEF CallsSeen
  <2>5. CallsSeen => WentOn
    BY <1>1, <2>2 DEF CallsSeen, WentOn, Uninterrupted, chunk
  <2> QED
    BY <1>1, <2>1, <2>2, <2>3, <2>4, <2>5 DEF Uninterrupted, WentOn, chunk
<1>3. CASE EnsureToolOwner
  <2>1. PICK quiet, closed : OwnerEnsured(quiet, closed)
    BY <1>3, OwnerStep
  <2>2. /\ owner' = NoOwner \/ ~BlockOpen'
        /\ pc' \in {"close", "tools"} /\ owner = NoOwner
        /\ BlockOpen' => BlockOpen
    BY <1>3, <2>1 DEF EnsureToolOwner, InTools, OwnerEnsured, BlockOpen, Closed
  <2>3. Len(chunks) \in DOMAIN chunks /\ HasCalls(chunk)
    BY <1>3, CallsNow DEF EnsureToolOwner
  <2>4. ~GoesOn' /\ CallsSeen'
    BY <1>1, <2>2, <2>3 DEF GoesOn, CallsSeen, chunk
  <2> QED
    BY <1>1, <2>2, <2>4 DEF Uninterrupted
<1>4. CASE CloseBlocks
  <2>1. pc' = "end" /\ after' = "conclude" /\ owner' = owner /\ text' = Closed /\ reasoning' = Closed
    BY <1>4 DEF CloseBlocks, Forget
  <2>2. ~GoesOn' /\ ~BlockOpen'
    BY <2>1 DEF GoesOn, BlockOpen, Closed
  <2>3. CallsSeen => CallsSeen'
    BY <1>1, <2>2 DEF CallsSeen
  <2> QED
    BY <1>1, <2>1, <2>2, <2>3 DEF Uninterrupted
<1> QED
  BY <1>2, <1>3, <1>4

LEMMA UninterruptedNext ==
    ASSUME LiveResume = FALSE, TurnInv, TurnWireInv, Uninterrupted, [Next]_vars
    PROVE  Uninterrupted'
<1>1. CASE UNCHANGED vars \/ Returned \/ OpenFails \/ ConcludeEmpty \/ Conclude
  <2>1. /\ UNCHANGED <<text, reasoning, calls, live, owner, chunks, after>>
        /\ pc' = pc \/ pc' = "done"
    BY <1>1 DEF vars, Returned, OpenFails, ConcludeEmpty, Conclude, blocks, request
  <2>2. (GoesOn' => GoesOn) /\ (pc' = "flush" => pc = "flush")
    BY <2>1 DEF GoesOn
  <2>3. CallsSeen => CallsSeen'
    BY <2>1, <2>2 DEF CallsSeen
  <2> QED
    BY <2>1, <2>2, <2>3 DEF Uninterrupted, BlockOpen, Unstarted, AllOver, WentOn, chunk
<1>2. CASE Quiet
  BY <1>2, QuietUninterrupted
<1>3. CASE EndCall \/ RefuseFragment \/ FlushArg \/ AcceptFragment
  BY <1>3, ToolsUninterrupted
<1>4. CASE ApplyReasoning \/ ApplyText \/ EnsureToolOwner \/ CloseBlocks
  BY <1>4, BlocksUninterrupted
<1> QED
  BY <1>1, <1>2, <1>3, <1>4 DEF Next, TurnStep, Apply, Finish, Quiet

(* endToolCalls, startIfReady and update send nothing while a block is open. *)
LEMMA NoBlockAtTools ==
    ASSUME TurnInv, TurnWireInv, Uninterrupted, EndCall \/ FlushArg \/ AcceptFragment
    PROVE  em' = em \/ ~BlockOpen
<1>1. calls.order \in Seq(Buffers) /\ TablesOK(calls)
  BY DEF TurnInv, CallsInv, TablesOK, CallTables
<1>2. CASE EndCall
  <2>1. cursor \in DOMAIN calls.order /\ live
    BY <1>1, <1>2 DEF EndCall, AllEnded, TurnInv, ControlInv
  <2>2. em' = em \/ (calls.order[cursor].started /\ ~calls.order[cursor].ended)
    BY <1>2 DEF EndCall
  <2> QED
    BY <2>1, <2>2 DEF Uninterrupted, AllOver
<1>3. CASE FlushArg
  <2>1. call \in Fragments /\ Correlatable(call) /\ Known(calls, call) # 0
    BY <1>3, CallFacts DEF FlushArg, TurnInv, CallsInv, ControlInv
  <2>2. Known(calls, call) \in DOMAIN calls.order /\ calls.order[Known(calls, call)].started
    BY <1>1, <1>3, <2>1, KnownType DEF FlushArg, Flushing
  <2>3. live
    BY <2>2 DEF Uninterrupted, Unstarted
  <2> QED
    BY <1>3, <2>3, NoBlockAtCalls DEF FlushArg, Uninterrupted
<1>4. CASE AcceptFragment
  <2>1. live \/ em' = em
    BY <1>4 DEF AcceptFragment
  <2> QED
    BY <1>4, <2>1, NoBlockAtCalls DEF AcceptFragment
<1> QED
  BY <1>2, <1>3, <1>4

(* So every frame lands in its block, and what the turn has open the client *)
(* has open, as long as the client missed no frame.                         *)
Kept == Within(em) /\ TextKept(em) /\ ReasoningKept(em)

LEMMA KeptInit == Init => Kept
<1> SUFFICES ASSUME Init PROVE Kept
  OBVIOUS
<1>1. em.wire = <<>> /\ ~text.open /\ ~reasoning.open
  BY DEF Init, NewEmitter, Closed
<1> QED
  BY <1>1 DEF Kept, Within, InsideBlocks, TextKept, ReasoningKept

LEMMA KeptNext ==
    ASSUME TurnInv, TurnWireInv, Uninterrupted, Kept, [Next]_vars
    PROVE  Kept'
<1>1. ASSUME em' = em, text' = text, reasoning' = reasoning
      PROVE  Kept'
  BY <1>1 DEF Kept, Within, TextKept, ReasoningKept
<1>2. CASE UNCHANGED vars \/ Returned \/ Quiet \/ RefuseFragment \/ OpenFails \/ ConcludeEmpty \/ Conclude
  <2>1. em' = em /\ text' = text /\ reasoning' = reasoning
    BY <1>2 DEF vars, Returned, Quiet, Cancel, OpenStream, CheckRequest, Recv, RecvEOF, RecvError,
                RecvChunk, RecvKeepAlive, CallsEnded, SkipFragment, FragmentDone, ChunkDone,
                RefuseFragment, OpenFails, ConcludeEmpty, Conclude, blocks
  <2> QED
    BY <1>1, <2>1
<1>3. CASE EndCall \/ FlushArg \/ AcceptFragment
  <2>1. ToolSent(em', em) /\ text' = text /\ reasoning' = reasoning
    BY <1>3, ToolHelperCalled, ToolCallSent DEF EndCall, FlushArg, AcceptFragment, blocks
  <2>2. Good(em) => Paired(em)
    BY DEF Kept, ReasoningKept, TurnWireInv, ReasoningHeld, Shown, Paired
  <2>3. CASE em' = em
    BY <1>1, <2>1, <2>3
  <2>4. CASE ~BlockOpen
    BY <2>1, <2>2, <2>4 DEF Kept, ToolSent, BlockOpen, TextKept, ReasoningKept
  <2> QED
    BY <1>3, <2>3, <2>4, NoBlockAtTools
<1>4. CASE ApplyReasoning
  <2>1. ReasoningWritten
    BY <1>4, NoneHeld, ReasoningWrites DEF ApplyReasoning, TurnWireInv
  <2> QED
    BY <2>1 DEF ReasoningWritten, ReasoningID, Kept, TextKept, ReasoningKept, Closed
<1>5. CASE ApplyText
  <2>1. TextWritten
    BY <1>5, NoneHeld, TextWrites DEF ApplyText, TurnWireInv
  <2> QED
    BY <2>1 DEF TextWritten, TextID, Kept, TextKept, ReasoningKept, Closed
<1>6. CASE EnsureToolOwner \/ CloseBlocks
  <2>1. BlocksWritten
    BY <1>6, BlocksWrite DEF TurnWireInv
  <2> QED
    BY <2>1 DEF BlocksWritten, Kept, TextKept, ReasoningKept, Closed
<1> QED
  BY <1>2, <1>3, <1>4, <1>5, <1>6 DEF Next, TurnStep, Apply, Finish, Quiet

LEMMA UninterruptedAlways ==
    ASSUME LiveResume = FALSE
    PROVE  Spec => [](TurnInv /\ TurnWireInv /\ Uninterrupted /\ Kept)
<1>1. TurnInv /\ TurnWireInv /\ Uninterrupted /\ Kept /\ [Next]_vars => Uninterrupted' /\ Kept'
  BY UninterruptedNext, KeptNext
<1> QED
  BY <1>1, WireAlways, UninterruptedInit, KeptInit, PTL DEF Spec

(* Every content or end frame belongs to a block of its message that is     *)
(* open, from a provider that does not resume its tool calls: applyReasoning *)
(* and applyText open, use and close one block at a time.                    *)
THEOREM FramesStayInside ==
    ASSUME LiveResume = FALSE
    PROVE  Spec => []FramesInsideTheirBlock
<1>1. Kept => FramesInsideTheirBlock
  BY DEF Kept, Within, InsideBlocks, InsideAt, FramesInsideTheirBlock, wire
<1> QED
  BY <1>1, UninterruptedAlways, PTL
-----------------------------------------------------------------------------
(***************************************************************************)
(* Ids are used once.  The ids on the wire were all generated, so a block  *)
(* that starts is new; and no frame has ended the block the turn has open, *)
(* so it is ended once.  Unlike the invariants above this does not depend  *)
(* on the frames the SDK rejected.                                         *)
(***************************************************************************)
Single == BlockTypes \ {"TEXT_CONTENT", "REASONING_CONTENT"}

OnceOnly(w) ==
    \A i, j \in DOMAIN w :
        w[i].type \in Single /\ w[j].type = w[i].type /\ w[j].msg = w[i].msg => i = j

Unsent(e, type, id) == \A f \in Sent(e) : ~(f.type = type /\ f.msg = id)

(* d is e after helpers that may have sent those frames. *)
Grew(d, e, frames) ==
    /\ EmitterInv(d)
    /\ OnceOnly(e.wire) => OnceOnly(d.wire)
    /\ Sent(d) \subseteq Sent(e) \cup frames
    /\ e.err => d.err /\ Sent(d) = Sent(e)

LEMMA GrewOn ==
    ASSUME NEW c, NEW d, NEW e, NEW F, NEW G, Grew(c, d, F), Grew(d, e, G)
    PROVE  Grew(c, e, F \cup G)
  BY DEF Grew

LEMMA OnceAppend ==
    ASSUME NEW w \in Seq(Frames), NEW frame, OnceOnly(w),
           frame.type \in Single =>
               \A k \in DOMAIN w : ~(w[k].type = frame.type /\ w[k].msg = frame.msg)
    PROVE  OnceOnly(Append(w, frame))
<1>1. /\ DOMAIN Append(w, frame) = DOMAIN w \cup {Len(w) + 1}
      /\ Append(w, frame)[Len(w) + 1] = frame
      /\ \A k \in DOMAIN w : Append(w, frame)[k] = w[k]
  OBVIOUS
<1> QED
  BY <1>1 DEF OnceOnly

LEMMA HelperGrew ==
    ASSUME NEW e, EmitterInv(e), NEW type \in BlockTypes, NEW id \in Nat, NEW delta \in Delta,
           NEW r, EmitterInv(r), SentAs(type, id, delta, r, e),
           ~e.err /\ type \in Single => Unsent(e, type, id)
    PROVE  Grew(r, e, {BlockFrame(type, id, delta)})
<1> DEFINE frame == BlockFrame(type, id, delta)
           s     == Emit(e, frame)
<1>1. /\ frame \in Frames /\ frame.type = type /\ frame.msg = id
      /\ e \in EmitterType /\ e.wire \in Seq(Frames)
  BY FramesAreFrames DEF Neutral, BlockFrame, EmitterInv, EmitterType
<1>2. r.wire = s.wire /\ r.err = s.err
  BY DEF SentAs
<1>3. s.wire = e.wire \/ (s.wire = Append(e.wire, frame) /\ ~e.err)
  <2>1. e.err => s = e
    BY DEF Emit
  <2> HIDE DEF frame
  <2>2. s.wire = e.wire \/ s.wire = Append(e.wire, frame)
    BY <1>1, EmitFact
  <2> QED
    BY <2>1, <2>2
<1>4. Sent(s) \subseteq Sent(e) \cup {frame}
  BY <1>1, EmitSent
<1>5. e.err => s = e
  BY DEF Emit
<1> HIDE DEF s, frame
<1>6. OnceOnly(e.wire) => OnceOnly(r.wire)
  <2>1. ~e.err /\ frame.type \in Single =>
            \A k \in DOMAIN e.wire : ~(e.wire[k].type = frame.type /\ e.wire[k].msg = frame.msg)
    BY <1>1 DEF Unsent, Sent
  <2> QED
    BY <1>1, <1>2, <1>3, <2>1, OnceAppend
<1> QED
  BY <1>2, <1>4, <1>5, <1>6 DEF Grew, Sent, frame

LEMMA GrewNot == ASSUME NEW e, NEW F, EmitterInv(e) PROVE Grew(e, e, F)
  BY DEF Grew

TextFresh(e) == ~e.err => /\ Shown(e.openTextID, text)
                          /\ text.open => Unsent(e, "TEXT_END", text.id)

ReasoningFresh(e) ==
    ~e.err => /\ Shown(e.openReasoningID, reasoning) /\ Shown(e.openReasoningMessageID, reasoning)
              /\ reasoning.open => /\ Unsent(e, "REASONING_MESSAGE_END", reasoning.id)
                                   /\ Unsent(e, "REASONING_END", reasoning.id)

IDsGenerated ==
    /\ \A f \in Sent(em) : f.type \in BlockTypes => f.msg < nextID
    /\ text.open => text.id < nextID
    /\ reasoning.open => reasoning.id < nextID

FreshInv == OnceOnly(em.wire) /\ IDsGenerated /\ TextFresh(em) /\ ReasoningFresh(em)

(* Each block is ended once. *)
LEMMA EndTextGrew ==
    ASSUME NEW e, EmitterInv(e), text \in Block, TextFresh(e)
    PROVE  /\ Grew(EndText(e), e, TextEndFrames)
           /\ ~EndText(e).err => /\ EndText(e).openTextID = NoMessage
                                 /\ EndText(e).openReasoningID = e.openReasoningID
                                 /\ EndText(e).openReasoningMessageID = e.openReasoningMessageID
<1>1. CASE ~text.open
  BY <1>1, GrewNot DEF EndText, TextFresh, Shown
<1>2. CASE text.open
  <2> DEFINE d == TextEnd(e, text.id)
  <2>1. text.id \in Nat /\ NoDelta \in Delta /\ "TEXT_END" \in BlockTypes
    BY NoDeltaType DEF Block, BlockTypes
  <2>2. EmitterInv(d) /\ SentAs("TEXT_END", text.id, NoDelta, d, e)
    BY <2>1, ANonEmptyDelta, BlockHelpers, HelpersSend
  <2>3. EndText(e) = d
    BY <1>2 DEF EndText
  <2> HIDE DEF d
  <2>4. Grew(d, e, {BlockFrame("TEXT_END", text.id, NoDelta)})
    BY <1>2, <2>1, <2>2, HelperGrew DEF TextFresh
  <2>5. Moved("TEXT_END", text.id, d, e)
    BY <2>2 DEF SentAs, Opening
  <2>6. e.err => d.err
    BY <2>4 DEF Grew
  <2> QED
    BY <1>2, <2>3, <2>4, <2>5, <2>6 DEF TextEndFrames, Moved, TextFresh, Shown
<1> QED
  BY <1>1, <1>2

LEMMA EndReasoningGrew ==
    ASSUME NEW e, EmitterInv(e), reasoning \in Block, ReasoningFresh(e)
    PROVE  /\ Grew(EndReasoning(e), e, ReasoningEndFrames)
           /\ ~EndReasoning(e).err => /\ EndReasoning(e).openTextID = e.openTextID
                                      /\ EndReasoning(e).openReasoningID = NoMessage
                                      /\ EndReasoning(e).openReasoningMessageID = NoMessage
<1>1. CASE ~reasoning.open
  BY <1>1, GrewNot DEF EndReasoning, ReasoningFresh, Shown
<1>2. CASE reasoning.open
  <2> DEFINE id == reasoning.id
             m  == ReasoningMessageEnd(e, id)
             d  == ReasoningEnd(m, id)
             F  == {BlockFrame("REASONING_MESSAGE_END", id, NoDelta)}
             G  == {BlockFrame("REASONING_END", id, NoDelta)}
  <2>1. /\ id \in Nat /\ NoDelta \in Delta
        /\ "REASONING_MESSAGE_END" \in BlockTypes /\ "REASONING_END" \in BlockTypes
    BY NoDeltaType DEF Block, BlockTypes
  <2>2. EmitterInv(m) /\ SentAs("REASONING_MESSAGE_END", id, NoDelta, m, e)
    BY <2>1, ANonEmptyDelta, BlockHelpers, HelpersSend
  <2>3. EndReasoning(e) = d
    BY <1>2 DEF EndReasoning
  <2> HIDE DEF m
  <2>4. EmitterInv(d) /\ SentAs("REASONING_END", id, NoDelta, d, m)
    BY <2>1, <2>2, ANonEmptyDelta, BlockHelpers, HelpersSend
  <2> HIDE DEF d
  <2>5. Grew(m, e, F)
    BY <1>2, <2>1, <2>2, HelperGrew DEF ReasoningFresh
  <2>6. ~m.err => Unsent(m, "REASONING_END", id)
    BY <1>2, <2>5 DEF Grew, ReasoningFresh, Unsent, BlockFrame
  <2>7. Grew(d, m, G)
    BY <2>1, <2>2, <2>4, <2>6, HelperGrew
  <2>8. Grew(d, e, ReasoningEndFrames)
    <3>1. F \cup G = ReasoningEndFrames
      BY <1>2 DEF ReasoningEndFrames
    <3>2. G \cup F = F \cup G
      OBVIOUS
    <3> HIDE DEF F, G
    <3> QED
      BY <2>5, <2>7, <3>1, <3>2, GrewOn
  <2>9. Moved("REASONING_MESSAGE_END", id, m, e) /\ Moved("REASONING_END", id, d, m)
    BY <2>2, <2>4 DEF SentAs, Opening
  <2>10. ~d.err => ~e.err
    BY <2>5, <2>7 DEF Grew
  <2> QED
    BY <1>2, <2>3, <2>8, <2>9, <2>10 DEF Moved, ReasoningFresh, Shown
<1> QED
  BY <1>1, <1>2

(* applyReasoning: a block that is open goes on, a new one takes a new id.  *)
LEMMA ReasoningFresher ==
    ASSUME TurnInv, FreshInv, ApplyReasoning
    PROVE  FreshInv'
<1> DEFINE closed == EndText(em)
           id     == ReasoningID
           begun  == ReasoningStart(closed, id)
           opened == IF reasoning.open THEN closed ELSE ReasoningMessageStart(begun, id)
           sent   == ReasoningContent(opened, id, piece(0))
           S      == BlockFrame("REASONING_START", id, NoDelta)
           M      == BlockFrame("REASONING_MESSAGE_START", id, NoDelta)
           C      == BlockFrame("REASONING_CONTENT", id, piece(0))
<1>1. /\ text \in Block /\ reasoning \in Block /\ id \in Nat /\ piece(0) \in Delta
      /\ piece(0) # NoDelta /\ EmitterInv(em) /\ nextID \in Nat \ {0} /\ NoDelta \in Delta
  BY ChunkFacts, NoDeltaAssumption, NoDeltaType
     DEF ApplyReasoning, TurnInv, BlocksInv, EmitterOK, Block, InChunk, ReasoningID
<1>2. /\ Grew(closed, em, TextEndFrames)
      /\ ~closed.err => /\ closed.openTextID = NoMessage
                        /\ closed.openReasoningID = em.openReasoningID
                        /\ closed.openReasoningMessageID = em.openReasoningMessageID
  BY <1>1, EndTextGrew DEF FreshInv
<1>3. em' = sent /\ text' = Closed
  BY DEF ApplyReasoning, ReasoningID, Forget
<1>4. /\ closed.err => reasoning' = reasoning /\ nextID' = nextID
      /\ ~closed.err => /\ reasoning'.id = id
                        /\ nextID' = IF reasoning.open THEN nextID ELSE nextID + 1
  BY DEF ApplyReasoning, ReasoningID, Grown
<1>5. /\ "REASONING_START" \in BlockTypes /\ "REASONING_MESSAGE_START" \in BlockTypes
      /\ "REASONING_CONTENT" \in BlockTypes \ Single
  BY DEF BlockTypes, Single
<1> HIDE DEF closed
<1>6. EmitterInv(closed) /\ (em.err => closed.err)
  BY <1>2 DEF Grew
<1>7. EmitterInv(begun) /\ SentAs("REASONING_START", id, NoDelta, begun, closed)
  BY <1>1, <1>6, HelpersSend, BlockHelpers
<1> HIDE DEF begun
<1>8. ~closed.err /\ ~reasoning.open =>
          Unsent(closed, "REASONING_START", id) /\ Unsent(closed, "REASONING_MESSAGE_START", id)
  BY <1>1, <1>2, <1>5
     DEF Grew, TextEndFrames, BlockFrame, FreshInv, IDsGenerated, Unsent, ReasoningID
<1>9. ~reasoning.open => Grew(begun, closed, {S})
  BY <1>1, <1>5, <1>6, <1>7, <1>8, HelperGrew
<1>10. ~reasoning.open /\ ~begun.err => Unsent(begun, "REASONING_MESSAGE_START", id)
  BY <1>8, <1>9 DEF Grew, Unsent, BlockFrame
<1>11. EmitterInv(ReasoningMessageStart(begun, id))
       /\ SentAs("REASONING_MESSAGE_START", id, NoDelta, ReasoningMessageStart(begun, id), begun)
  BY <1>1, <1>7, HelpersSend, BlockHelpers
<1>12. ~reasoning.open => Grew(opened, begun, {M})
  BY <1>1, <1>5, <1>7, <1>10, <1>11, HelperGrew
<1>13. Grew(opened, closed, {S, M})
  <2>1. CASE reasoning.open
    BY <1>6, <2>1, GrewNot
  <2>2. CASE ~reasoning.open
    <3>1. {S, M} = {M} \cup {S}
      OBVIOUS
    <3> HIDE DEF S, M, opened
    <3> QED
      BY <1>9, <1>12, <2>2, <3>1, GrewOn
  <2> QED
    BY <2>1, <2>2
<1>14. ~opened.err =>
         /\ ~closed.err
         /\ opened.openTextID = NoMessage
         /\ opened.openReasoningID \in {em.openReasoningID, id}
         /\ opened.openReasoningMessageID \in {em.openReasoningMessageID, id}
         /\ reasoning.open => /\ opened.openReasoningID = em.openReasoningID
                              /\ opened.openReasoningMessageID = em.openReasoningMessageID
  <2>1. CASE reasoning.open
    BY <1>2, <2>1
  <2>2. CASE ~reasoning.open
    <3>1. SameOpen(begun, closed) \/ Moved("REASONING_START", id, begun, closed)
      BY <1>7 DEF SentAs
    <3>2. SameOpen(opened, begun) \/ Moved("REASONING_MESSAGE_START", id, opened, begun)
      BY <1>11, <2>2 DEF SentAs
    <3>3. ~opened.err => ~closed.err
      BY <1>13 DEF Grew
    <3> HIDE DEF opened
    <3> QED
      BY <1>2, <2>2, <3>1, <3>2, <3>3 DEF SameOpen, Moved
  <2> QED
    BY <2>1, <2>2
<1>15. EmitterInv(opened)
  BY <1>13 DEF Grew
<1> HIDE DEF opened
<1>16. EmitterInv(sent) /\ SentAs("REASONING_CONTENT", id, piece(0), sent, opened)
  BY <1>1, <1>15, HelpersSend, BlockHelpers
<1> HIDE DEF sent, S, M
<1>17. Grew(sent, opened, {C})
  BY <1>1, <1>5, <1>15, <1>16, HelperGrew
<1>18. Moved("REASONING_CONTENT", id, sent, opened)
  BY <1>16 DEF SentAs, Opening
<1> HIDE DEF C
<1>19. Grew(sent, closed, {C} \cup {S, M})
  BY <1>13, <1>17, GrewOn
<1>20. Grew(sent, em, ({C} \cup {S, M}) \cup TextEndFrames)
  BY <1>2, <1>19, GrewOn
<1>21. OnceOnly(sent.wire)
  BY <1>20 DEF Grew, FreshInv
<1>22. IDsGenerated'
  <2>1. (nextID' = nextID \/ nextID' = nextID + 1) /\ (~closed.err => id < nextID')
    BY <1>1, <1>4 DEF FreshInv, IDsGenerated, ReasoningID
  <2>2. \A f \in Sent(sent) : f \in Sent(em) \cup TextEndFrames \/ (~closed.err /\ f \in {C, S, M})
    BY <1>2, <1>19 DEF Grew
  <2>3. \A f \in Sent(em) \cup TextEndFrames : f.type \in BlockTypes => f.msg < nextID'
    <3>1. \A f \in TextEndFrames : f.msg < nextID
      BY DEF TextEndFrames, BlockFrame, FreshInv, IDsGenerated
    <3>2. \A f \in Sent(em) : f.msg \in Nat
      <4>1. em.wire \in Seq(Frames)
        BY <1>1 DEF EmitterInv, EmitterType
      <4>2. \A f \in Frames : f.msg \in Nat
        BY DEF Frames
      <4> QED
        BY <4>1, <4>2 DEF Sent
    <3>3. \A f \in TextEndFrames : f.msg \in Nat
      BY <1>1 DEF TextEndFrames, BlockFrame, Block
    <3> QED
      BY <1>1, <2>1, <3>1, <3>2, <3>3 DEF FreshInv, IDsGenerated
  <2>4. S.msg = id /\ M.msg = id /\ C.msg = id
    BY DEF S, M, C, BlockFrame
  <2>5. \A f \in Sent(sent) : f.type \in BlockTypes => f.msg < nextID'
    BY <2>1, <2>2, <2>3, <2>4
  <2>6. reasoning'.open => reasoning'.id < nextID'
    BY <1>4, <2>1 DEF FreshInv, IDsGenerated
  <2> QED
    BY <1>3, <2>5, <2>6 DEF IDsGenerated, Closed, Sent
<1>23. TextFresh(em)'
  <2>1. ~sent.err => ~opened.err
    BY <1>17 DEF Grew
  <2> QED
    BY <1>3, <1>14, <1>18, <2>1 DEF TextFresh, Moved, Shown, Closed
<1>24. ReasoningFresh(em)'
  <2> SUFFICES ASSUME ~sent.err
               PROVE  /\ Shown(sent.openReasoningID, reasoning')
                      /\ Shown(sent.openReasoningMessageID, reasoning')
                      /\ Unsent(sent, "REASONING_MESSAGE_END", reasoning'.id)
                      /\ Unsent(sent, "REASONING_END", reasoning'.id)
    BY <1>3 DEF ReasoningFresh, Unsent, Shown, Sent
  <2>1. ~opened.err /\ ~closed.err /\ ~em.err
    BY <1>2, <1>14, <1>17 DEF Grew
  <2>2. reasoning'.id = id /\ reasoning'.open
    <3>1. ControlInv /\ InChunk /\ opened.err \in BOOLEAN
      BY <1>15 DEF ApplyReasoning, TurnInv, InChunk, EmitterInv, EmitterType
    <3>2. reasoning' = Grown(reasoning, id, opened, sent)
      BY <2>1 DEF ApplyReasoning, ReasoningID, sent, opened, begun, closed
    <3>3. Grown(reasoning, id, opened, sent).open
      BY <1>1, <2>1, <3>1, GrownType DEF id
    <3> QED
      BY <1>4, <2>1, <3>2, <3>3
  <2>3. Unsent(em, "REASONING_MESSAGE_END", id) /\ Unsent(em, "REASONING_END", id)
    <3>1. CASE reasoning.open
      BY <2>1, <3>1 DEF FreshInv, ReasoningFresh, ReasoningID
    <3>2. CASE ~reasoning.open
      <4>1. id = nextID /\ nextID \in Nat /\ "REASONING_END" \in BlockTypes
            /\ "REASONING_MESSAGE_END" \in BlockTypes
        BY <1>1, <3>2 DEF ReasoningID, BlockTypes
      <4> QED
        BY <4>1 DEF FreshInv, IDsGenerated, Unsent
    <3> QED
      BY <3>1, <3>2
  <2>4. \A f \in ({C} \cup {S, M}) \cup TextEndFrames : f.type \notin {"REASONING_MESSAGE_END", "REASONING_END"}
    BY DEF C, S, M, TextEndFrames, BlockFrame
  <2>5. Unsent(sent, "REASONING_MESSAGE_END", id) /\ Unsent(sent, "REASONING_END", id)
    BY <1>20, <2>3, <2>4 DEF Grew, Unsent
  <2>6. /\ sent.openReasoningID \in {NoMessage, id}
        /\ sent.openReasoningMessageID \in {NoMessage, id}
    BY <1>14, <1>18, <2>1 DEF Moved, FreshInv, ReasoningFresh, Shown, ReasoningID
  <2> QED
    BY <2>2, <2>5, <2>6 DEF Shown
<1> QED
  BY <1>3, <1>21, <1>22, <1>23, <1>24 DEF FreshInv

LEMMA TextFresher ==
    ASSUME TurnInv, FreshInv, ApplyText
    PROVE  FreshInv'
<1> DEFINE closed == EndReasoning(em)
           id     == TextID
           opened == IF text.open THEN closed ELSE TextStart(closed, id)
           sent   == TextContent(opened, id, piece(0))
           S      == BlockFrame("TEXT_START", id, NoDelta)
           C      == BlockFrame("TEXT_CONTENT", id, piece(0))
<1>1. /\ text \in Block /\ reasoning \in Block /\ id \in Nat /\ piece(0) \in Delta
      /\ piece(0) # NoDelta /\ EmitterInv(em) /\ nextID \in Nat \ {0} /\ NoDelta \in Delta
  BY ChunkFacts, NoDeltaAssumption, NoDeltaType
     DEF ApplyText, TurnInv, BlocksInv, EmitterOK, Block, InChunk, TextID
<1>2. /\ Grew(closed, em, ReasoningEndFrames)
      /\ ~closed.err => /\ closed.openTextID = em.openTextID
                        /\ closed.openReasoningID = NoMessage
                        /\ closed.openReasoningMessageID = NoMessage
  BY <1>1, EndReasoningGrew DEF FreshInv
<1>3. em' = sent /\ reasoning' = Closed
  BY DEF ApplyText, TextID, Forget
<1>4. /\ closed.err => text' = text /\ nextID' = nextID
      /\ ~closed.err => /\ text'.id = id
                        /\ nextID' = IF text.open THEN nextID ELSE nextID + 1
  BY DEF ApplyText, TextID, Grown
<1>5. "TEXT_START" \in BlockTypes /\ "TEXT_CONTENT" \in BlockTypes \ Single
  BY DEF BlockTypes, Single
<1> HIDE DEF closed
<1>6. EmitterInv(closed) /\ (em.err => closed.err)
  BY <1>2 DEF Grew
<1>7. EmitterInv(TextStart(closed, id)) /\ SentAs("TEXT_START", id, NoDelta, TextStart(closed, id), closed)
  BY <1>1, <1>6, HelpersSend, BlockHelpers
<1>8. ~closed.err /\ ~text.open => Unsent(closed, "TEXT_START", id)
  BY <1>1, <1>2, <1>5
     DEF Grew, ReasoningEndFrames, BlockFrame, FreshInv, IDsGenerated, Unsent, TextID
<1>9. Grew(opened, closed, {S})
  <2>1. CASE text.open
    BY <1>6, <2>1, GrewNot
  <2>2. CASE ~text.open
    BY <1>1, <1>5, <1>6, <1>7, <1>8, <2>2, HelperGrew
  <2> QED
    BY <2>1, <2>2
<1>10. ~opened.err =>
         /\ ~closed.err
         /\ opened.openReasoningID = NoMessage /\ opened.openReasoningMessageID = NoMessage
         /\ opened.openTextID \in {em.openTextID, id}
         /\ text.open => opened.openTextID = em.openTextID
  <2>1. CASE text.open
    BY <1>2, <2>1
  <2>2. CASE ~text.open
    <3>1. SameOpen(opened, closed) \/ Moved("TEXT_START", id, opened, closed)
      BY <1>7, <2>2 DEF SentAs
    <3>2. ~opened.err => ~closed.err
      BY <1>9 DEF Grew
    <3> HIDE DEF opened
    <3> QED
      BY <1>2, <2>2, <3>1, <3>2 DEF SameOpen, Moved
  <2> QED
    BY <2>1, <2>2
<1>11. EmitterInv(opened)
  BY <1>9 DEF Grew
<1> HIDE DEF opened
<1>12. EmitterInv(sent) /\ SentAs("TEXT_CONTENT", id, piece(0), sent, opened)
  BY <1>1, <1>11, HelpersSend, BlockHelpers
<1> HIDE DEF sent, S
<1>13. Grew(sent, opened, {C})
  BY <1>1, <1>5, <1>11, <1>12, HelperGrew
<1>14. Moved("TEXT_CONTENT", id, sent, opened)
  BY <1>12 DEF SentAs, Opening
<1> HIDE DEF C
<1>15. Grew(sent, closed, {C} \cup {S})
  BY <1>9, <1>13, GrewOn
<1>16. Grew(sent, em, ({C} \cup {S}) \cup ReasoningEndFrames)
  BY <1>2, <1>15, GrewOn
<1>17. OnceOnly(sent.wire)
  BY <1>16 DEF Grew, FreshInv
<1>18. IDsGenerated'
  <2>1. (nextID' = nextID \/ nextID' = nextID + 1) /\ (~closed.err => id < nextID')
    BY <1>1, <1>4 DEF FreshInv, IDsGenerated, TextID
  <2>2. \A f \in Sent(sent) : f \in Sent(em) \cup ReasoningEndFrames \/ (~closed.err /\ f \in {C, S})
    BY <1>2, <1>15 DEF Grew
  <2>3. \A f \in Sent(em) \cup ReasoningEndFrames : f.type \in BlockTypes => f.msg < nextID'
    <3>1. \A f \in ReasoningEndFrames : f.msg < nextID
      BY DEF ReasoningEndFrames, BlockFrame, FreshInv, IDsGenerated
    <3>2. \A f \in Sent(em) : f.msg \in Nat
      <4>1. em.wire \in Seq(Frames)
        BY <1>1 DEF EmitterInv, EmitterType
      <4>2. \A f \in Frames : f.msg \in Nat
        BY DEF Frames
      <4> QED
        BY <4>1, <4>2 DEF Sent
    <3>3. \A f \in ReasoningEndFrames : f.msg \in Nat
      BY <1>1 DEF ReasoningEndFrames, BlockFrame, Block
    <3> QED
      BY <1>1, <2>1, <3>1, <3>2, <3>3 DEF FreshInv, IDsGenerated
  <2>4. S.msg = id /\ C.msg = id
    BY DEF S, C, BlockFrame
  <2>5. \A f \in Sent(sent) : f.type \in BlockTypes => f.msg < nextID'
    BY <2>1, <2>2, <2>3, <2>4
  <2>6. text'.open => text'.id < nextID'
    BY <1>4, <2>1 DEF FreshInv, IDsGenerated
  <2> QED
    BY <1>3, <2>5, <2>6 DEF IDsGenerated, Closed, Sent
<1>19. ReasoningFresh(em)'
  <2>1. ~sent.err => ~opened.err
    BY <1>13 DEF Grew
  <2> QED
    BY <1>3, <1>10, <1>14, <2>1 DEF ReasoningFresh, Moved, Shown, Closed
<1>20. TextFresh(em)'
  <2> SUFFICES ASSUME ~sent.err
               PROVE  Shown(sent.openTextID, text') /\ Unsent(sent, "TEXT_END", text'.id)
    BY <1>3 DEF TextFresh, Unsent, Shown, Sent
  <2>1. ~opened.err /\ ~closed.err /\ ~em.err
    BY <1>2, <1>10, <1>13 DEF Grew
  <2>2. text'.id = id /\ text'.open
    <3>1. ControlInv /\ InChunk /\ opened.err \in BOOLEAN
      BY <1>11 DEF ApplyText, TurnInv, InChunk, EmitterInv, EmitterType
    <3>2. text' = Grown(text, id, opened, sent)
      BY <2>1 DEF ApplyText, TextID, sent, opened, closed
    <3>3. Grown(text, id, opened, sent).open
      BY <1>1, <2>1, <3>1, GrownType DEF id
    <3> QED
      BY <1>4, <2>1, <3>2, <3>3
  <2>3. Unsent(em, "TEXT_END", id)
    <3>1. CASE text.open
      BY <2>1, <3>1 DEF FreshInv, TextFresh, TextID
    <3>2. CASE ~text.open
      <4>1. id = nextID /\ nextID \in Nat /\ "TEXT_END" \in BlockTypes
        BY <1>1, <3>2 DEF TextID, BlockTypes
      <4> QED
        BY <4>1 DEF FreshInv, IDsGenerated, Unsent
    <3> QED
      BY <3>1, <3>2
  <2>4. \A f \in ({C} \cup {S}) \cup ReasoningEndFrames : f.type # "TEXT_END"
    BY DEF C, S, ReasoningEndFrames, BlockFrame
  <2>5. Unsent(sent, "TEXT_END", id)
    BY <1>16, <2>3, <2>4 DEF Grew, Unsent
  <2>6. sent.openTextID \in {NoMessage, id}
    BY <1>10, <1>14, <2>1 DEF Moved, FreshInv, TextFresh, Shown, TextID
  <2> QED
    BY <2>2, <2>5, <2>6 DEF Shown
<1> QED
  BY <1>3, <1>17, <1>18, <1>19, <1>20 DEF FreshInv

LEMMA BlocksFresher ==
    ASSUME TurnInv, FreshInv, EnsureToolOwner \/ CloseBlocks
    PROVE  FreshInv'
<1> DEFINE quiet  == EndReasoning(em)
           closed == EndText(quiet)
<1>1. text \in Block /\ reasoning \in Block /\ EmitterInv(em) /\ nextID \in Nat
  BY DEF TurnInv, BlocksInv, EmitterOK
<1>2. /\ Grew(quiet, em, ReasoningEndFrames)
      /\ ~quiet.err => /\ quiet.openTextID = em.openTextID
                       /\ quiet.openReasoningID = NoMessage
                       /\ quiet.openReasoningMessageID = NoMessage
  BY <1>1, EndReasoningGrew DEF FreshInv
<1>3. /\ em' \in {quiet, closed}
      /\ em' = quiet => em' = closed \/ quiet.err
      /\ reasoning' = Closed
      /\ text' = Closed \/ (text' = text /\ em' = quiet /\ quiet.err)
      /\ nextID' \in {nextID, nextID + 1}
  BY DEF EnsureToolOwner, CloseBlocks, Forget
<1> HIDE DEF quiet
<1>4. EmitterInv(quiet) /\ TextFresh(quiet)
  <2>1. \A f \in ReasoningEndFrames : f.type # "TEXT_END"
    BY DEF ReasoningEndFrames, BlockFrame
  <2> QED
    BY <1>2, <2>1 DEF Grew, FreshInv, TextFresh, Unsent
<1>5. /\ Grew(closed, quiet, TextEndFrames)
      /\ ~closed.err => /\ closed.openTextID = NoMessage
                        /\ closed.openReasoningID = quiet.openReasoningID
                        /\ closed.openReasoningMessageID = quiet.openReasoningMessageID
  BY <1>1, <1>4, EndTextGrew
<1> HIDE DEF closed
<1>6. /\ OnceOnly(quiet.wire) /\ OnceOnly(closed.wire)
      /\ Sent(em') \subseteq Sent(em) \cup ReasoningEndFrames \cup TextEndFrames
  BY <1>2, <1>3, <1>5 DEF Grew, FreshInv
<1>7. IDsGenerated'
  <2>1. \A f \in ReasoningEndFrames \cup TextEndFrames : f.msg \in Nat /\ f.msg < nextID
    BY <1>1 DEF ReasoningEndFrames, TextEndFrames, BlockFrame, FreshInv, IDsGenerated, Block
  <2>2. \A f \in Sent(em) : f.msg \in Nat
    <3>1. em.wire \in Seq(Frames)
      BY <1>1 DEF EmitterInv, EmitterType
    <3>2. \A f \in Frames : f.msg \in Nat
      BY DEF Frames
    <3> QED
      BY <3>1, <3>2 DEF Sent
  <2>3. \A f \in Sent(em') : f.type \in BlockTypes => f.msg < nextID'
    BY <1>1, <1>3, <1>6, <2>1, <2>2 DEF FreshInv, IDsGenerated
  <2>4. text'.open => text'.id < nextID'
    BY <1>1, <1>3 DEF Closed, FreshInv, IDsGenerated, Block
  <2> QED
    BY <1>3, <2>3, <2>4 DEF IDsGenerated, Closed, Sent
<1>8. TextFresh(em)' /\ ReasoningFresh(em)'
  <2>1. ~em'.err => em' = closed /\ ~closed.err /\ ~quiet.err
    BY <1>3, <1>5 DEF Grew
  <2>2. ~em'.err => text' = Closed
    BY <1>3
  <2> QED
    BY <1>2, <1>3, <1>5, <2>1, <2>2 DEF TextFresh, ReasoningFresh, Shown, Closed
<1> QED
  BY <1>3, <1>6, <1>7, <1>8 DEF FreshInv

(* A tool helper that finds no block to close sends a tool frame only. *)
ToolsOnly(r, e) ==
    /\ OnceOnly(e.wire) => OnceOnly(r.wire)
    /\ \A f \in Sent(r) : f \in Sent(e) \/ f.type \notin BlockTypes
    /\ ~r.err => ~e.err /\ SameOpen(r, e)

LEMMA ToolsSendOnly ==
    ASSUME NEW e, EmitterInv(e), e.err \/ Forgot(e),
           NEW id \in ToolID, NEW name \in Name, NEW parent \in Nat, NEW delta \in Delta,
           NEW r \in {e, ToolStart(e, id, name, parent), ToolArgs(e, id, delta), ToolEnd(e, id)}
    PROVE  ToolsOnly(r, e)
<1> DEFINE closed == CloseOpenBlocks(e)
<1>1. EmitterInv(closed) /\ (e.err => closed.err)
  BY CloseKeepsInv, LaterClosed DEF Later
<1>2. closed.wire = e.wire /\ (~e.err => closed = e)
  <2>1. CASE e.err
    <3>1. ASSUME NEW f, EmitterInv(f), f.err
          PROVE  /\ CloseOpenText(f).wire = f.wire /\ CloseOpenText(f).err
                 /\ CloseOpenReasoningMessage(f).wire = f.wire /\ CloseOpenReasoningMessage(f).err
                 /\ CloseOpenReasoning(f).wire = f.wire
      BY <3>1 DEF CloseOpenText, CloseOpenReasoningMessage, CloseOpenReasoning, Emit,
                  EmitterInv, EmitterType
    <3> QED
      BY <2>1, <3>1, CloseOneKind DEF CloseOpenBlocks
  <2>2. CASE ~e.err
    BY <2>2 DEF Forgot, CloseOpenBlocks, CloseOpenText, CloseOpenReasoningMessage, CloseOpenReasoning
  <2> QED
    BY <2>1, <2>2
<1> HIDE DEF closed
<1>3. ASSUME NEW f \in Frames, f.type \in CallTypes, NEW s, s.wire = Emit(closed, f).wire,
             ~s.err => ~e.err, SameOpen(s, Emit(closed, f))
      PROVE  ToolsOnly(s, e)
  <2>1. /\ e.wire \in Seq(Frames) /\ closed \in EmitterType
        /\ f.type \notin Single /\ f.type \notin BlockTypes
    BY <1>1, <1>2, <1>3 DEF EmitterInv, EmitterType, CallTypes, Single, BlockTypes
  <2>2. s.wire = e.wire \/ s.wire = Append(e.wire, f)
    <3>1. Emit(closed, f).wire \in {closed.wire, Append(closed.wire, f)}
      BY <1>3, <2>1, EmitFact
    <3> QED
      BY <1>2, <1>3, <3>1
  <2>3. OnceOnly(e.wire) => OnceOnly(s.wire)
    <3>1. OnceOnly(e.wire) => OnceOnly(Append(e.wire, f))
      BY <2>1, OnceAppend
    <3> QED
      BY <2>2, <3>1
  <2>4. Sent(s) \subseteq Sent(e) \cup {f}
    BY <1>2, <1>3, <2>1, EmitSent DEF Sent
  <2>5. ~s.err => SameOpen(s, e)
    BY <1>2, <1>3, <2>1, EmitFact DEF SameOpen
  <2> QED
    BY <1>3, <2>1, <2>3, <2>4, <2>5 DEF ToolsOnly
<1>4. ToolsOnly(e, e) /\ ToolsOnly(closed, e)
  BY <1>1, <1>2 DEF ToolsOnly, SameOpen, Sent
<1>5. /\ ToolStartFrame(id, name, parent) \in Frames
      /\ CallFrame("TOOL_CALL_ARGS", id, delta) \in Frames
      /\ CallFrame("TOOL_CALL_END", id, NoDelta) \in Frames
      /\ ToolStartFrame(id, name, parent).type \in CallTypes
      /\ CallFrame("TOOL_CALL_ARGS", id, delta).type \in CallTypes
      /\ CallFrame("TOOL_CALL_END", id, NoDelta).type \in CallTypes
  BY ToolFramesAreFrames DEF ToolStartFrame, CallFrame, CallTypes
<1>6. ~r.err => ~e.err
  BY LaterTools DEF Later
<1>7. \/ r \in {e, closed}
      \/ \E f \in Frames : /\ f.type \in CallTypes
                           /\ r.wire = Emit(closed, f).wire /\ SameOpen(r, Emit(closed, f))
  <2>1. ASSUME NEW f \in Frames
        PROVE  Emit(closed, f) \in EmitterType
    BY <1>1, EmitFact DEF EmitterInv
  <2>2. ASSUME r = ToolStart(e, id, name, parent), r \notin {e, closed}
        PROVE  LET f == ToolStartFrame(id, name, parent)
               IN  r.wire = Emit(closed, f).wire /\ SameOpen(r, Emit(closed, f))
    BY <1>5, <2>1, <2>2 DEF ToolStart, SameOpen, EmitterType, closed
  <2>3. ASSUME r = ToolArgs(e, id, delta), r \notin {e, closed}
        PROVE  r = Emit(closed, CallFrame("TOOL_CALL_ARGS", id, delta))
    BY <2>3 DEF ToolArgs, closed
  <2>4. ASSUME r = ToolEnd(e, id), r \notin {e, closed}
        PROVE  LET f == CallFrame("TOOL_CALL_END", id, NoDelta)
               IN  r.wire = Emit(closed, f).wire /\ SameOpen(r, Emit(closed, f))
    BY <1>5, <2>1, <2>4 DEF ToolEnd, SameOpen, EmitterType, closed
  <2> QED
    BY <1>5, <2>2, <2>3, <2>4 DEF SameOpen
<1> QED
  BY <1>3, <1>4, <1>6, <1>7

LEMMA ToolsFresher ==
    ASSUME TurnInv, TurnWireInv, Uninterrupted, FreshInv, EndCall \/ FlushArg \/ AcceptFragment
    PROVE  FreshInv'
<1>1. ToolCalled /\ UNCHANGED <<text, reasoning, nextID>>
  BY ToolHelperCalled DEF EndCall, FlushArg, AcceptFragment, blocks
<1>2. CASE em' = em
  BY <1>1, <1>2 DEF FreshInv, IDsGenerated, TextFresh, ReasoningFresh, Sent, Unsent, Shown
<1>3. CASE ~BlockOpen
  <2>1. EmitterInv(em) /\ (em.err \/ Forgot(em))
    BY <1>3 DEF TurnInv, EmitterOK, FreshInv, TextFresh, ReasoningFresh, Shown, Forgot, BlockOpen
  <2>2. ToolsOnly(em', em)
    BY <1>1, <2>1, ToolsSendOnly, NoDeltaType DEF ToolCalled
  <2> QED
    BY <1>1, <1>3, <2>2 DEF ToolsOnly, FreshInv, IDsGenerated, TextFresh, ReasoningFresh, Sent,
                             SameOpen, Shown, BlockOpen
<1> QED
  BY <1>2, <1>3, NoBlockAtTools

LEMMA FreshInit == Init => FreshInv
<1> SUFFICES ASSUME Init PROVE FreshInv
  OBVIOUS
<1>1. /\ em.wire = <<>> /\ ~text.open /\ ~reasoning.open
      /\ em.openTextID = NoMessage /\ em.openReasoningID = NoMessage
      /\ em.openReasoningMessageID = NoMessage
  BY DEF Init, NewEmitter, Closed
<1> QED
  BY <1>1 DEF FreshInv, OnceOnly, IDsGenerated, Sent, TextFresh, ReasoningFresh, Shown

LEMMA FreshNext ==
    ASSUME TurnInv, TurnWireInv, Uninterrupted, FreshInv, [Next]_vars
    PROVE  FreshInv'
<1>1. CASE UNCHANGED vars \/ Returned \/ Quiet \/ RefuseFragment \/ OpenFails \/ ConcludeEmpty \/ Conclude
  <2>1. UNCHANGED <<em, text, reasoning, nextID>>
    BY <1>1 DEF vars, Returned, Quiet, Cancel, OpenStream, CheckRequest, Recv, RecvEOF, RecvError,
                RecvChunk, RecvKeepAlive, CallsEnded, SkipFragment, FragmentDone, ChunkDone,
                RefuseFragment, OpenFails, ConcludeEmpty, Conclude, blocks
  <2> QED
    BY <2>1 DEF FreshInv, IDsGenerated, TextFresh, ReasoningFresh, Sent, Unsent, Shown
<1>2. CASE EndCall \/ FlushArg \/ AcceptFragment
  BY <1>2, ToolsFresher
<1>3. CASE ApplyReasoning \/ ApplyText
  BY <1>3, ReasoningFresher, TextFresher
<1>4. CASE EnsureToolOwner \/ CloseBlocks
  BY <1>4, BlocksFresher
<1> QED
  BY <1>1, <1>2, <1>3, <1>4 DEF Next, TurnStep, Apply, Finish, Quiet

(* A message id names one block only and no block is ended twice, whatever  *)
(* the SDK rejected, from a provider that does not resume its tool calls:   *)
(* applyReasoning and applyText generate an id for each block they open.    *)
THEOREM IDsAreUsedOnce ==
    ASSUME LiveResume = FALSE
    PROVE  Spec => []BlockIDsAreFresh
<1>1. TurnInv /\ TurnWireInv /\ Uninterrupted /\ FreshInv /\ [Next]_vars => FreshInv'
  BY FreshNext
<1>2. FreshInv => BlockIDsAreFresh
  BY DEF FreshInv, OnceOnly, Single, BlockIDsAreFresh, wire
<1>3. Spec => [](TurnInv /\ TurnWireInv /\ Uninterrupted /\ Kept)
  BY UninterruptedAlways
<1> QED
  BY <1>1, <1>2, <1>3, FreshInit, PTL DEF Spec

-----------------------------------------------------------------------------
(***************************************************************************)
(* Correlation over a whole stream.  A fragment that was applied stays     *)
(* where it was put: the tables lead from its index and its id to one      *)
(* buffer, which keeps both.  The exception is a buffer that had ended     *)
(* before it learned its id, and a provider that does not come back to its *)
(* calls after other content never addresses an ended buffer.              *)
(***************************************************************************)
IndexedBack(t) ==
    /\ \A i \in Indices : t.indexed[i] # 0 => t.order[t.indexed[i]].index = i
    /\ \A p \in 1..Len(t.order) : t.order[p].index # NoIndex => t.indexed[t.order[p].index] = p

Placed(t, f) ==
    /\ f.index # NoIndex => t.indexed[f.index] # 0
    /\ f.id # NoID =>
         /\ t.byID[f.id] # 0 /\ t.order[t.byID[f.id]].id = f.id
         /\ f.index # NoIndex => t.byID[f.id] = t.indexed[f.index]

(* AddressedTo, the provider's view, and Known, the turn's, agree.          *)
LEMMA AddressedWhereKnown ==
    ASSUME NEW t, TablesOK(t), IDsClaimed(t), IndexedBack(t),
           NEW f \in Fragments, Placed(t, f), Correlatable(f)
    PROVE  /\ Known(t, f) \in 1..Len(t.order)
           /\ \A p \in 1..Len(t.order) : AddressedTo(f, t.order[p]) <=> p = Known(t, f)
<1>1. /\ Known(t, f) \in 0..Len(t.order) /\ Len(t.order) \in Nat
      /\ f.index # NoIndex => f.index \in Indices
      /\ f.id # NoID => f.id \in ToolIDs
  BY KnownType DEF TablesOK, CallTables
<1>2. CASE f.index # NoIndex
  <2>1. Known(t, f) = t.indexed[f.index] /\ t.indexed[f.index] # 0
    BY <1>2 DEF Known, Placed
  <2>2. t.order[Known(t, f)].index = f.index
    BY <1>1, <1>2, <2>1 DEF IndexedBack
  <2>3. \A p \in 1..Len(t.order) : t.order[p].index = f.index => p = Known(t, f)
    BY <1>2, <2>1 DEF IndexedBack
  <2> QED
    BY <1>1, <1>2, <2>1, <2>2, <2>3 DEF AddressedTo
<1>3. CASE f.index = NoIndex
  <2>1. f.id # NoID /\ Known(t, f) = t.byID[f.id]
    BY <1>3 DEF Known, Correlatable
  <2>2. Known(t, f) # 0 /\ t.order[Known(t, f)].id = f.id
    BY <2>1 DEF Placed
  <2>3. \A p \in 1..Len(t.order) : t.order[p].id = f.id => p = Known(t, f)
    BY <2>1 DEF IDsClaimed
  <2> QED
    BY <1>1, <1>3, <2>1, <2>2, <2>3 DEF AddressedTo
<1> QED
  BY <1>2, <1>3

(* A buffer that is made takes no fragment from the others. *)
LEMMA FoundPlaces ==
    ASSUME NEW t, TablesOK(t), IDsClaimed(t), IndexedBack(t), NEW f \in Fragments, Correlatable(f)
    PROVE  LET g == WithBuffer(t, f) IN
           /\ IndexedBack(g)
           /\ Len(t.order) <= Len(g.order)
           /\ \A p \in 1..Len(t.order) : g.order[p] = t.order[p]
           /\ \A p \in 1..Len(g.order) :
                 p > Len(t.order) => p = Known(g, f) /\ g.order[p] = NewBuffer(f.index)
           /\ \A c \in Fragments : Placed(t, c) =>
                 Placed(g, c) /\ (Correlatable(c) => Known(g, c) = Known(t, c))
<1> DEFINE g   == WithBuffer(t, f)
           pos == Len(t.order) + 1
           new == NewBuffer(f.index)
<1>1. Known(t, f) \in 0..Len(t.order) /\ Len(t.order) \in Nat /\ t.order \in Seq(Buffers)
      /\ t.indexed \in [Indices -> Nat] /\ t.byID \in [ToolIDs -> Nat]
  BY KnownType DEF TablesOK, CallTables
<1>2. CASE Known(t, f) # 0
  BY <1>1, <1>2 DEF WithBuffer
<1>3. CASE Known(t, f) = 0
  <2>1. new \in Buffers /\ new.id = NoID /\ new.index = f.index
    BY DEF NewBuffer, Buffers, Fragments, ToolID, Name
  <2>2. /\ g.order = Append(t.order, new) /\ Len(g.order) = pos /\ g.order[pos] = new
        /\ \A p \in 1..Len(t.order) : g.order[p] = t.order[p]
    BY <1>1, <1>3, <2>1 DEF WithBuffer, CallTables, TablesOK
  <2>3. /\ g.indexed = IF f.index # NoIndex THEN [t.indexed EXCEPT ![f.index] = pos] ELSE t.indexed
        /\ g.byID = IF f.index # NoIndex THEN t.byID ELSE [t.byID EXCEPT ![f.id] = pos]
    BY <1>3 DEF WithBuffer, TablesOK, CallTables
  <2>4. /\ f.index # NoIndex => f.index \in Indices /\ t.indexed[f.index] = 0
        /\ f.index = NoIndex => f.id \in ToolIDs /\ t.byID[f.id] = 0
    BY <1>3, KnownType DEF Known, Correlatable
  <2> HIDE DEF g, new
  <2>5. /\ \A i \in Indices : t.indexed[i] # 0 => g.indexed[i] = t.indexed[i]
        /\ \A c \in ToolIDs : t.byID[c] # 0 => g.byID[c] = t.byID[c]
    BY <1>1, <2>3, <2>4
  <2>6. IndexedBack(g)
    <3>1. ASSUME NEW i \in Indices, g.indexed[i] # 0
          PROVE  g.order[g.indexed[i]].index = i
      <4>1. CASE i = f.index
        BY <1>1, <2>1, <2>2, <2>3, <2>4, <4>1, NoIndexAssumption
      <4>2. CASE i # f.index
        <5>1. g.indexed[i] = t.indexed[i] /\ t.indexed[i] \in 1..Len(t.order)
          BY <1>1, <2>3, <2>4, <3>1, <4>2 DEF TablesOK
        <5> QED
          BY <2>2, <5>1 DEF IndexedBack
      <4> QED
        BY <4>1, <4>2
    <3>2. ASSUME NEW p \in 1..Len(g.order), g.order[p].index # NoIndex
          PROVE  g.indexed[g.order[p].index] = p
      <4>1. CASE p = pos
        BY <1>1, <2>1, <2>2, <2>3, <2>4, <3>2, <4>1
      <4>2. CASE p # pos
        <5>1. p \in 1..Len(t.order) /\ g.order[p] = t.order[p] /\ t.indexed[t.order[p].index] = p
          BY <1>1, <2>2, <3>2, <4>2 DEF IndexedBack
        <5>2. t.order[p] \in Buffers
          BY <1>1, <5>1
        <5>3. t.order[p].index \in Indices
          BY <3>2, <5>1, <5>2 DEF Buffers, Index
        <5> QED
          BY <2>5, <5>1, <5>3
      <4> QED
        BY <4>1, <4>2
    <3> QED
      BY <3>1, <3>2 DEF IndexedBack
  <2>7. Known(g, f) = pos
    BY <1>1, <2>3, <2>4 DEF Known
  <2>8. ASSUME NEW c \in Fragments, Placed(t, c)
        PROVE  Placed(g, c) /\ (Correlatable(c) => Known(g, c) = Known(t, c))
    <3>1. (c.index # NoIndex => c.index \in Indices) /\ (c.id # NoID => c.id \in ToolIDs)
      BY DEF Fragments, Index, ToolID
    <3>2. c.index # NoIndex => t.indexed[c.index] # 0 /\ g.indexed[c.index] = t.indexed[c.index]
      BY <2>5, <2>8, <3>1 DEF Placed
    <3>3. c.id # NoID => t.byID[c.id] \in 1..Len(t.order) /\ g.byID[c.id] = t.byID[c.id]
                         /\ t.order[t.byID[c.id]].id = c.id
      BY <1>1, <2>5, <2>8, <3>1 DEF Placed, TablesOK
    <3> QED
      BY <2>2, <2>8, <3>2, <3>3 DEF Placed, Known, Correlatable
  <2> QED
    BY <1>1, <2>2, <2>6, <2>7, <2>8 DEF g, new
<1> QED
  BY <1>2, <1>3

(* Nor does a fragment that is merged, as long as its buffer has not ended: *)
(* with its buffer b the tables t become r.                                 *)
Accepting(t, f, g, pos, b, r) ==
    /\ TablesOK(t) /\ IDsClaimed(t) /\ IndexedBack(t) /\ f \in Fragments /\ Correlatable(f)
    /\ g = WithBuffer(t, f) /\ pos = Known(g, f) /\ ~Ambiguous(g, f)
    /\ b \in Buffers /\ b.ended = g.order[pos].ended /\ ~b.ended /\ b.index = g.order[pos].index
    /\ b.id = IF f.id = NoID THEN g.order[pos].id ELSE f.id
    /\ r = [Claim(g, f) EXCEPT !.order[pos] = b]

LEMMA AcceptedPlaces ==
    ASSUME NEW t, NEW f, NEW g, NEW pos, NEW b, NEW r, Accepting(t, f, g, pos, b, r)
    PROVE  /\ IndexedBack(r) /\ Placed(r, f) /\ Known(r, f) = pos
           /\ Len(r.order) = Len(g.order) /\ r.order[pos] = b
           /\ \A p \in 1..Len(g.order) : p # pos => r.order[p] = g.order[p]
           /\ \A c \in Fragments : Placed(t, c) =>
                 Placed(r, c) /\ (Correlatable(c) => Known(r, c) = Known(t, c))
<1> DEFINE old == g.order[pos]
<1> SUFFICES ASSUME TablesOK(t), IDsClaimed(t), IndexedBack(t), f \in Fragments, Correlatable(f),
                    g = WithBuffer(t, f), pos = Known(g, f), ~Ambiguous(g, f),
                    b \in Buffers, b.ended = old.ended, ~b.ended, b.index = old.index,
                    b.id = IF f.id = NoID THEN old.id ELSE f.id,
                    r = [Claim(g, f) EXCEPT !.order[pos] = b]
             PROVE  /\ IndexedBack(r) /\ Placed(r, f) /\ Known(r, f) = pos
                    /\ Len(r.order) = Len(g.order) /\ r.order[pos] = b
                    /\ \A p \in 1..Len(g.order) : p # pos => r.order[p] = g.order[p]
                    /\ \A c \in Fragments : Placed(t, c) =>
                          Placed(r, c) /\ (Correlatable(c) => Known(r, c) = Known(t, c))
  BY DEF Accepting
<1>1. /\ TablesOK(g) /\ pos \in 1..Len(g.order) /\ IndexedBack(g)
      /\ \A p \in 1..Len(g.order) : g.order[p].id # NoID => g.byID[g.order[p].id] = p
      /\ \A c \in Fragments : Placed(t, c) =>
            Placed(g, c) /\ (Correlatable(c) => Known(g, c) = Known(t, c))
      /\ \A c \in ToolIDs : g.byID[c] # 0 =>
            g.order[g.byID[c]].id = c \/ g.order[g.byID[c]].ended \/ g.order[g.byID[c]].id = NoID
  BY FoundBuffer, FoundPlaces
<1>2. /\ ~Ambiguous(g, f) /\ ~old.ended /\ b.index = old.index
      /\ b.id = IF f.id = NoID THEN old.id ELSE f.id
  OBVIOUS
<1>3. TablesOK(r) /\ IDsClaimed(r) /\ Known(r, f) = pos
  BY AcceptedBuffer
<1>4. /\ f.index # NoIndex => f.index \in Indices /\ pos = g.indexed[f.index]
      /\ f.index = NoIndex => f.id # NoID /\ pos = g.byID[f.id]
      /\ f.id # NoID => f.id \in ToolIDs
  BY <1>1, KnownType DEF Known, Correlatable
<1>5. /\ g.order \in Seq(Buffers) /\ g.indexed \in [Indices -> Nat] /\ g.byID \in [ToolIDs -> Nat]
      /\ Len(g.order) \in Nat /\ old \in Buffers
      /\ g = [order |-> g.order, indexed |-> g.indexed, byID |-> g.byID]
  BY <1>1 DEF TablesOK, CallTables
<1>6. /\ r.order = [g.order EXCEPT ![pos] = b] /\ r.indexed = g.indexed
      /\ r.byID = IF f.id = NoID THEN g.byID ELSE [g.byID EXCEPT ![f.id] = pos]
  <2> DEFINE k == Claim(g, f)
  <2>1. /\ k.order = g.order /\ k.indexed = g.indexed
        /\ k.byID = IF f.id = NoID THEN g.byID ELSE [g.byID EXCEPT ![f.id] = pos]
        /\ k = [order |-> k.order, indexed |-> k.indexed, byID |-> k.byID]
    BY <1>5 DEF Claim
  <2> HIDE DEF k
  <2>2. r.order = [k.order EXCEPT ![pos] = b] /\ r.indexed = k.indexed /\ r.byID = k.byID
    BY <2>1 DEF k
  <2> QED
    BY <2>1, <2>2
<1>7. /\ Len(r.order) = Len(g.order) /\ r.order[pos] = b
      /\ \A p \in 1..Len(g.order) : p # pos => r.order[p] = g.order[p]
  BY <1>1, <1>5, <1>6
<1>8. IndexedBack(r)
  <2>1. \A p \in 1..Len(r.order) : r.order[p].index = g.order[p].index
    BY <1>2, <1>7
  <2>2. \A i \in Indices : r.indexed[i] # 0 => r.indexed[i] \in 1..Len(r.order)
    BY <1>1, <1>5, <1>6, <1>7 DEF TablesOK
  <2> QED
    <3>1. /\ \A i \in Indices : g.indexed[i] # 0 => g.order[g.indexed[i]].index = i
          /\ \A p \in 1..Len(g.order) : g.order[p].index # NoIndex => g.indexed[g.order[p].index] = p
      BY <1>1 DEF IndexedBack
    <3>2. r.indexed = g.indexed /\ Len(r.order) = Len(g.order)
      BY <1>6, <1>7
    <3> HIDE DEF old
    <3> QED
      <4>1. \A i \in Indices : r.indexed[i] # 0 => r.order[r.indexed[i]].index = i
        BY <2>1, <2>2, <3>1, <3>2
      <4>2. \A p \in 1..Len(r.order) : r.order[p].index # NoIndex => r.indexed[r.order[p].index] = p
        BY <2>1, <3>1, <3>2
      <4> QED
        BY <4>1, <4>2 DEF IndexedBack
<1>9. /\ f.id # NoID => b.id = f.id /\ r.byID[f.id] = pos
      /\ f.id # NoID => g.byID[f.id] \in {0, pos}
      /\ f.id = NoID => b.id = old.id
      /\ f.id # NoID => old.id \in {NoID, f.id}
  <2>1. /\ f.id # NoID => b.id = f.id /\ r.byID[f.id] = pos
        /\ f.id # NoID => g.byID[f.id] \in {0, pos}
        /\ f.id = NoID => b.id = old.id
    <3>1. f.id # NoID => b.id = f.id
      BY <1>2
    <3>2. f.id = NoID => b.id = old.id
      BY <1>2
    <3>3. f.id # NoID => f.id \in ToolIDs /\ r.byID[f.id] = pos
      BY <1>4, <1>5, <1>6
    <3>4. f.id # NoID => g.byID[f.id] \in {0, pos}
      BY <1>2, <1>4 DEF Ambiguous, ClaimedTwice
    <3> QED
      BY <3>1, <3>2, <3>3, <3>4
  <2>2. CASE f.index # NoIndex
    BY <1>2, <2>1, <2>2 DEF Ambiguous, ChangedID
  <2>3. CASE f.index = NoIndex
    <3>1. f.id \in ToolIDs /\ g.byID[f.id] = pos /\ pos # 0
      BY <1>1, <1>4, <2>3
    <3>2. old.id = f.id \/ old.ended \/ old.id = NoID
      BY <1>1, <3>1
    <3> QED
      BY <1>2, <2>1, <3>2
  <2> QED
    BY <2>2, <2>3
<1>10. Placed(r, f)
  <2>1. pos # 0 /\ r.order[pos].id = b.id
    BY <1>1, <1>7
  <2>2. f.index # NoIndex => r.indexed[f.index] = pos
    BY <1>4, <1>6
  <2>3. f.id # NoID => r.byID[f.id] = pos /\ b.id = f.id
    BY <1>9
  <2> QED
    BY <2>1, <2>2, <2>3 DEF Placed
<1>11. ASSUME NEW c \in Fragments, Placed(t, c)
       PROVE  Placed(r, c) /\ (Correlatable(c) => Known(r, c) = Known(t, c))
  <2>1. Placed(g, c) /\ (Correlatable(c) => Known(g, c) = Known(t, c))
    BY <1>1, <1>11
  <2>2. (c.index # NoIndex => c.index \in Indices) /\ (c.id # NoID => c.id \in ToolIDs)
    BY DEF Fragments, Index, ToolID
  <2>3. CASE c.id # NoID
    <3> DEFINE q == g.byID[c.id]
    <3>1. q \in 1..Len(g.order) /\ g.order[q].id = c.id
      <4>1. q # 0 /\ g.order[q].id = c.id
        BY <2>1, <2>3 DEF Placed
      <4>2. q \in 0..Len(g.order)
        BY <1>1, <2>2, <2>3 DEF TablesOK
      <4> QED
        BY <1>5, <4>1, <4>2
    <3>2. r.byID[c.id] = q
      <4>1. CASE f.id = NoID
        BY <1>6, <4>1
      <4>2. CASE f.id # NoID /\ c.id = f.id
        BY <1>9, <3>1, <4>2
      <4>3. CASE f.id # NoID /\ c.id # f.id
        BY <1>4, <1>5, <1>6, <2>2, <2>3, <4>3
      <4> QED
        BY <4>1, <4>2, <4>3
    <3> HIDE DEF q
    <3>3. r.order[q].id = c.id
      <4>1. CASE q # pos
        BY <1>7, <3>1, <4>1
      <4>2. CASE q = pos
        <5>1. old.id = c.id
          BY <3>1, <4>2
        <5>2. f.id = NoID \/ f.id = c.id
          BY <1>9, <2>3, <5>1
        <5> QED
          BY <1>7, <1>9, <4>2, <5>1, <5>2
      <4> QED
        BY <4>1, <4>2
    <3> QED
      BY <1>6, <2>1, <2>2, <2>3, <3>1, <3>2, <3>3 DEF Placed, Known, Correlatable, q
  <2>4. CASE c.id = NoID
    BY <1>6, <2>1, <2>4 DEF Placed, Known, Correlatable
  <2> QED
    BY <2>3, <2>4
<1> QED
  BY <1>3, <1>7, <1>8, <1>10, <1>11

-----------------------------------------------------------------------------
(* Where a turn goes on it has no error; a buffer has ended only after other *)
(* content, or when finish ends what is left.                                *)
Finishing == pc \in {"conclude", "done"} \/ (pc = "end" /\ after = "conclude")

PlaceInv ==
    /\ pc \in {"open", "check", "recv", "tools", "flush"} \/ GoesOn => primary = "none"
    /\ pc \in {"reasoning", "text"} => cursor = 1
    /\ calls.order # <<>> => owner # NoOwner
    /\ \A p \in 1..Len(calls.order) : calls.order[p].ended => live /\ (WentOn \/ Finishing)

LEMMA PlaceInit == Init => PlaceInv
  BY DEF Init, PlaceInv, GoesOn, NoCalls

LEMMA NothingEndedAtCalls ==
    ASSUME TurnInv, Uninterrupted, PlaceInv, InTools, Correlatable(call)
    PROVE  \A p \in 1..Len(calls.order) : ~calls.order[p].ended
<1> SUFFICES ASSUME live, WentOn PROVE FALSE
  BY DEF PlaceInv, InTools, Finishing
<1>1. Len(chunks) \in DOMAIN chunks /\ HasCalls(chunk) /\ chunks \in Seq(Chunks)
  BY CallsNow DEF TurnInv, ControlInv
<1>2. PICK i, j \in DOMAIN chunks : i < j /\ HasCalls(chunks[i]) /\ HasContent(chunks[j])
  BY DEF WentOn
<1>3. j <= Len(chunks) /\ CallsAreContiguous(chunks)
  BY <1>1 DEF Uninterrupted
<1> HIDE DEF HasCalls, HasContent
<1> QED
  BY <1>1, <1>2, <1>3 DEF CallsAreContiguous, chunk

(* What AcceptFragment stores. *)
LEMMA StoredBuffer ==
    ASSUME TurnInv, AcceptFragment
    PROVE  LET found  == WithBuffer(calls, call)
               pos    == Known(found, call)
               before == found.order[pos]
               delta  == IF call.args THEN piece(cursor) ELSE NoDelta
           IN  \E b \in Buffers :
                 /\ calls' = [Claim(found, call) EXCEPT !.order[pos] = b]
                 /\ ~Ambiguous(found, call) /\ before \in Buffers
                 /\ b.ended = before.ended /\ b.index = before.index
                 /\ b.id = IF before.ended \/ call.id = NoID THEN before.id ELSE call.id
                 /\ b.arguments = IF before.ended THEN before.arguments ELSE Join(before.arguments, delta)
<1> DEFINE found  == WithBuffer(calls, call)
           pos    == Known(found, call)
           delta  == IF call.args THEN piece(cursor) ELSE NoDelta
           before == found.order[pos]
           merged == Merge(before, call, delta)
           talks  == live /\ ~before.ended
           starts == talks /\ Ready(merged)
           buffer == IF talks /\ ~merged.started THEN Postpone(merged, delta) ELSE merged
           stored == [buffer EXCEPT !.started = @ \/ starts]
           args   == IF before.ended THEN before.arguments ELSE Join(before.arguments, delta)
<1>1. /\ TablesOK(calls) /\ IDsClaimed(calls) /\ live \in BOOLEAN
      /\ call \in Fragments /\ Correlatable(call) /\ piece(cursor) \in Tokens
  BY CallFacts DEF AcceptFragment, TurnInv, CallsInv, ControlInv
<1>2. TablesOK(found) /\ pos \in 1..Len(found.order)
  BY <1>1, FoundBuffer
<1>3. before \in Buffers
  BY <1>2 DEF TablesOK, CallTables
<1>4. delta \in Tokens \cup {NoDelta} /\ call.id \in ToolID /\ call.name \in Name
  BY <1>1 DEF Fragments
<1> HIDE DEF before, delta
<1>5. /\ merged \in Buffers /\ merged.ended = before.ended /\ merged.index = before.index
      /\ merged.id = IF before.ended \/ call.id = NoID THEN before.id ELSE call.id
      /\ merged.arguments = args
  <2>1. Join(before.arguments, delta) \in Seq(Tokens)
    BY <1>3, <1>4 DEF Join, Buffers
  <2> QED
    BY <1>3, <1>4, <2>1 DEF Merge, Buffers
<1> HIDE DEF merged, args
<1>6. /\ buffer \in Buffers /\ buffer.id = merged.id /\ buffer.ended = merged.ended
      /\ buffer.index = merged.index /\ buffer.arguments = merged.arguments
  <2>1. Join(merged.pendingArgs, delta) \in Seq(Tokens)
    BY <1>4, <1>5 DEF Join, Buffers
  <2> QED
    BY <1>5, <2>1 DEF Postpone, Buffers
<1>7. starts \in BOOLEAN
  BY <1>1, <1>3, <1>5 DEF Ready, Buffers
<1> HIDE DEF buffer, starts
<1>8. /\ stored \in Buffers /\ stored.id = merged.id /\ stored.ended = merged.ended
      /\ stored.index = merged.index /\ stored.arguments = merged.arguments
  BY <1>6, <1>7 DEF Buffers
<1> HIDE DEF stored
<1>9. calls' = [Claim(found, call) EXCEPT !.order[pos] = stored] /\ ~Ambiguous(found, call)
  BY DEF AcceptFragment, stored, buffer, starts, merged, before, delta
<1> QED
  BY <1>3, <1>5, <1>8, <1>9 DEF args, before, delta

LEMMA PlaceCalls ==
    ASSUME TurnInv, Uninterrupted, PlaceInv, EndCall \/ RefuseFragment \/ FlushArg \/ AcceptFragment
    PROVE  /\ calls'.order # <<>> => owner # NoOwner
           /\ \A p \in 1..Len(calls'.order) : calls'.order[p].ended => live /\ (WentOn \/ Finishing)'
<1>1. /\ TablesOK(calls) /\ IDsClaimed(calls) /\ calls.order \in Seq(Buffers) /\ calls \in CallTables
      /\ UNCHANGED <<live, owner, chunks, after>> /\ WentOn' = WentOn
  BY DEF TurnInv, CallsInv, TablesOK, CallTables, EndCall, RefuseFragment, FlushArg, AcceptFragment,
         blocks, request, WentOn
<1>2. CASE EndCall
  <2> DEFINE b == calls.order[cursor]
  <2>1. cursor \in 1..Len(calls.order) /\ live /\ pc = "end" /\ pc' = "end"
    BY <1>1, <1>2 DEF EndCall, AllEnded, TurnInv, ControlInv
  <2>2. calls.order # <<>> /\ owner # NoOwner
    BY <1>1, <2>1 DEF PlaceInv
  <2>3. WentOn \/ Finishing'
    <3>1. CASE after = "conclude"
      BY <1>1, <2>1, <3>1 DEF Finishing
    <3>2. CASE after # "conclude"
      BY <2>1, <2>2, <3>2, ChunkFacts DEF Uninterrupted, CallsSeen, WentOn, GoesOn, chunk, TurnInv, ControlInv, InChunk
    <3> QED
      BY <3>1, <3>2
  <2> QED
    BY <1>1, <2>1, <2>2, <2>3
<1>3. CASE RefuseFragment \/ AcceptFragment
  <2>1. InTools /\ Correlatable(call) /\ owner # NoOwner /\ call \in Fragments
    BY <1>3, CallFacts DEF RefuseFragment, AcceptFragment
  <2>2. \A p \in 1..Len(calls.order) : ~calls.order[p].ended
    BY <2>1, NothingEndedAtCalls
  <2> DEFINE found == WithBuffer(calls, call)
             pos   == Known(found, call)
  <2>3. found.order \in {calls.order, Append(calls.order, NewBuffer(call.index))}
    BY <1>1 DEF WithBuffer, CallTables
  <2>4. NewBuffer(call.index) \in Buffers /\ ~NewBuffer(call.index).ended
    BY <2>1 DEF NewBuffer, Buffers, Fragments, ToolID, Name
  <2>5. /\ TablesOK(found) /\ pos \in 1..Len(found.order) /\ found.order \in Seq(Buffers)
        /\ found \in CallTables
    BY <1>1, <2>1, FoundBuffer DEF TablesOK, CallTables
  <2>6. \A p \in 1..Len(found.order) : ~found.order[p].ended
    BY <1>1, <2>2, <2>3, <2>4
  <2>7. CASE RefuseFragment
    BY <2>1, <2>6, <2>7 DEF RefuseFragment
  <2>8. CASE AcceptFragment
    <3>1. PICK b \in Buffers :
             calls' = [Claim(found, call) EXCEPT !.order[pos] = b] /\ b.ended = found.order[pos].ended
      BY <2>8, StoredBuffer
    <3> HIDE DEF found
    <3>2. Claim(found, call).order = found.order /\ DOMAIN Claim(found, call) = DOMAIN found
      BY <2>5 DEF Claim, CallTables
    <3>3. calls'.order = [found.order EXCEPT ![pos] = b]
      BY <2>5, <3>1, <3>2 DEF CallTables
    <3> QED
      BY <2>1, <2>5, <2>6, <3>1, <3>3
  <2> QED
    BY <1>3, <2>7, <2>8
<1>4. CASE FlushArg
  <2> DEFINE pos == Known(calls, call)
             b   == calls.order[pos]
  <2>1. call \in Fragments /\ Correlatable(call) /\ pos # 0 /\ pc = "flush" /\ pc' = "flush"
    BY <1>4, CallFacts DEF FlushArg, TurnInv, CallsInv, ControlInv
  <2>2. pos \in 1..Len(calls.order) /\ b \in Buffers
    BY <1>1, <2>1, KnownType
  <2>3. calls'.order = [calls.order EXCEPT ![pos] = [b EXCEPT !.pendingArgs = Tail(@)]]
    BY <1>1, <1>4 DEF FlushArg, CallTables
  <2>4. [b EXCEPT !.pendingArgs = Tail(@)].ended = b.ended
    BY <2>2 DEF Buffers
  <2> HIDE DEF b
  <2>5. /\ Len(calls'.order) = Len(calls.order)
        /\ \A p \in 1..Len(calls.order) : calls'.order[p].ended = calls.order[p].ended
    BY <1>1, <2>2, <2>3, <2>4 DEF b
  <2>6. calls'.order # <<>> => calls.order # <<>>
    BY <1>1, <2>2
  <2> QED
    BY <1>1, <2>1, <2>5, <2>6 DEF PlaceInv, Finishing
<1> QED
  BY <1>2, <1>3, <1>4

LEMMA PlaceNext ==
    ASSUME LiveResume = FALSE, TurnInv, Uninterrupted, PlaceInv, [Next]_vars
    PROVE  PlaceInv'
<1> USE DEF TurnInv, ControlInv
<1>1. CASE UNCHANGED vars \/ Returned \/ Cancel
  BY <1>1 DEF vars, Returned, Cancel, PlaceInv, GoesOn, WentOn, Finishing
<1>2. CASE EndCall \/ RefuseFragment \/ FlushArg \/ AcceptFragment
  <2>1. owner' = owner /\ live' = live
    BY <1>2 DEF EndCall, RefuseFragment, FlushArg, AcceptFragment, blocks, request
  <2>2. (pc' \in {"open", "check", "recv", "tools", "flush"} \/ GoesOn' => primary' = "none")
        /\ pc' \notin {"reasoning", "text"}
    BY <1>2 DEF EndCall, RefuseFragment, FlushArg, AcceptFragment, Fail, InTools, GoesOn, PlaceInv
  <2> QED
    BY <1>2, <2>1, <2>2, PlaceCalls DEF PlaceInv
<1>3. CASE RecvChunk
  <2>1. PICK c \in Chunks : chunks' = Append(chunks, c)
    BY <1>3 DEF RecvChunk
  <2>2. \A i \in DOMAIN chunks : i \in DOMAIN chunks' /\ chunks'[i] = chunks[i]
    BY <2>1
  <2>3. WentOn => WentOn'
    BY <2>2 DEF WentOn, HasCalls, HasContent
  <2>4. pc = "recv" /\ primary = "none" /\ primary' = primary /\ UNCHANGED <<calls, owner, live>>
        /\ pc' \in {"end", "tools"}
    BY <1>3 DEF RecvChunk, PlaceInv, blocks
  <2> QED
    BY <2>3, <2>4 DEF PlaceInv, Finishing
<1>4. ASSUME UNCHANGED <<calls, live, chunks>>, owner # NoOwner => owner' # NoOwner,
             pc' \in {"open", "check", "recv", "tools", "flush"} \/ GoesOn' => primary' = "none",
             pc' \in {"reasoning", "text"} => cursor' = 1, Finishing => Finishing'
      PROVE  PlaceInv'
  <2>1. WentOn' = WentOn
    BY <1>4 DEF WentOn
  <2> QED
    BY <1>4, <2>1 DEF PlaceInv
<1>5. CASE OpenFails \/ OpenStream \/ CheckRequest \/ RecvEOF \/ RecvError \/ RecvKeepAlive
  <2>1. /\ UNCHANGED <<calls, live, chunks, owner>> /\ ~Finishing
        /\ pc' \in {"done", "check", "recv", "close"}
        /\ pc' \in {"check", "recv"} => primary' = primary /\ primary = "none"
    BY <1>5 DEF OpenFails, OpenStream, CheckRequest, RecvEOF, RecvError, RecvKeepAlive, Fail,
                blocks, request, PlaceInv, Finishing
  <2> QED
    BY <1>4, <2>1 DEF GoesOn
<1>6. CASE CallsEnded
  <2>1. /\ UNCHANGED <<calls, live, chunks, owner, after>> /\ pc = "end" /\ cursor' = 1
        /\ pc' \in {"close", after}
        /\ pc' # "close" => primary' = OrTransport(primary)
        /\ pc' = "close" => after # "conclude"
        /\ pc' # "close" => ~em.err \/ after = "conclude"
    BY <1>6 DEF CallsEnded, Fail, blocks, request
  <2>2. after = "conclude" => pc' = "conclude"
    BY <2>1
  <2>3. pc' \in {"reasoning", "text"} => primary' = "none"
    BY <2>1, <2>2 DEF OrTransport, PlaceInv, GoesOn
  <2>4. pc' \notin {"open", "check", "recv", "tools", "flush", "end"}
    BY <2>1
  <2>5. Finishing => Finishing'
    BY <2>1, <2>2 DEF Finishing
  <2> QED
    BY <1>4, <2>1, <2>3, <2>4, <2>5 DEF GoesOn
<1>7. CASE ApplyReasoning \/ ApplyText
  <2>1. /\ UNCHANGED <<calls, live, chunks, owner>> /\ ~Finishing /\ GoesOn
        /\ pc' \in {"close", "end", "tools"}
        /\ pc' \in {"tools", "end"} => primary' = primary
    BY <1>7 DEF ApplyReasoning, ApplyText, Fail, request, GoesOn, Finishing
  <2> QED
    BY <1>4, <2>1 DEF GoesOn, PlaceInv
<1>8. CASE EnsureToolOwner
  <2>1. /\ UNCHANGED <<calls, live, chunks>> /\ ~Finishing /\ owner = NoOwner
        /\ pc' \in {"close", "tools"}
        /\ pc' = "tools" => primary' = primary
    BY <1>8 DEF EnsureToolOwner, InTools, Fail, request, Finishing
  <2> QED
    BY <1>4, <1>8, <2>1 DEF GoesOn, PlaceInv, EnsureToolOwner, InTools
<1>9. CASE SkipFragment \/ FragmentDone \/ ChunkDone
  <2>1. /\ UNCHANGED <<calls, live, chunks, owner>> /\ ~Finishing /\ pc \in {"tools", "flush"}
        /\ pc' \in {"close", "tools", "check"}
        /\ pc' # "close" => primary' = primary
    BY <1>9 DEF SkipFragment, FragmentDone, ChunkDone, InTools, Fail, request, blocks, Finishing
  <2> QED
    BY <1>4, <2>1 DEF GoesOn, PlaceInv
<1>10. CASE CloseBlocks \/ ConcludeEmpty \/ Conclude
  <2>1. /\ UNCHANGED <<calls, live, chunks, owner>> /\ Finishing' /\ ~GoesOn'
        /\ pc' \in {"end", "done"}
    BY <1>10 DEF CloseBlocks, ConcludeEmpty, Conclude, request, blocks, Finishing, GoesOn
  <2> QED
    BY <1>4, <2>1
<1> QED
  BY <1>1, <1>2, <1>3, <1>5, <1>6, <1>7, <1>8, <1>9, <1>10 DEF Next, TurnStep, Recv, Apply, Finish

-----------------------------------------------------------------------------
(* The fragments that were applied: all received, but for the rest of the   *)
(* chunk in hand.                                                           *)
Unbroken == primary \in {"none", "cancelled", "provider"}

Pending(r) ==
    r[1] = Len(chunks) /\ (\/ GoesOn
                           \/ pc = "tools" /\ r[2] >= cursor
                           \/ pc = "flush" /\ r[2] > cursor)

Applied == {r \in Received : ~Pending(r)}

LEMMA ReceivedPairs ==
    ASSUME TurnInv
    PROVE  /\ \A r \in Received : /\ r[1] \in 1..Len(chunks) /\ r[2] \in 1..Len(chunks[r[1]].calls)
                                  /\ r = <<r[1], r[2]>> /\ FragmentAt(r) \in Fragments
           /\ \A k \in 1..Len(chunks) : \A i \in 1..Len(chunks[k].calls) : <<k, i>> \in Received
           /\ \A k \in 1..Len(chunks) : Len(chunks[k].calls) \in Nat
<1>1. chunks \in Seq(Chunks)
  BY DEF TurnInv, ControlInv
<1>2. \A k \in 1..Len(chunks) : chunks[k].calls \in Seq(Fragments)
  BY <1>1, ChunksAssumption DEF ChunkShapes
<1>3. DOMAIN chunks = 1..Len(chunks)
  BY <1>1
<1>4. \A k \in 1..Len(chunks) : DOMAIN chunks[k].calls = 1..Len(chunks[k].calls)
  BY <1>2
<1>5. ASSUME NEW r \in Received
      PROVE  /\ r[1] \in 1..Len(chunks) /\ r[2] \in 1..Len(chunks[r[1]].calls)
             /\ r = <<r[1], r[2]>> /\ FragmentAt(r) \in Fragments
  <2>1. PICK k \in DOMAIN chunks : r \in {k} \X DOMAIN chunks[k].calls
    BY DEF Received
  <2>2. r = <<r[1], r[2]>> /\ r[1] = k /\ r[2] \in 1..Len(chunks[k].calls)
    BY <1>3, <1>4, <2>1
  <2> QED
    BY <1>2, <1>3, <2>2 DEF FragmentAt
<1>6. ASSUME NEW k \in 1..Len(chunks), NEW i \in 1..Len(chunks[k].calls)
      PROVE  <<k, i>> \in Received
  BY <1>3, <1>4 DEF Received
<1> QED
  BY <1>2, <1>5, <1>6

LEMMA AppliedNext ==
    ASSUME TurnInv, PlaceInv, [Next]_vars, Unbroken'
    PROVE  /\ Unbroken
           /\ \A r \in Received : chunks'[r[1]].calls[r[2]] = FragmentAt(r)
           /\ SkipFragment \/ AcceptFragment => Applied' = Applied \cup {piece(cursor)}
           /\ ~(SkipFragment \/ AcceptFragment) => Applied' = Applied
<1>1. /\ \A r \in Received : /\ r[1] \in 1..Len(chunks) /\ r[2] \in 1..Len(chunks[r[1]].calls)
                             /\ r = <<r[1], r[2]>>
      /\ \A k \in 1..Len(chunks) : \A i \in 1..Len(chunks[k].calls) : <<k, i>> \in Received
      /\ \A k \in 1..Len(chunks) : Len(chunks[k].calls) \in Nat
  BY ReceivedPairs
<1>2. /\ chunks \in Seq(Chunks) /\ Len(chunks) \in Nat /\ cursor \in Nat \ {0} /\ pc \in Places
      /\ after \in {"reasoning", "text", "conclude"}
  BY DEF TurnInv, ControlInv
<1>3. ASSUME chunks' = chunks
      PROVE  Received' = Received /\ \A r \in Received : chunks'[r[1]].calls[r[2]] = FragmentAt(r)
  BY <1>3 DEF Received, FragmentAt
<1>4. ASSUME chunks' = chunks, Unbroken, ~(SkipFragment \/ AcceptFragment),
             \A r \in Received : Pending(r)' <=> Pending(r)
      PROVE  /\ \A r \in Received : chunks'[r[1]].calls[r[2]] = FragmentAt(r)
             /\ Applied' = Applied
  BY <1>3, <1>4 DEF Applied
<1>5. CASE UNCHANGED vars \/ Returned \/ Cancel
  <2>1. UNCHANGED <<chunks, pc, cursor, after, primary>>
    BY <1>5 DEF vars, Returned, Cancel
  <2>2. ~(SkipFragment \/ AcceptFragment)
    <3>1. ~(pc = "tools" /\ (cursor' = cursor + 1 \/ pc' = "flush"))
      BY <1>2, <2>1
    <3> QED
      BY <3>1 DEF SkipFragment, AcceptFragment, InTools
  <2> QED
    BY <1>4, <2>1, <2>2 DEF Pending, GoesOn, Unbroken
<1>6. CASE RecvChunk
  <2>1. PICK c \in Chunks : chunks' = Append(chunks, c)
    BY <1>6 DEF RecvChunk
  <2>2. /\ pc = "recv" /\ primary = "none" /\ cursor' = 1
        /\ pc' = "tools" \/ (pc' = "end" /\ after' \in {"reasoning", "text"})
    BY <1>6 DEF RecvChunk, PlaceInv
  <2>3. /\ Len(chunks') = Len(chunks) + 1 /\ chunks' \in Seq(Chunks)
        /\ \A k \in 1..Len(chunks) : chunks'[k] = chunks[k]
    BY <1>2, <2>1
  <2>4. Applied = Received
    BY <2>2 DEF Applied, Pending, GoesOn
  <2>5. \A k \in 1..Len(chunks') : chunks'[k].calls \in Seq(Fragments)
    BY <2>3, ChunksAssumption DEF ChunkShapes
  <2>6. \A r \in Received : r \in Received' /\ ~Pending(r)' /\ chunks'[r[1]].calls[r[2]] = FragmentAt(r)
    <3> SUFFICES ASSUME NEW r \in Received
                 PROVE  r \in Received' /\ ~Pending(r)' /\ chunks'[r[1]].calls[r[2]] = FragmentAt(r)
      OBVIOUS
    <3>1. r[1] \in 1..Len(chunks) /\ r[2] \in 1..Len(chunks[r[1]].calls) /\ r = <<r[1], r[2]>>
      BY <1>1
    <3>2. r[1] \in DOMAIN chunks' /\ chunks'[r[1]] = chunks[r[1]] /\ r[1] # Len(chunks')
      BY <1>2, <2>3, <3>1
    <3>3. r[2] \in DOMAIN chunks'[r[1]].calls
      BY <1>2, <2>5, <3>1, <3>2
    <3>4. r \in Received'
      BY <3>1, <3>2, <3>3 DEF Received
    <3> QED
      BY <3>2, <3>4 DEF Pending, FragmentAt
  <2>7. \A r \in Received' : ~Pending(r)' => r \in Received
    <3> SUFFICES ASSUME NEW r \in Received', ~Pending(r)'
                 PROVE  r \in Received
      OBVIOUS
    <3>1. PICK k \in DOMAIN chunks' : r \in {k} \X DOMAIN chunks'[k].calls
      BY DEF Received
    <3>2. k \in 1..Len(chunks') /\ DOMAIN chunks'[k].calls = 1..Len(chunks'[k].calls)
          /\ Len(chunks'[k].calls) \in Nat
      BY <2>3, <2>5, <3>1
    <3>3. r = <<k, r[2]>> /\ r[1] = k /\ r[2] \in 1..Len(chunks'[k].calls)
      BY <3>1, <3>2
    <3>4. r[2] >= 1
      BY <3>2, <3>3
    <3>5. k # Len(chunks')
      BY <2>2, <3>3, <3>4 DEF Pending, GoesOn
    <3>6. k \in 1..Len(chunks) /\ chunks'[k] = chunks[k]
      BY <1>2, <2>3, <3>2, <3>5
    <3> QED
      BY <1>1, <3>3, <3>6
  <2>8. Applied' = Applied
    BY <2>4, <2>6, <2>7 DEF Applied
  <2>9. ~(SkipFragment \/ AcceptFragment)
    BY <2>2 DEF SkipFragment, AcceptFragment, InTools
  <2> QED
    BY <2>2, <2>6, <2>8, <2>9 DEF Unbroken
<1>7. CASE OpenFails
  BY <1>7 DEF OpenFails, Unbroken
<1>8. CASE OpenStream \/ CheckRequest \/ RecvEOF \/ RecvError \/ RecvKeepAlive
  <2>1. chunks' = chunks /\ pc \in {"open", "check", "recv"} /\ pc' \in {"check", "recv", "close"}
        /\ primary = "none"
    BY <1>8 DEF OpenStream, CheckRequest, RecvEOF, RecvError, RecvKeepAlive, Fail, PlaceInv
  <2> QED
    BY <1>4, <2>1 DEF Pending, GoesOn, Unbroken, SkipFragment, AcceptFragment, InTools
<1>9. CASE EndCall
  <2>1. chunks' = chunks /\ pc = "end" /\ pc' = "end" /\ after' = after /\ primary' = primary
    BY <1>9 DEF EndCall
  <2> QED
    BY <1>4, <2>1 DEF Pending, GoesOn, Unbroken, SkipFragment, AcceptFragment, InTools
<1>10. CASE CallsEnded
  <2>1. chunks' = chunks /\ pc = "end" /\ after' = after /\ (primary' = "transport" \/ primary' = primary)
        /\ (primary' # "transport" => pc' = after)
    BY <1>10 DEF CallsEnded, Fail, OrTransport
  <2>2. pc' = after /\ primary' = primary
    BY <2>1 DEF Unbroken
  <2>3. GoesOn' <=> GoesOn
    BY <1>2, <2>1, <2>2 DEF GoesOn
  <2> QED
    BY <1>2, <1>4, <2>1, <2>2, <2>3 DEF Pending, Unbroken, SkipFragment, AcceptFragment, InTools
<1>11. CASE ApplyReasoning \/ ApplyText
  <2>1. /\ chunks' = chunks /\ pc \in {"reasoning", "text"} /\ cursor' = cursor /\ cursor = 1
        /\ \/ primary' = "transport"
           \/ /\ primary' = primary
              /\ (pc' = "end" /\ after' = "text") \/ pc' = "tools"
    BY <1>11 DEF ApplyReasoning, ApplyText, Fail, PlaceInv
  <2>2. primary' = primary /\ ((pc' = "end" /\ after' = "text") \/ pc' = "tools")
    BY <2>1 DEF Unbroken
  <2>3. ASSUME NEW r \in Received
        PROVE  Pending(r)' <=> Pending(r)
    <3>1. r[2] >= 1
      BY <1>1
    <3> QED
      BY <2>1, <2>2, <3>1 DEF Pending, GoesOn
  <2> QED
    BY <1>4, <2>1, <2>2, <2>3 DEF Unbroken, SkipFragment, AcceptFragment, InTools
<1>12. CASE SkipFragment \/ AcceptFragment
  <2>1. /\ chunks' = chunks /\ pc = "tools" /\ primary' = primary /\ piece(cursor) \in Received
        /\ (pc' = "tools" /\ cursor' = cursor + 1) \/ (pc' = "flush" /\ cursor' = cursor)
    <3>1. cursor \in 1..Len(chunk.calls) /\ Len(chunks) > 0
      BY <1>12, CallFacts DEF SkipFragment, AcceptFragment, InTools, TurnInv, ControlInv, InChunk
    <3>2. Len(chunks) \in 1..Len(chunks)
      BY <1>2, <3>1
    <3>3. piece(cursor) \in Received
      BY <1>1, <3>1, <3>2 DEF piece, chunk
    <3>4. CASE SkipFragment
      BY <3>3, <3>4 DEF SkipFragment, InTools
    <3>5. CASE AcceptFragment
      BY <3>3, <3>5 DEF AcceptFragment, InTools
    <3> QED
      BY <1>12, <3>4, <3>5
  <2>2. ASSUME NEW r \in Received
        PROVE  Pending(r)' <=> Pending(r) /\ r # piece(cursor)
    <3>1. r[1] \in Nat /\ r[2] \in Nat /\ r = <<r[1], r[2]>>
      BY <1>1, <1>2
    <3>2. r = piece(cursor) <=> r[1] = Len(chunks) /\ r[2] = cursor
      BY <3>1 DEF piece
    <3> QED
      BY <1>2, <2>1, <3>1, <3>2 DEF Pending, GoesOn
  <2>3. Received' = Received
    BY <1>3, <2>1
  <2>4. Applied' = Applied \cup {piece(cursor)}
    BY <2>1, <2>2, <2>3 DEF Applied
  <2> QED
    BY <1>3, <1>12, <2>1, <2>4 DEF Unbroken
<1>13. CASE EnsureToolOwner
  <2>1. chunks' = chunks /\ pc = "tools" /\ cursor' = cursor
        /\ (primary' = "transport" \/ (primary' = primary /\ pc' = "tools")) /\ owner = NoOwner
    BY <1>13 DEF EnsureToolOwner, Fail, InTools
  <2>2. ~(SkipFragment \/ AcceptFragment)
    BY <1>13 DEF EnsureToolOwner, SkipFragment, AcceptFragment
  <2> QED
    BY <1>4, <2>1, <2>2 DEF Pending, GoesOn, Unbroken
<1>14. CASE RefuseFragment
  BY <1>14 DEF RefuseFragment, Fail, Unbroken
<1>15. CASE FlushArg \/ FragmentDone
  <2>1. CASE FlushArg
    BY <1>4, <2>1 DEF FlushArg, Pending, GoesOn, Unbroken, SkipFragment, AcceptFragment, InTools
  <2>2. CASE FragmentDone
    <3>1. chunks' = chunks /\ pc = "flush" /\ primary' = primary /\ pc' = "tools" /\ cursor' = cursor + 1
      BY <2>2 DEF FragmentDone, Fail, Unbroken
    <3>2. ASSUME NEW r \in Received
          PROVE  Pending(r)' <=> Pending(r)
      <4>1. r[2] \in Nat
        BY <1>1
      <4> QED
        BY <1>2, <3>1, <4>1 DEF Pending, GoesOn
    <3> QED
      BY <1>4, <3>1, <3>2 DEF Unbroken, SkipFragment, AcceptFragment, InTools
  <2> QED
    BY <1>15, <2>1, <2>2
<1>16. CASE ChunkDone
  <2>1. chunks' = chunks /\ pc = "tools" /\ cursor > Len(chunk.calls) /\ primary' = primary
        /\ pc' = "check"
    BY <1>16 DEF ChunkDone
  <2>2. ASSUME NEW r \in Received
        PROVE  ~Pending(r) /\ ~Pending(r)'
    BY <1>1, <1>2, <2>1 DEF Pending, GoesOn, chunk
  <2>3. ~(SkipFragment \/ AcceptFragment)
    BY <2>1 DEF SkipFragment, AcceptFragment, InTools
  <2> QED
    BY <1>4, <2>1, <2>2, <2>3 DEF Unbroken
<1>17. CASE CloseBlocks \/ ConcludeEmpty \/ Conclude
  <2>1. /\ chunks' = chunks /\ pc \in {"close", "conclude"}
        /\ pc' = "done" \/ (pc' = "end" /\ after' = "conclude")
        /\ primary' # primary => primary' \in {"empty", "concat"}
    BY <1>17 DEF CloseBlocks, ConcludeEmpty, Conclude
  <2> QED
    BY <1>4, <2>1 DEF Pending, GoesOn, Unbroken, SkipFragment, AcceptFragment, InTools
<1> QED
  BY <1>5, <1>6, <1>7, <1>8, <1>9, <1>10, <1>11, <1>12, <1>13, <1>14, <1>15, <1>16, <1>17
     DEF Next, TurnStep, Recv, Apply, Finish

(* Arguments spell a set of fragments if they are those, in their order.    *)
Spelled(args, from) ==
    /\ {args[i] : i \in DOMAIN args} = from
    /\ \A i, j \in DOMAIN args : i < j => Before(args[i], args[j])

PartsOf(b) == {r \in Applied : FragmentAt(r).args /\ AddressedTo(FragmentAt(r), b)}

GatherInv ==
    /\ IndexedBack(calls)
    /\ Unbroken => /\ \A r \in Applied : Placed(calls, FragmentAt(r))
                   /\ \A p \in 1..Len(calls.order) :
                         Spelled(calls.order[p].arguments, PartsOf(calls.order[p]))
    /\ pc = "done" /\ result.assistant /\ Unbroken => result.calls = MergedToolCalls(calls.order)

LEMMA GatherInit == Init => GatherInv
<1> SUFFICES ASSUME Init PROVE GatherInv
  OBVIOUS
<1>1. calls.order = <<>> /\ chunks = <<>> /\ pc = "open" /\ calls.indexed = [i \in Indices |-> 0]
  BY DEF Init, NoCalls
<1>2. Received = {}
  BY <1>1 DEF Received
<1> QED
  BY <1>1, <1>2 DEF GatherInv, IndexedBack, Applied

LEMMA SpelledMore ==
    ASSUME NEW args \in Seq(Tokens), NEW from, Spelled(args, from), NEW x,
           \A r \in from : Before(r, x)
    PROVE  Spelled(Append(args, x), from \cup {x})
<1> DEFINE more == Append(args, x)
<1>1. /\ DOMAIN more = 1..(Len(args) + 1) /\ DOMAIN args = 1..Len(args) /\ Len(args) \in Nat
      /\ more[Len(args) + 1] = x /\ \A i \in 1..Len(args) : more[i] = args[i]
  BY DEF more
<1> HIDE DEF more
<1>2. {more[i] : i \in DOMAIN more} = {args[i] : i \in DOMAIN args} \cup {x}
  <2>1. \A i \in DOMAIN more : more[i] \in {args[j] : j \in DOMAIN args} \cup {x}
    BY <1>1
  <2>2. \A j \in DOMAIN args : args[j] \in {more[i] : i \in DOMAIN more}
    BY <1>1
  <2>3. x \in {more[i] : i \in DOMAIN more}
    BY <1>1
  <2> QED
    BY <2>1, <2>2, <2>3
<1>3. \A i, j \in DOMAIN more : i < j => Before(more[i], more[j])
  <2> SUFFICES ASSUME NEW i \in DOMAIN more, NEW j \in DOMAIN more, i < j
               PROVE  Before(more[i], more[j])
    OBVIOUS
  <2>1. i \in DOMAIN args /\ more[i] = args[i] /\ args[i] \in from
    BY <1>1 DEF Spelled
  <2>2. CASE j \in DOMAIN args
    BY <1>1, <2>1, <2>2 DEF Spelled
  <2>3. CASE j = Len(args) + 1
    BY <1>1, <2>1, <2>3
  <2> QED
    BY <1>1, <2>2, <2>3
<1> QED
  BY <1>2, <1>3 DEF Spelled, more

(* The steps that leave the fragments of every buffer alone. *)
LEMMA GatherKept ==
    ASSUME TurnInv, GatherInv, Applied' = Applied,
           \A r \in Received : chunks'[r[1]].calls[r[2]] = FragmentAt(r), Unbroken,
           calls'.indexed = calls.indexed, calls'.byID = calls.byID,
           Len(calls'.order) = Len(calls.order),
           \A p \in 1..Len(calls.order) : /\ calls'.order[p].id = calls.order[p].id
                                          /\ calls'.order[p].index = calls.order[p].index
                                          /\ calls'.order[p].arguments = calls.order[p].arguments
    PROVE  /\ \A r \in Applied' : Placed(calls, FragmentAt(r))'
           /\ \A p \in 1..Len(calls'.order) :
                 Spelled(calls.order[p].arguments, PartsOf(calls.order[p]))'
<1>1. \A r \in Applied : /\ FragmentAt(r)' = FragmentAt(r) /\ FragmentAt(r) \in Fragments
                         /\ Placed(calls, FragmentAt(r))
  BY ReceivedPairs DEF Applied, FragmentAt, GatherInv
<1>2. ASSUME NEW r \in Applied
      PROVE  Placed(calls, FragmentAt(r))'
  <2> DEFINE f == FragmentAt(r)
  <2>1. (f.id # NoID => f.id \in ToolIDs) /\ Placed(calls, f) /\ TablesOK(calls)
    BY <1>1, <1>2 DEF Fragments, ToolID, TurnInv, CallsInv
  <2>2. f.id # NoID => calls.byID[f.id] \in 1..Len(calls.order)
    BY <2>1 DEF Placed, TablesOK, CallTables
  <2> HIDE DEF f
  <2>3. Placed(calls', f)
    BY <2>1, <2>2 DEF Placed
  <2> QED
    BY <1>1, <2>3 DEF f
<1>3. ASSUME NEW p \in 1..Len(calls.order)
      PROVE  Spelled(calls.order[p].arguments, PartsOf(calls.order[p]))'
  <2>1. \A r \in Applied : AddressedTo(FragmentAt(r), calls.order[p])'
                           <=> AddressedTo(FragmentAt(r), calls.order[p])
    BY <1>1, <1>3 DEF AddressedTo
  <2>2. PartsOf(calls.order[p])' = PartsOf(calls.order[p])
    BY <1>1, <2>1 DEF PartsOf
  <2>3. Spelled(calls.order[p].arguments, PartsOf(calls.order[p]))
    BY <1>3 DEF GatherInv
  <2> QED
    BY <1>3, <2>2, <2>3 DEF Spelled
<1> QED
  BY <1>2, <1>3

LEMMA AcceptGather ==
    ASSUME TurnInv, Uninterrupted, PlaceInv, GatherInv, AcceptFragment
    PROVE  GatherInv'
<1> DEFINE found  == WithBuffer(calls, call)
           pos    == Known(found, call)
           before == found.order[pos]
           delta  == IF call.args THEN piece(cursor) ELSE NoDelta
           at     == piece(cursor)
<1>1. /\ TablesOK(calls) /\ IDsClaimed(calls) /\ IndexedBack(calls) /\ CallsInv'
      /\ call \in Fragments /\ Correlatable(call) /\ at \in Tokens
      /\ calls.order \in Seq(Buffers) /\ Len(calls.order) \in Nat
  <2>1. CallsInv'
    BY AcceptInv
  <2>2. call \in Fragments /\ Correlatable(call) /\ at \in Tokens
    BY CallFacts DEF AcceptFragment
  <2>3. TablesOK(calls) /\ IDsClaimed(calls) /\ IndexedBack(calls)
    BY DEF TurnInv, CallsInv, GatherInv
  <2> QED
    BY <2>1, <2>2, <2>3 DEF TablesOK, CallTables
<1>2. TablesOK(calls') /\ IDsClaimed(calls')
  BY <1>1 DEF CallsInv
<1>3. /\ TablesOK(found) /\ pos \in 1..Len(found.order) /\ Len(found.order) \in Nat
      /\ found.order \in Seq(Buffers)
      /\ Len(calls.order) <= Len(found.order)
      /\ \A p \in 1..Len(calls.order) : found.order[p] = calls.order[p]
      /\ \A p \in 1..Len(found.order) :
            p > Len(calls.order) => p = pos /\ found.order[p] = NewBuffer(call.index)
  <2>1. TablesOK(found) /\ pos \in 1..Len(found.order)
    BY <1>1, FoundBuffer
  <2>2. Len(found.order) \in Nat /\ found.order \in Seq(Buffers)
    BY <2>1 DEF TablesOK, CallTables
  <2>3. /\ Len(calls.order) <= Len(found.order)
        /\ \A p \in 1..Len(calls.order) : found.order[p] = calls.order[p]
        /\ \A p \in 1..Len(found.order) :
              p > Len(calls.order) => p = pos /\ found.order[p] = NewBuffer(call.index)
    BY <1>1, FoundPlaces
  <2> QED
    BY <2>1, <2>2, <2>3
<1>4. ~before.ended /\ (pos > Len(calls.order) => before.arguments = <<>>)
  <2>1. CASE pos \in 1..Len(calls.order)
    BY <1>1, <1>3, <2>1, NothingEndedAtCalls DEF AcceptFragment
  <2>2. CASE pos > Len(calls.order)
    BY <1>3, <2>2 DEF NewBuffer
  <2> QED
    BY <1>1, <1>3, <2>1, <2>2
<1>5. PICK b \in Buffers :
        /\ calls' = [Claim(found, call) EXCEPT !.order[pos] = b]
        /\ ~Ambiguous(found, call) /\ before \in Buffers
        /\ b.ended = before.ended /\ b.index = before.index
        /\ b.id = IF before.ended \/ call.id = NoID THEN before.id ELSE call.id
        /\ b.arguments = IF before.ended THEN before.arguments ELSE Join(before.arguments, delta)
  BY StoredBuffer
<1>6. /\ IndexedBack(calls') /\ Placed(calls', call) /\ Known(calls', call) = pos
      /\ Len(calls'.order) = Len(found.order) /\ calls'.order[pos] = b
      /\ \A p \in 1..Len(found.order) : p # pos => calls'.order[p] = found.order[p]
      /\ \A c \in Fragments : Placed(calls, c) =>
            Placed(calls', c) /\ (Correlatable(c) => Known(calls', c) = Known(calls, c))
  <2>1. calls' = [Claim(found, call) EXCEPT !.order[pos] = b] /\ ~Ambiguous(found, call)
    BY <1>5
  <2>2. /\ ~b.ended /\ b.ended = found.order[pos].ended /\ b.index = found.order[pos].index
        /\ b.id = IF call.id = NoID THEN found.order[pos].id ELSE call.id
    BY <1>4, <1>5
  <2>3. found = WithBuffer(calls, call) /\ pos = Known(found, call)
    OBVIOUS
  <2> HIDE DEF found, pos, before
  <2>4. Accepting(calls, call, found, pos, b, calls')
    BY <1>1, <2>1, <2>2, <2>3 DEF Accepting
  <2> QED
    BY <2>4, AcceptedPlaces, Zenon
<1> HIDE DEF found, pos, before
<1>7. primary' = primary /\ pc' = "flush" /\ chunks' = chunks
  BY DEF AcceptFragment
<1> SUFFICES ASSUME Unbroken
             PROVE  /\ \A r \in Applied' : Placed(calls, FragmentAt(r))'
                    /\ \A p \in 1..Len(calls'.order) :
                          Spelled(calls.order[p].arguments, PartsOf(calls.order[p]))'
  BY <1>6, <1>7 DEF GatherInv, Unbroken, IndexedBack
<1>8. /\ Applied' = Applied \cup {at} /\ \A r : FragmentAt(r)' = FragmentAt(r)
      /\ FragmentAt(at) = call
  <2>1. Unbroken' /\ [Next]_vars
    BY <1>7 DEF Unbroken, Next, TurnStep, Apply
  <2> QED
    BY <1>7, <2>1, AppliedNext DEF FragmentAt, call, chunk, piece
<1>9. \A r \in Applied : /\ FragmentAt(r) \in Fragments /\ Placed(calls, FragmentAt(r))
                         /\ Placed(calls', FragmentAt(r))
                         /\ Correlatable(FragmentAt(r)) =>
                               Known(calls', FragmentAt(r)) = Known(calls, FragmentAt(r))
  BY <1>6, ReceivedPairs DEF Applied, GatherInv
<1>10. \A r \in Applied' : Placed(calls, FragmentAt(r))'
  <2>1. \A r \in Applied' : Placed(calls', FragmentAt(r))
    BY <1>6, <1>8, <1>9
  <2> QED
    BY <1>8, <2>1
<1>11. \A f, c : AddressedTo(f, c) => Correlatable(f)
  BY DEF AddressedTo, Correlatable
<1>12. ASSUME NEW p \in 1..Len(calls'.order)
       PROVE  Spelled(calls.order[p].arguments, PartsOf(calls.order[p]))'
  <2> DEFINE parts == {r \in Applied : /\ FragmentAt(r).args /\ Correlatable(FragmentAt(r))
                                       /\ Known(calls, FragmentAt(r)) = p}
  <2>1. \A r \in Applied : AddressedTo(FragmentAt(r), calls'.order[p])
                           <=> Correlatable(FragmentAt(r)) /\ Known(calls, FragmentAt(r)) = p
    BY <1>2, <1>6, <1>9, <1>11, AddressedWhereKnown
  <2>2. AddressedTo(call, calls'.order[p]) <=> p = pos
    BY <1>1, <1>2, <1>6, AddressedWhereKnown
  <2>3. PartsOf(calls.order[p])' = IF p = pos /\ call.args THEN parts \cup {at} ELSE parts
    <3>1. PartsOf(calls.order[p])'
            = {r \in Applied \cup {at} : FragmentAt(r).args /\ AddressedTo(FragmentAt(r), calls'.order[p])}
      BY <1>8 DEF PartsOf
    <3>2. at \in Applied => FragmentAt(at) = call
      BY <1>8
    <3> QED
      BY <1>8, <2>1, <2>2, <3>1
  <2>4. p \in 1..Len(calls.order) => parts = PartsOf(calls.order[p])
    <3> SUFFICES ASSUME p \in 1..Len(calls.order) PROVE parts = PartsOf(calls.order[p])
      OBVIOUS
    <3>1. \A r \in Applied : AddressedTo(FragmentAt(r), calls.order[p])
                             <=> Correlatable(FragmentAt(r)) /\ Known(calls, FragmentAt(r)) = p
      BY <1>1, <1>9, <1>11, AddressedWhereKnown
    <3> QED
      BY <3>1 DEF PartsOf
  <2>5. p > Len(calls.order) => parts = {}
    <3>1. \A r \in Applied : Correlatable(FragmentAt(r)) => Known(calls, FragmentAt(r)) \in 1..Len(calls.order)
      BY <1>1, <1>9, AddressedWhereKnown
    <3> QED
      BY <1>1, <3>1
  <2>6. found.order[p].arguments \in Seq(Tokens) /\ Spelled(found.order[p].arguments, parts)
    <3>1. p \in 1..Len(found.order) /\ found.order[p] \in Buffers
      BY <1>3, <1>6
    <3>2. CASE p \in 1..Len(calls.order)
      <4>1. Spelled(calls.order[p].arguments, PartsOf(calls.order[p]))
        BY <3>2 DEF GatherInv
      <4> QED
        BY <1>3, <2>4, <3>1, <3>2, <4>1 DEF Buffers
    <3>3. CASE p > Len(calls.order)
      <4>1. found.order[p].arguments = <<>>
        BY <1>3, <1>4, <3>1, <3>3 DEF before
      <4> QED
        BY <2>5, <3>3, <4>1 DEF Spelled
    <3> QED
      BY <1>1, <1>3, <3>1, <3>2, <3>3
  <2>7. \A r \in parts : Before(r, at)
    <3> SUFFICES ASSUME NEW r \in parts PROVE Before(r, at)
      OBVIOUS
    <3>1. r \in Received /\ ~Pending(r) /\ pc = "tools"
      BY DEF Applied, AcceptFragment, InTools
    <3>2. r[1] \in 1..Len(chunks) /\ r[2] \in 1..Len(chunks[r[1]].calls)
          /\ Len(chunks[r[1]].calls) \in Nat /\ Len(chunks) \in Nat /\ cursor \in Nat
      BY <3>1, ReceivedPairs DEF TurnInv, ControlInv
    <3>3. r[1] # Len(chunks) \/ ~(r[2] >= cursor)
      BY <3>1 DEF Pending
    <3> QED
      BY <3>2, <3>3 DEF Before, piece
  <2> HIDE DEF parts
  <2>8. CASE p # pos
    <3>1. calls'.order[p] = found.order[p] /\ PartsOf(calls.order[p])' = parts
      BY <1>6, <2>3, <2>8
    <3> QED
      BY <2>6, <3>1 DEF Spelled
  <2>9. CASE p = pos /\ ~call.args
    <3>1. calls'.order[p].arguments = found.order[p].arguments /\ PartsOf(calls.order[p])' = parts
      BY <1>4, <1>5, <1>6, <2>3, <2>9 DEF Join, before
    <3> QED
      BY <2>6, <3>1 DEF Spelled
  <2>10. CASE p = pos /\ call.args
    <3>1. delta = at /\ at # NoDelta
      BY <1>1, <2>10, NoDeltaAssumption
    <3>2. calls'.order[p].arguments = Append(found.order[p].arguments, at)
      BY <1>4, <1>5, <1>6, <2>10, <3>1 DEF Join, before
    <3>3. PartsOf(calls.order[p])' = parts \cup {at}
      BY <2>3, <2>10
    <3>4. Spelled(Append(found.order[p].arguments, at), parts \cup {at})
      BY <2>6, <2>7, SpelledMore
    <3> QED
      BY <3>2, <3>3, <3>4 DEF Spelled
  <2> QED
    BY <2>8, <2>9, <2>10
<1> QED
  BY <1>10, <1>12

LEMMA GatherNext ==
    ASSUME TurnInv, Uninterrupted, PlaceInv, GatherInv, [Next]_vars
    PROVE  GatherInv'
<1>1. calls.order \in Seq(Buffers) /\ calls \in CallTables /\ TablesOK(calls) /\ IDsClaimed(calls)
  BY DEF TurnInv, CallsInv, TablesOK, CallTables
<1>2. ASSUME UNCHANGED calls, ~AcceptFragment, ~SkipFragment, pc' # "done"
      PROVE  GatherInv'
  <2>1. IndexedBack(calls')
    BY <1>2 DEF GatherInv
  <2>2. ASSUME Unbroken'
        PROVE  /\ \A r \in Applied' : Placed(calls, FragmentAt(r))'
               /\ \A p \in 1..Len(calls'.order) :
                     Spelled(calls.order[p].arguments, PartsOf(calls.order[p]))'
    BY <1>2, <2>2, AppliedNext, GatherKept
  <2> QED
    BY <1>2, <2>1, <2>2 DEF GatherInv, IndexedBack
<1>3. CASE Cancel \/ OpenStream \/ CheckRequest \/ Recv \/ CallsEnded \/ FragmentDone \/ ChunkDone
  <2>1. UNCHANGED calls /\ ~AcceptFragment /\ ~SkipFragment /\ pc' # "done"
    <3>1. CASE Cancel
      <4>1. pc # "done" /\ UNCHANGED <<pc, cursor, calls>> /\ cursor \in Nat
        BY <3>1 DEF Cancel, TurnInv, ControlInv
      <4> QED
        BY <4>1 DEF AcceptFragment, SkipFragment, InTools
    <3>2. CASE OpenStream \/ CheckRequest \/ Recv \/ CallsEnded \/ FragmentDone \/ ChunkDone
      BY <3>2 DEF OpenStream, CheckRequest, Recv, RecvEOF, RecvError, RecvChunk, RecvKeepAlive,
                  CallsEnded, FragmentDone, ChunkDone, AcceptFragment, SkipFragment, InTools, Fail,
                  TurnInv, ControlInv
    <3> QED
      BY <1>3, <3>1, <3>2
  <2> QED
    BY <1>2, <2>1
<1>4. CASE ApplyReasoning \/ ApplyText \/ EnsureToolOwner \/ CloseBlocks
  <2>1. UNCHANGED calls /\ ~AcceptFragment /\ ~SkipFragment /\ pc' # "done"
    BY <1>4 DEF ApplyReasoning, ApplyText, EnsureToolOwner, CloseBlocks, AcceptFragment,
                SkipFragment, InTools, Fail
  <2> QED
    BY <1>2, <2>1
<1>5. CASE SkipFragment
  <2>1. /\ UNCHANGED <<calls, chunks, pc, primary>> /\ pc = "tools" /\ ~Correlatable(call)
        /\ FragmentAt(piece(cursor)) = call
    BY <1>5 DEF SkipFragment, InTools, FragmentAt, piece, call, chunk
  <2>2. \A r : FragmentAt(r)' = FragmentAt(r)
    BY <2>1 DEF FragmentAt
  <2>3. ASSUME Unbroken
        PROVE  /\ \A r \in Applied' : Placed(calls, FragmentAt(r))'
               /\ \A p \in 1..Len(calls'.order) :
                     Spelled(calls.order[p].arguments, PartsOf(calls.order[p]))'
    <3>1. Applied' = Applied \cup {piece(cursor)}
      BY <1>5, <2>1, <2>3, AppliedNext DEF Unbroken
    <3>2. Placed(calls, call) /\ \A b : ~AddressedTo(call, b)
      BY <2>1 DEF Placed, AddressedTo, Correlatable
    <3>3. \A r \in Applied' : Placed(calls, FragmentAt(r))
      BY <2>1, <2>3, <3>1, <3>2 DEF GatherInv
    <3>4. \A p \in 1..Len(calls.order) : PartsOf(calls.order[p])' = PartsOf(calls.order[p])
      BY <2>1, <2>2, <3>1, <3>2 DEF PartsOf
    <3> QED
      BY <2>1, <2>2, <2>3, <3>3, <3>4 DEF GatherInv
  <2> QED
    BY <2>1, <2>3 DEF GatherInv, Unbroken, IndexedBack
<1>6. CASE AcceptFragment
  BY <1>6, AcceptGather
<1>7. CASE RefuseFragment
  <2>1. calls' = WithBuffer(calls, call) /\ primary' = "correlation" /\ call \in Fragments /\ Correlatable(call)
    BY <1>7, CallFacts DEF RefuseFragment, Fail
  <2>2. IndexedBack(calls')
    BY <1>1, <2>1, FoundPlaces DEF GatherInv
  <2> QED
    BY <2>1, <2>2 DEF GatherInv, Unbroken, IndexedBack
<1> DEFINE Alike == /\ calls'.indexed = calls.indexed /\ calls'.byID = calls.byID
                    /\ Len(calls'.order) = Len(calls.order)
                    /\ \A p \in 1..Len(calls.order) :
                          /\ calls'.order[p].id = calls.order[p].id
                          /\ calls'.order[p].index = calls.order[p].index
                          /\ calls'.order[p].arguments = calls.order[p].arguments
<1>8. ASSUME EndCall \/ FlushArg
      PROVE  Alike
  <2>1. ASSUME NEW p \in 1..Len(calls.order), NEW b, calls' = [calls EXCEPT !.order[p] = b],
               b.id = calls.order[p].id, b.index = calls.order[p].index,
               b.arguments = calls.order[p].arguments
        PROVE  Alike
    <3>1. calls'.order = [calls.order EXCEPT ![p] = b] /\ calls'.indexed = calls.indexed
          /\ calls'.byID = calls.byID
      BY <1>1, <2>1 DEF CallTables
    <3> QED
      BY <1>1, <2>1, <3>1
  <2>2. CASE EndCall
    <3>1. cursor \in 1..Len(calls.order)
      BY <1>1, <2>2 DEF EndCall, AllEnded, TurnInv, ControlInv
    <3>2. calls.order[cursor] \in Buffers
      BY <1>1, <3>1
    <3> DEFINE b == [calls.order[cursor] EXCEPT !.ended = TRUE]
    <3>3. b.id = calls.order[cursor].id /\ b.index = calls.order[cursor].index
          /\ b.arguments = calls.order[cursor].arguments
      BY <3>2 DEF Buffers
    <3>4. calls' = [calls EXCEPT !.order[cursor] = b]
      BY <2>2 DEF EndCall
    <3> HIDE DEF b
    <3> QED
      BY <2>1, <3>1, <3>3, <3>4
  <2>3. CASE FlushArg
    <3> DEFINE pos == Known(calls, call)
               b   == [calls.order[pos] EXCEPT !.pendingArgs = Tail(@)]
    <3>1. call \in Fragments /\ Correlatable(call) /\ pos # 0
      BY <2>3, CallFacts DEF FlushArg, TurnInv, CallsInv, ControlInv
    <3>2. pos \in 1..Len(calls.order) /\ calls.order[pos] \in Buffers
      BY <1>1, <3>1, KnownType
    <3>3. b.id = calls.order[pos].id /\ b.index = calls.order[pos].index
          /\ b.arguments = calls.order[pos].arguments
      BY <3>2 DEF Buffers
    <3>4. calls' = [calls EXCEPT !.order[pos] = b]
      BY <2>3 DEF FlushArg
    <3> HIDE DEF b, pos
    <3> QED
      BY <2>1, <3>2, <3>3, <3>4
  <2> QED
    BY <1>8, <2>2, <2>3
<1>9. CASE EndCall \/ FlushArg
  <2>1. UNCHANGED <<pc, primary, chunks>> /\ pc \in {"end", "flush"}
    BY <1>9 DEF EndCall, FlushArg
  <2>2. ~AcceptFragment /\ ~SkipFragment
    BY <2>1 DEF AcceptFragment, SkipFragment, InTools
  <2>3. IndexedBack(calls')
    <3>1. \A i \in Indices : calls.indexed[i] \in 0..Len(calls.order)
      BY <1>1 DEF TablesOK
    <3> QED
      <4>1. IndexedBack(calls) /\ calls'.indexed = calls.indexed /\ Len(calls'.order) = Len(calls.order)
        BY <1>8, <1>9 DEF GatherInv
      <4>2. \A p \in 1..Len(calls.order) : calls'.order[p].index = calls.order[p].index
        BY <1>8, <1>9
      <4>3. \A i \in Indices : calls.indexed[i] # 0 => calls.indexed[i] \in 1..Len(calls.order)
        BY <1>1, <3>1 DEF CallTables
      <4> QED
        BY <4>1, <4>2, <4>3 DEF IndexedBack
  <2>4. ASSUME Unbroken'
        PROVE  /\ \A r \in Applied' : Placed(calls, FragmentAt(r))'
               /\ \A p \in 1..Len(calls'.order) :
                     Spelled(calls.order[p].arguments, PartsOf(calls.order[p]))'
    <3>1. Unbroken /\ Applied' = Applied
          /\ \A r \in Received : chunks'[r[1]].calls[r[2]] = FragmentAt(r)
      BY <2>2, <2>4, AppliedNext
    <3> QED
      BY <1>8, <1>9, <3>1, GatherKept
  <2> QED
    BY <2>1, <2>3, <2>4 DEF GatherInv, IndexedBack
<1>10. CASE UNCHANGED vars \/ Returned \/ OpenFails \/ ConcludeEmpty \/ Conclude
  <2>1. UNCHANGED <<calls, chunks>> /\ ~AcceptFragment /\ ~SkipFragment
    <3>1. UNCHANGED <<calls, chunks, cursor>> /\ cursor \in Nat
      BY <1>10 DEF vars, Returned, OpenFails, ConcludeEmpty, Conclude, TurnInv, ControlInv
    <3>2. pc' = pc \/ pc' = "done"
      BY <1>10 DEF vars, Returned, OpenFails, ConcludeEmpty, Conclude
    <3> QED
      BY <3>1, <3>2 DEF AcceptFragment, SkipFragment, InTools
  <2>2. pc' = "done" /\ result'.assistant /\ Unbroken' => result'.calls = MergedToolCalls(calls.order)
    <3>1. CASE UNCHANGED vars \/ Returned
      BY <3>1 DEF vars, Returned, GatherInv, Unbroken
    <3>2. CASE OpenFails \/ ConcludeEmpty
      <4>1. result = NotReturned
        BY <3>2 DEF OpenFails, ConcludeEmpty, TurnInv, ReturnInv
      <4>2. result'.assistant = FALSE
        <5>1. CASE OpenFails
          BY <4>1, <5>1 DEF OpenFails, NotReturned
        <5>2. CASE ConcludeEmpty
          BY <5>2, Zenon DEF ConcludeEmpty, NotReturned
        <5> QED
          BY <3>2, <5>1, <5>2
      <4> QED
        BY <4>2
    <3>3. CASE Conclude
      <4>1. PICK concat \in BOOLEAN :
              /\ primary' = IF ~concat /\ primary = "none" THEN "concat" ELSE primary
              /\ result' = [returned |-> TRUE, assistant |-> concat,
                            calls |-> ResponseCalls(concat), partial |-> primary' # "none"]
        BY <3>3 DEF Conclude
      <4>2. result'.calls = ResponseCalls(concat) /\ result'.assistant = concat
        BY <4>1, Zenon
      <4>3. Unbroken' => primary # "correlation"
        BY <4>1 DEF Unbroken
      <4> QED
        BY <4>2, <4>3 DEF ResponseCalls
    <3> QED
      BY <1>10, <3>1, <3>2, <3>3
  <2>3. ASSUME Unbroken'
        PROVE  /\ \A r \in Applied' : Placed(calls, FragmentAt(r))'
               /\ \A p \in 1..Len(calls'.order) :
                     Spelled(calls.order[p].arguments, PartsOf(calls.order[p]))'
    BY <2>1, <2>3, AppliedNext, GatherKept
  <2> QED
    BY <2>1, <2>2, <2>3 DEF GatherInv, IndexedBack
<1> QED
  BY <1>3, <1>4, <1>5, <1>6, <1>7, <1>9, <1>10 DEF Next, TurnStep, Apply, Finish

LEMMA GatherAlways ==
    ASSUME LiveResume = FALSE
    PROVE  Spec => [](TurnInv /\ PlaceInv /\ GatherInv)
<1>1. TurnInv /\ Uninterrupted /\ PlaceInv /\ GatherInv /\ [Next]_vars => PlaceInv' /\ GatherInv'
  BY PlaceNext, GatherNext
<1> QED
  BY <1>1, UninterruptedAlways, PlaceInit, GatherInit, PTL DEF Spec

(* A turn that consumed its whole stream without an error met no index with *)
(* two ids and no id under two indices: correlateToolCall refuses every     *)
(* clash, whatever its order, from a provider that does not resume calls.   *)
THEOREM ClashesAreRefused ==
    ASSUME LiveResume = FALSE
    PROVE  Spec => []AmbiguityDetected
<1>1. TurnInv /\ PlaceInv /\ GatherInv => AmbiguityDetected
  <2> SUFFICES ASSUME TurnInv, GatherInv, pc = "done", primary = "none",
                      NEW r \in Received, NEW s \in Received, Clash(FragmentAt(r), FragmentAt(s))
               PROVE  FALSE
    BY DEF AmbiguityDetected
  <2> DEFINE f == FragmentAt(r)
             g == FragmentAt(s)
  <2>1. r \in Applied /\ s \in Applied
    BY DEF Applied, Pending, GoesOn
  <2>2. Placed(calls, f) /\ Placed(calls, g) /\ f \in Fragments /\ g \in Fragments /\ IndexedBack(calls)
    BY <2>1, ReceivedPairs DEF GatherInv, Unbroken
  <2> HIDE DEF f, g
  <2>3. /\ f.index # NoIndex /\ g.index # NoIndex /\ f.id # NoID /\ g.id # NoID
        /\ (f.index = g.index) # (f.id = g.id)
    BY DEF Clash, f, g
  <2>4. f.index \in Indices /\ g.index \in Indices
    BY <2>2, <2>3 DEF Fragments, Index
  <2>5. /\ calls.byID[f.id] = calls.indexed[f.index] /\ calls.order[calls.byID[f.id]].id = f.id
        /\ calls.byID[g.id] = calls.indexed[g.index] /\ calls.order[calls.byID[g.id]].id = g.id
        /\ calls.order[calls.indexed[f.index]].index = f.index
        /\ calls.order[calls.indexed[g.index]].index = g.index
    BY <2>2, <2>3, <2>4 DEF Placed, IndexedBack
  <2> QED
    BY <2>3, <2>5
<1> QED
  BY <1>1, GatherAlways, PTL

(* The response has for each call the argument text of every fragment       *)
(* addressed to it, once and in order of arrival: concatenation of the      *)
(* merged buffers loses, repeats and reorders nothing.                      *)
THEOREM ResponseIsComplete ==
    ASSUME LiveResume = FALSE
    PROVE  Spec => []ResponseKeepsArguments
<1>1. TurnInv /\ PlaceInv /\ GatherInv => ResponseKeepsArguments
  <2> SUFFICES ASSUME TurnInv, GatherInv, pc = "done", result.assistant,
                      primary \in {"none", "cancelled", "provider"}, NEW p \in DOMAIN buffers
               PROVE  LET args == result.calls[p].arguments IN
                      /\ {args[i] : i \in DOMAIN args} =
                           {r \in Received : FragmentAt(r).args /\ AddressedTo(FragmentAt(r), buffers[p])}
                      /\ \A i, j \in DOMAIN args : i < j => Before(args[i], args[j])
    BY DEF ResponseKeepsArguments
  <2>1. p \in 1..Len(calls.order) /\ result.calls[p].arguments = calls.order[p].arguments
    BY DEF buffers, GatherInv, Unbroken, MergedToolCalls, TurnInv, CallsInv, TablesOK, CallTables
  <2>2. Applied = Received
    BY DEF Applied, Pending, GoesOn
  <2>3. Spelled(calls.order[p].arguments, PartsOf(calls.order[p]))
    BY <2>1 DEF GatherInv, Unbroken
  <2> QED
    BY <2>1, <2>2, <2>3 DEF Spelled, PartsOf, buffers
<1> QED
  BY <1>1, GatherAlways, PTL
=============================================================================
