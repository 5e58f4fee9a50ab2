------------------------------- MODULE Emitter -------------------------------
(***************************************************************************)
(* The AG-UI emitter (emitter/emitter.go) as operators on a record.        *)
(*                                                                         *)
(* An emitter turns typed helper calls into AG-UI frames on one SSE        *)
(* writer.  It remembers the text and reasoning blocks its own helpers     *)
(* opened, and the tool calls that were started and ended, so that a tool  *)
(* frame never lands inside a block and no call has two lifecycles.  A     *)
(* transport error is final: the run is cancelled once and every later     *)
(* call is a no-op.  A rejected event only drops that frame.               *)
(*                                                                         *)
(* The module has no variables: EmitterSpec drives one emitter with every  *)
(* legal sequence of calls, StreamTurn drives one from a model stream.     *)
(***************************************************************************)
EXTENDS Naturals, Sequences, FiniteSets

CONSTANTS
    ToolIDs,       \* the non-empty tool-call ids
    Names,         \* the non-empty function names
    Tokens,        \* the non-empty pieces of text a delta can carry
    EmptyContent,  \* the "(empty)" that replaces an empty tool result
    NoID,          \* the empty tool-call id
    NoName,        \* the empty function name
    NoDelta        \* the empty delta

ASSUME NoIDAssumption    == NoID \notin ToolIDs
ASSUME NoNameAssumption  == NoName \notin Names
ASSUME NoDeltaAssumption == NoDelta \notin Tokens /\ NoDelta # EmptyContent

(***************************************************************************)
(* Message ids are numbered in the order they are generated; 0 is "".      *)
(***************************************************************************)
NoMessage == 0
Messages  == Nat \ {NoMessage}

ToolID == ToolIDs \cup {NoID}
Name   == Names \cup {NoName}
Delta  == Tokens \cup {EmptyContent, NoDelta}

BlockTypes ==
    {"TEXT_START", "TEXT_CONTENT", "TEXT_END",
     "REASONING_START", "REASONING_MESSAGE_START", "REASONING_CONTENT",
     "REASONING_MESSAGE_END", "REASONING_END"}
CallTypes  == {"TOOL_CALL_START", "TOOL_CALL_ARGS", "TOOL_CALL_END"}
ToolTypes  == CallTypes \cup {"TOOL_CALL_RESULT"}
RunTypes   == {"RUN_STARTED", "RUN_FINISHED", "RUN_ERROR"}
OtherTypes == {"EVENT", "PATCH"} \cup RunTypes
FrameTypes == BlockTypes \cup ToolTypes \cup OtherTypes

(***************************************************************************)
(* A frame as a client sees it.  msg is the message id of a block frame,   *)
(* the parent message of a TOOL_CALL_START (0: none), or the message of a  *)
(* TOOL_CALL_RESULT.  An EVENT stands for the step, subagent, snapshot and *)
(* custom events, for the ones a caller builds itself, and for the events  *)
(* of a run where nothing depends on which one it is; a PATCH for a        *)
(* STATE_DELTA or ACTIVITY_DELTA.                                          *)
(***************************************************************************)
Frames == [type : FrameTypes, msg : Nat, call : ToolID, name : Name, delta : Delta]

OtherFrame(type) ==
    [type |-> type, msg |-> NoMessage, call |-> NoID, name |-> NoName, delta |-> NoDelta]

BlockFrame(type, id, delta) ==
    [type |-> type, msg |-> id, call |-> NoID, name |-> NoName, delta |-> delta]

CallFrame(type, call, delta) ==
    [type |-> type, msg |-> NoMessage, call |-> call, name |-> NoName, delta |-> delta]

(***************************************************************************)
(* The emitter.  script holds what the SSE writer will do with the next    *)
(* events handed to it: write them, reject them while encoding, or fail in *)
(* transport; when it runs out every event is written.  wire is what the   *)
(* client received and cancels counts the calls of the cancel function.    *)
(***************************************************************************)
Outcomes == {"written", "rejected", "broken"}

EmitterType ==
    [err                    : BOOLEAN,
     encErr                 : BOOLEAN,
     cancels                : Nat,
     openTextID             : Nat,
     openReasoningID        : Nat,
     openReasoningMessageID : Nat,
     startedToolCalls       : SUBSET ToolIDs,
     endedToolCalls         : SUBSET ToolIDs,
     script                 : Seq(Outcomes),
     wire                   : Seq(Frames)]

NewEmitter(script) ==
    [err |-> FALSE, encErr |-> FALSE, cancels |-> 0,
     openTextID |-> NoMessage, openReasoningID |-> NoMessage,
     openReasoningMessageID |-> NoMessage,
     startedToolCalls |-> {}, endedToolCalls |-> {},
     script |-> script, wire |-> <<>>]

(***************************************************************************)
(* The SDK's validation: an event about a message needs a message id.      *)
(***************************************************************************)
Valid(frame) == frame.type \in BlockTypes \cup {"TOOL_CALL_RESULT"} => frame.msg # NoMessage

(* What sse.WriteEvent answers for a frame. *)
WriteEvent(e, frame) ==
    IF ~Valid(frame) THEN "rejected"
    ELSE IF e.script = <<>> THEN "written" ELSE Head(e.script)

RestOfScript(e, frame) ==
    IF ~Valid(frame) \/ e.script = <<>> THEN e.script ELSE Tail(e.script)

(* The boolean Emit returns. *)
Wrote(e, frame) == ~e.err /\ WriteEvent(e, frame) = "written"

(* Mutants of Emit: a failure does not stop it; a rejection cancels too.    *)
EmitPastError(e, frame) ==
    LET outcome == WriteEvent(e, frame)
    IN  [e EXCEPT !.script  = RestOfScript(e, frame),
                  !.wire    = IF outcome = "written" THEN Append(@, frame) ELSE @,
                  !.err     = @ \/ outcome = "broken",
                  !.encErr  = @ \/ outcome = "rejected",
                  !.cancels = IF outcome = "broken" THEN @ + 1 ELSE @]

EmitCancelsOnReject(e, frame) ==
    IF e.err THEN e
    ELSE LET outcome == WriteEvent(e, frame)
         IN  [EmitPastError(e, frame) EXCEPT
                  !.cancels = IF outcome # "written" THEN e.cancels + 1 ELSE e.cancels]

Emit(e, frame) ==
    IF e.err THEN e
    ELSE LET outcome == WriteEvent(e, frame)
         IN  [e EXCEPT !.script  = RestOfScript(e, frame),
                       !.wire    = IF outcome = "written" THEN Append(@, frame) ELSE @,
                       !.err     = outcome = "broken",
                       !.encErr  = @ \/ outcome = "rejected",
                       !.cancels = IF outcome = "broken" THEN @ + 1 ELSE @]

EmitNil(e) == IF e.err THEN e ELSE [e EXCEPT !.encErr = TRUE]

-----------------------------------------------------------------------------
(* Text and reasoning blocks. *)

TextStart(e, id) ==
    LET frame == BlockFrame("TEXT_START", id, NoDelta)
        sent  == Emit(e, frame)
    IN  IF id # NoMessage /\ Wrote(e, frame) THEN [sent EXCEPT !.openTextID = id] ELSE sent

TextContent(e, id, delta) ==
    IF delta = NoDelta THEN e ELSE Emit(e, BlockFrame("TEXT_CONTENT", id, delta))

TextEnd(e, id) ==
    LET sent == Emit(e, BlockFrame("TEXT_END", id, NoDelta))
    IN  IF sent.openTextID = id THEN [sent EXCEPT !.openTextID = NoMessage] ELSE sent

ReasoningStart(e, id) ==
    LET frame == BlockFrame("REASONING_START", id, NoDelta)
        sent  == Emit(e, frame)
    IN  IF id # NoMessage /\ Wrote(e, frame) THEN [sent EXCEPT !.openReasoningID = id] ELSE sent

ReasoningMessageStart(e, id) ==
    LET frame == BlockFrame("REASONING_MESSAGE_START", id, NoDelta)
        sent  == Emit(e, frame)
    IN  IF id # NoMessage /\ Wrote(e, frame)
        THEN [sent EXCEPT !.openReasoningMessageID = id] ELSE sent

ReasoningContent(e, id, delta) ==
    IF delta = NoDelta THEN e ELSE Emit(e, BlockFrame("REASONING_CONTENT", id, delta))

ReasoningMessageEnd(e, id) ==
    LET sent == Emit(e, BlockFrame("REASONING_MESSAGE_END", id, NoDelta))
    IN  IF sent.openReasoningMessageID = id
        THEN [sent EXCEPT !.openReasoningMessageID = NoMessage] ELSE sent

ReasoningEnd(e, id) ==
    LET sent == Emit(e, BlockFrame("REASONING_END", id, NoDelta))
    IN  IF sent.openReasoningID = id THEN [sent EXCEPT !.openReasoningID = NoMessage] ELSE sent

-----------------------------------------------------------------------------
(* A tool frame first closes the blocks the helpers have open. *)

CloseOpenText(e) ==
    IF e.openTextID = NoMessage THEN e
    ELSE Emit([e EXCEPT !.openTextID = NoMessage],
              BlockFrame("TEXT_END", e.openTextID, NoDelta))

CloseOpenReasoningMessage(e) ==
    IF e.openReasoningMessageID = NoMessage THEN e
    ELSE Emit([e EXCEPT !.openReasoningMessageID = NoMessage],
              BlockFrame("REASONING_MESSAGE_END", e.openReasoningMessageID, NoDelta))

CloseOpenReasoning(e) ==
    IF e.openReasoningID = NoMessage THEN e
    ELSE Emit([e EXCEPT !.openReasoningID = NoMessage],
              BlockFrame("REASONING_END", e.openReasoningID, NoDelta))

(* Mutants of CloseOpenBlocks: one kind of block is forgotten. *)
CloseAllButReasoningMessage(e) == CloseOpenReasoning(CloseOpenText(e))
CloseAllButText(e) == CloseOpenReasoning(CloseOpenReasoningMessage(e))

CloseOpenBlocks(e) == CloseOpenReasoning(CloseOpenReasoningMessage(CloseOpenText(e)))

-----------------------------------------------------------------------------
(* Tool calls. *)

ToolStarted(e, call) == call \in e.startedToolCalls
ToolEnded(e, call)   == call \in e.endedToolCalls

(* Mutant: WithParentMessageID is left out. *)
OrphanStartFrame(call, name, parent) ==
    [type |-> "TOOL_CALL_START", msg |-> NoMessage, call |-> call, name |-> name, delta |-> NoDelta]

ToolStartFrame(call, name, parent) ==
    [type |-> "TOOL_CALL_START", msg |-> parent, call |-> call, name |-> name, delta |-> NoDelta]

(* Mutant: the empty id is not refused. *)
ToolStartAnyID(e, call, name, parent) ==
    LET closed == CloseOpenBlocks(e)
        frame  == ToolStartFrame(call, name, parent)
    IN  IF name # NoName /\ ~ToolStarted(e, call) /\ Wrote(closed, frame)
        THEN [Emit(closed, frame) EXCEPT !.startedToolCalls = @ \cup {call}] ELSE closed

ToolStart(e, call, name, parent) ==
    IF call = NoID \/ name = NoName THEN e
    ELSE LET closed == CloseOpenBlocks(e)
             frame  == ToolStartFrame(call, name, parent)
             sent   == Emit(closed, frame)
         IN  IF ToolStarted(e, call) \/ ToolEnded(e, call) THEN closed
             ELSE IF Wrote(closed, frame)
                  THEN [sent EXCEPT !.startedToolCalls = @ \cup {call}] ELSE sent

(* Mutant: arguments are still sent after the end. *)
ToolArgsAfterEnd(e, call, delta) ==
    IF call = NoID \/ delta = NoDelta \/ ~ToolStarted(e, call) THEN e
    ELSE Emit(CloseOpenBlocks(e), CallFrame("TOOL_CALL_ARGS", call, delta))

ToolArgs(e, call, delta) ==
    IF call = NoID \/ delta = NoDelta \/ ~ToolStarted(e, call) \/ ToolEnded(e, call) THEN e
    ELSE Emit(CloseOpenBlocks(e), CallFrame("TOOL_CALL_ARGS", call, delta))

(* Mutant: a call counts as ended even if its END was not written. *)
ToolEndUnchecked(e, call) ==
    IF call = NoID \/ ~ToolStarted(e, call) \/ ToolEnded(e, call) THEN e
    ELSE [Emit(CloseOpenBlocks(e), CallFrame("TOOL_CALL_END", call, NoDelta))
            EXCEPT !.endedToolCalls = @ \cup {call}]

ToolEnd(e, call) ==
    IF call = NoID \/ ~ToolStarted(e, call) \/ ToolEnded(e, call) THEN e
    ELSE LET closed == CloseOpenBlocks(e)
             frame  == CallFrame("TOOL_CALL_END", call, NoDelta)
             sent   == Emit(closed, frame)
         IN  IF Wrote(closed, frame) THEN [sent EXCEPT !.endedToolCalls = @ \cup {call}] ELSE sent

ToolResult(e, msg, call, content) ==
    IF call = NoID THEN e
    ELSE Emit(CloseOpenBlocks(e),
              [type |-> "TOOL_CALL_RESULT", msg |-> msg, call |-> call, name |-> NoName,
               delta |-> IF content = NoDelta THEN EmptyContent ELSE content])

-----------------------------------------------------------------------------
(* The helpers that only build an event, and the deltas that skip "no ops". *)

SendEvent(e) == Emit(e, OtherFrame("EVENT"))

RunStarted(e)         == Emit(e, OtherFrame("RUN_STARTED"))
RunFinishedSuccess(e) == Emit(e, OtherFrame("RUN_FINISHED"))
RunError(e)           == Emit(e, OtherFrame("RUN_ERROR"))

SendPatch(e, empty) == IF empty THEN e ELSE Emit(e, OtherFrame("PATCH"))
=============================================================================
