------------------------------ MODULE ToolCalls ------------------------------
(***************************************************************************)
(* Correlation of streamed tool-call fragments (stream/tool_calls.go).     *)
(*                                                                         *)
(* A provider splits one tool call over many chunks.  A fragment names its *)
(* call by an index, by an id, or by both; the first fragments of a call   *)
(* may lack the id or the name.  Fragments are gathered in buffers, found  *)
(* through two maps.  A pointer to a buffer is modelled by the buffer's    *)
(* position in toolOrder; position 0 is the nil pointer.                   *)
(***************************************************************************)
EXTENDS Emitter, Selection

CONSTANTS
    Indices,   \* the fragment indices a provider uses
    NoIndex    \* a fragment without one

ASSUME NoIndexAssumption == NoIndex \notin Indices

Index == Indices \cup {NoIndex}

(* A fragment as received: args says whether it carries argument text. *)
Fragments == [index : Index, id : ToolID, name : Name, args : BOOLEAN]

(* Fragments the turn can attribute to some call; the others are skipped.  *)
Correlatable(call) == call.index # NoIndex \/ call.id # NoID

Buffers ==
    [index : Index, id : ToolID, name : Name,
     arguments : Seq(Tokens), pendingArgs : Seq(Tokens), started : BOOLEAN, ended : BOOLEAN]

NewBuffer(index) ==
    [index |-> index, id |-> NoID, name |-> NoName,
     arguments |-> <<>>, pendingArgs |-> <<>>, started |-> FALSE, ended |-> FALSE]

(* What the turn knows of its calls: toolOrder, indexed and byID. *)
CallTables == [order : Seq(Buffers), indexed : [Indices -> Nat], byID : [ToolIDs -> Nat]]

NoCalls ==
    [order |-> <<>>, indexed |-> [i \in Indices |-> 0], byID |-> [c \in ToolIDs |-> 0]]

-----------------------------------------------------------------------------
(* correlateToolCall: find or make the fragment's buffer, then refuse an    *)
(* identity that contradicts what is known.  A buffer made for a refused    *)
(* fragment stays in toolOrder.                                             *)

Known(calls, call) ==
    IF call.index # NoIndex THEN calls.indexed[call.index] ELSE calls.byID[call.id]

WithBuffer(calls, call) ==
    IF Known(calls, call) # 0 THEN calls
    ELSE LET grown == [calls EXCEPT !.order = Append(@, NewBuffer(call.index))]
             pos   == Len(calls.order) + 1
         IN  IF call.index # NoIndex THEN [grown EXCEPT !.indexed[call.index] = pos]
             ELSE [grown EXCEPT !.byID[call.id] = pos]

(* calls already holds the fragment's buffer. *)
(* The mutants of the two tests do not make them. *)
NeverChanged(calls, call) == FALSE
ChangedID(calls, call) ==
    LET id == calls.order[Known(calls, call)].id
    IN  call.index # NoIndex /\ call.id # NoID /\ id # NoID /\ id # call.id

NeverClaimed(calls, call) == FALSE
ClaimedTwice(calls, call) ==
    call.index # NoIndex /\ call.id # NoID
        /\ calls.byID[call.id] \notin {0, Known(calls, call)}

Ambiguous(calls, call) == ChangedID(calls, call) \/ ClaimedTwice(calls, call)

Claim(calls, call) ==
    IF call.id = NoID THEN calls ELSE [calls EXCEPT !.byID[call.id] = Known(calls, call)]

-----------------------------------------------------------------------------
(* toolCallBuffer.update merges a fragment unless the call has ended; what  *)
(* it then emits is the turn's AcceptFragment action.  piece is the argument*)
(* text, "" included.                                                       *)

(* Mutant: the empty delta is appended as well. *)
JoinAlways(text, piece) == Append(text, piece)
Join(text, piece) == IF piece = NoDelta THEN text ELSE Append(text, piece)

(* Mutants: arguments replace the earlier ones; a started call stops merging. *)
MergeLast(buffer, call, piece) ==
    IF buffer.ended THEN buffer
    ELSE [buffer EXCEPT !.id        = IF call.id # NoID THEN call.id ELSE @,
                        !.name      = IF call.name # NoName THEN call.name ELSE @,
                        !.arguments = IF piece = NoDelta THEN @ ELSE <<piece>>]
MergeUntilStarted(buffer, call, piece) ==
    IF buffer.ended \/ buffer.started THEN buffer
    ELSE [MergeLast(buffer, call, piece) EXCEPT !.arguments = Join(buffer.arguments, piece)]

Merge(buffer, call, piece) ==
    IF buffer.ended THEN buffer
    ELSE [buffer EXCEPT !.id        = IF call.id # NoID THEN call.id ELSE @,
                        !.name      = IF call.name # NoName THEN call.name ELSE @,
                        !.arguments = Join(@, piece)]

(* Mutant: postponed arguments are kept newest first. *)
PostponeFirst(buffer, piece) ==
    IF piece = NoDelta THEN buffer ELSE [buffer EXCEPT !.pendingArgs = <<piece>> \o @]
Postpone(buffer, piece) == [buffer EXCEPT !.pendingArgs = Join(@, piece)]

(* The condition of startIfReady, for a live call. *)
Ready(buffer) == ~buffer.started /\ buffer.id # NoID /\ buffer.name # NoName

(* mergedToolCalls, and convert.ToAGUIToolCalls of it: calls without an id  *)
(* are dropped, for no AG-UI event could refer to them.                     *)
MergedCall   == [id : ToolID, name : Name, arguments : Seq(Tokens)]
ReferredCall == [id : ToolIDs, name : Name, arguments : Seq(Tokens)]

MergedToolCalls(order) ==
    [i \in DOMAIN order |->
        [id |-> order[i].id, name |-> order[i].name, arguments |-> order[i].arguments]]

ToAGUIToolCalls(merged) == Selected(merged, ReferredCall)
=============================================================================
