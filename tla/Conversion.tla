------------------------------ MODULE Conversion ------------------------------
(***************************************************************************)
(* The conversions between AG-UI and Eino messages (convert/convert.go),   *)
(* the deep copies under them (internal/protocolmeta) and the scrubbing of *)
(* a snapshot (emitter.MessagesSnapshot), as functions on values.          *)
(*                                                                         *)
(* Whatever Go shares by reference - a map, a slice, the target of a       *)
(* pointer - carries the place it lives at, so that a copy can be told     *)
(* from an alias: a place is a sequence, <<>> for what has none, and the   *)
(* converted copy of place p at Append(p, 0).  Text is the sequence of its *)
(* non-empty fragments; the newlines between them are left out.            *)
(***************************************************************************)
EXTENDS SequencesExt, Naturals

CONSTANTS NoID, NoSubagent    \* the empty tool-call id and subagentRunId

Fresh(place) == IF place = <<>> THEN place ELSE Append(place, 0)

(***************************************************************************)
(* A Go value: kind "nil", "scalar", "map", "slice", "pointer", "array" or *)
(* "struct", with the values it holds; arrays and structs have no place of *)
(* their own.  Metadata is a map or nil.                                   *)
(***************************************************************************)
Nil == [kind |-> "nil", at |-> <<>>, holds |-> <<>>]

(* Mutant: only the outermost map is copied. *)
ShallowClone(v) == [v EXCEPT !.at = Fresh(@)]

(* A struct is returned as it is, with whatever its fields refer to.        *)
RECURSIVE Clone(_)
Clone(v) ==
    IF v.kind \in {"map", "slice", "pointer", "array"}
    THEN [v EXCEPT !.at = Fresh(@), !.holds = [i \in DOMAIN @ |-> Clone(@[i])]]
    ELSE v

(* The places of a value, but for what its structs refer to. *)
RECURSIVE PlacesOf(_)
PlacesOf(v) ==
    IF v.kind = "struct" THEN {}
    ELSE {v.at} \cup UNION {PlacesOf(v.holds[i]) : i \in DOMAIN v.holds}

(* What a value looks like wherever it lives. *)
RECURSIVE Look(_)
Look(v) == <<v.kind, [i \in DOMAIN v.holds |-> Look(v.holds[i])]>>

-----------------------------------------------------------------------------
(* Tool calls.  secret is the encrypted value: a pointer to a string, which *)
(* may be empty, or nil.  On the Eino side metadata and secret travel in    *)
(* the envelope of Extra; one of the wrong shape reads as an absent one.    *)

Call(id, metadata, secret) == [id |-> id, metadata |-> metadata, secret |-> secret]

CallList(at, list) == [at |-> at, list |-> list]
NoCallList == CallList(<<>>, <<>>)

(* Mutant: the pointer itself is kept. *)
SamePointer(v) == v
CopyOfString(v) == Clone(v)

Converted(c) == Call(c.id, Clone(c.metadata), CopyOfString(c.secret))

(* Both directions: a call without an id is dropped, no list is left of none. *)
ConvertedCalls(calls) ==
    LET list == SelectSeq(calls.list, LAMBDA c : c.id # NoID)
    IN  IF list = <<>> THEN NoCallList
        ELSE CallList(Fresh(calls.at), [i \in DOMAIN list |-> Converted(list[i])])

ToEinoToolCalls(calls) == ConvertedCalls(calls)
ToAGUIToolCalls(calls) == ConvertedCalls(calls)

-----------------------------------------------------------------------------
(* From AG-UI.  Content is a string or a list of parts; a part is a text or *)
(* an image, whose data is held by a Source, by the part, or missing.       *)

TextOf(parts) == FlattenSeq([i \in DOMAIN parts |-> parts[i].text])

MessageText(m) == IF m.parts = <<>> THEN m.text ELSE TextOf(m.parts)

ImageKinds == {"url", "data"}
Image(place) == [text |-> <<>>, image |-> place]

(* The address of Source.Value, or of a field of the local copy of the part.*)
ToEinoImagePart(p) ==
    IF p.type = "image" /\ p.source # "none" /\ p.kind \in ImageKinds
    THEN <<Image(IF p.source = "Source" THEN p.at ELSE Fresh(p.at))>> ELSE <<>>

ToEinoPart(p) ==
    IF p.type = "text" THEN IF p.text = <<>> THEN <<>> ELSE <<[text |-> p.text, image |-> <<>>]>>
    ELSE ToEinoImagePart(p)

Eino(role, text, parts, calls, toolCallID) ==
    [role |-> role, text |-> text, parts |-> parts, calls |-> calls, toolCallID |-> toolCallID,
     metadata |-> Nil, subagent |-> NoSubagent]

(* Mutant: the envelope of a message without metadata is left out. *)
EnvelopeNeedsMetadata(msg, m) ==
    IF m.metadata = Nil THEN msg
    ELSE [msg EXCEPT !.metadata = Clone(m.metadata), !.subagent = m.subagent]
WithMessageEnvelope(msg, m) ==
    [msg EXCEPT !.metadata = Clone(m.metadata), !.subagent = m.subagent]

ToEinoUserMessage(m) ==
    LET parts  == FlattenSeq([i \in DOMAIN m.parts |-> ToEinoPart(m.parts[i])])
        images == \E i \in DOMAIN parts : parts[i].image # <<>>
    IN  IF images THEN <<Eino("user", <<>>, parts, NoCallList, NoID)>>
        ELSE IF MessageText(m) = <<>> THEN <<>>
        ELSE <<Eino("user", MessageText(m), <<>>, NoCallList, NoID)>>

(* Roles the model has no use for are dropped, and so are empty prompts. *)
ToEinoMessage(m, vision) ==
    LET plain(role) == IF MessageText(m) = <<>> THEN <<>>
                       ELSE <<Eino(role, MessageText(m), <<>>, NoCallList, NoID)>>
        body == CASE m.role = "user" -> IF vision THEN ToEinoUserMessage(m) ELSE plain("user")
                  [] m.role \in {"system", "developer"} -> plain("system")
                  [] m.role = "assistant" ->
                         <<Eino("assistant", m.text, <<>>, ToEinoToolCalls(m.calls), NoID)>>
                  [] m.role = "tool" -> <<Eino("tool", m.text, <<>>, NoCallList, m.toolCallID)>>
                  [] OTHER -> <<>>
    IN  [i \in DOMAIN body |-> WithMessageEnvelope(body[i], m)]

ToEinoMessages(in, vision) == FlattenSeq([i \in DOMAIN in |-> ToEinoMessage(in[i], vision)])

-----------------------------------------------------------------------------
(* Back to AG-UI: an id is generated for every message, kept or not. *)

ToAGUIMessage(e, id) ==
    [id |-> id, role |-> e.role, text |-> e.text, parts |-> <<>>,
     calls      |-> IF e.role = "assistant" THEN ToAGUIToolCalls(e.calls) ELSE NoCallList,
     toolCallID |-> IF e.role = "tool" THEN e.toolCallID ELSE NoID,
     metadata   |-> Clone(e.metadata), subagent |-> e.subagent, secret |-> FALSE]

ToAGUIMessages(msgs, nextID) ==
    SelectSeq([i \in DOMAIN msgs |-> ToAGUIMessage(msgs[i], nextID + i - 1)],
              LAMBDA m : m.role \in {"system", "user", "assistant", "tool"})

-----------------------------------------------------------------------------
(* MessagesSnapshot: the messages that go out, and the places written to    *)
(* while their secrets are removed.                                         *)

HasEncryptedToolCall(calls) == \E i \in DOMAIN calls.list : calls.list[i].secret # Nil

(* Mutants: only the messages' own secrets count; the calls are not copied. *)
HasOwnSecret(msgs)  == \E i \in DOMAIN msgs : msgs[i].secret
NeedsScrub(msgs)    ==
    \E i \in DOMAIN msgs : msgs[i].secret \/ HasEncryptedToolCall(msgs[i].calls)

InPlace(calls)   == calls
CopyCalls(calls) == IF calls.list = <<>> THEN calls ELSE [calls EXCEPT !.at = Append(@, 1)]

ScrubMessage(m) ==
    LET calls == CopyCalls(m.calls)
    IN  [m EXCEPT !.secret = FALSE,
                  !.calls = [calls EXCEPT !.list = [i \in DOMAIN @ |-> [@[i] EXCEPT !.secret = Nil]]]]

Scrub(msgs) == IF NeedsScrub(msgs) THEN [i \in DOMAIN msgs |-> ScrubMessage(msgs[i])] ELSE msgs

Written(msgs) ==
    IF NeedsScrub(msgs) THEN {CopyCalls(msgs[i].calls).at : i \in DOMAIN msgs} \ {<<>>} ELSE {}
=============================================================================
