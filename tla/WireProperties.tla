---------------------------- MODULE WireProperties ----------------------------
(***************************************************************************)
(* What it means for a sequence of frames to respect the AG-UI protocol,   *)
(* and for an emitter to remember what it sent.  These predicates are      *)
(* stated of any wire w and any emitter e; EmitterSpec and StreamTurn say  *)
(* where they hold.                                                        *)
(***************************************************************************)
EXTENDS Emitter

Starts(frame, call) == frame.type = "TOOL_CALL_START" /\ frame.call = call
Feeds(frame, call)  == frame.type = "TOOL_CALL_ARGS" /\ frame.call = call
Ends(frame, call)   == frame.type = "TOOL_CALL_END" /\ frame.call = call

(* One lifecycle per tool call: one START with nothing of the call before   *)
(* it, and no ARGS or END outside it.                                       *)
OneLifecycle(w) ==
    \A c \in ToolIDs, j \in DOMAIN w :
        /\ Starts(w[j], c) => \A i \in 1..(j-1) : ~Starts(w[i], c) /\ ~Ends(w[i], c)
        /\ Feeds(w[j], c) \/ Ends(w[j], c) =>
               /\ \E i \in 1..(j-1) : Starts(w[i], c)
               /\ \A i \in 1..(j-1) : ~Ends(w[i], c)

(* A call is remembered as started (ended) iff its START (END) was written. *)
RemembersCalls(e) ==
    \A c \in ToolIDs :
        /\ c \in e.startedToolCalls <=> \E j \in DOMAIN e.wire : Starts(e.wire[j], c)
        /\ c \in e.endedToolCalls   <=> \E j \in DOMAIN e.wire : Ends(e.wire[j], c)

(* The cancel function was called once, and only for a transport failure.   *)
CancelsOnce(e) == e.cancels = IF e.err THEN 1 ELSE 0

-----------------------------------------------------------------------------
(* The frames that start and end each kind of block, and the ones inside.   *)
TextKind ==
    [start |-> "TEXT_START", inner |-> {"TEXT_CONTENT"}, end |-> "TEXT_END"]
ReasoningKind ==
    [start |-> "REASONING_START", end |-> "REASONING_END",
     inner |-> {"REASONING_MESSAGE_START", "REASONING_CONTENT", "REASONING_MESSAGE_END"}]
ReasoningMessageKind ==
    [start |-> "REASONING_MESSAGE_START", inner |-> {"REASONING_CONTENT"},
     end |-> "REASONING_MESSAGE_END"]
Kinds == {TextKind, ReasoningKind, ReasoningMessageKind}

(* The i-th frame started a block that no frame before the k-th ended.      *)
OpenBefore(w, kind, i, k) ==
    /\ w[i].type = kind.start
    /\ \A j \in (i+1)..(k-1) : ~(w[j].type = kind.end /\ w[j].msg = w[i].msg)

(* The i-th frame is the last before the k-th to start such a block.        *)
LastBefore(w, kind, i, k) ==
    w[i].type = kind.start /\ \A j \in (i+1)..(k-1) : w[j].type # kind.start

(* A tool frame never lands inside the block of a kind that started last.   *)
ToolsOutsideBlocks(w) ==
    \A k \in DOMAIN w : w[k].type \in ToolTypes =>
        \A kind \in Kinds : \A i \in 1..(k-1) :
            LastBefore(w, kind, i, k) => ~OpenBefore(w, kind, i, k)
=============================================================================
