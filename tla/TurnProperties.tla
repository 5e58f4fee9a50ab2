---------------------------- MODULE TurnProperties ----------------------------
(***************************************************************************)
(* What a turn promises: the frames on the wire, the transcript and the    *)
(* provider response it returns, and how it ends.                          *)
(***************************************************************************)
EXTENDS StreamTurn, WireProperties

(* Every variable of the turn keeps its type in every reachable state.      *)
TypeOK ==
    /\ em \in EmitterType
    /\ live \in BOOLEAN /\ ctxDone \in BOOLEAN /\ late \in 0..MaxLate
    /\ pc \in {"open", "check", "recv", "end", "reasoning", "text", "tools", "flush",
               "close", "conclude", "done"}
    /\ cursor \in Nat \ {0} /\ after \in {"reasoning", "text", "conclude"}
    /\ primary \in Errors
    /\ chunks \in Seq(Chunks)
    /\ text \in Block /\ reasoning \in Block
    /\ calls \in CallTables
    /\ owner \in [id : Nat, index : Nat] /\ nextID \in Nat \ {0}
    /\ wireMessages \in Seq(Message)
    /\ usage \in Usages \cup {NoUsage}
    /\ result \in [returned : BOOLEAN, assistant : BOOLEAN, calls : Seq(MergedCall),
                   partial : BOOLEAN]

wire     == em.wire
Lossless == ~em.err /\ ~em.encErr      \* every frame so far reached the client

-----------------------------------------------------------------------------
(* The wire. *)

(* A content or end frame belongs to a block of its message that was        *)
(* started and not yet ended, as long as the client missed no frame.        *)
FramesInsideTheirBlock ==
    ~em.encErr =>
        \A kind \in Kinds, k \in DOMAIN wire :
            wire[k].type \in kind.inner \cup {kind.end} =>
                \E i \in 1..(k-1) : OpenBefore(wire, kind, i, k) /\ wire[i].msg = wire[k].msg

(* Text, reasoning and tool blocks never overlap: when one starts, or a     *)
(* tool frame is written, no text or reasoning block is open, and when text *)
(* or reasoning starts, every tool call that started has ended.             *)
BlocksNeverOverlap ==
    ~em.encErr =>
        \A k \in DOMAIN wire :
            /\ wire[k].type \in {"TEXT_START", "REASONING_START"} \cup CallTypes =>
                 ~ \E kind \in Kinds, i \in 1..(k-1) : OpenBefore(wire, kind, i, k)
            /\ wire[k].type \in {"TEXT_START", "REASONING_START"} =>
                 \A i \in 1..(k-1) : wire[i].type = "TOOL_CALL_START" =>
                     \E j \in (i+1)..(k-1) :
                         wire[j].type = "TOOL_CALL_END" /\ wire[j].call = wire[i].call

(* A message id is used by one block only: a reopened block gets a fresh id,*)
(* and no block ends twice.                                                 *)
BlockIDsAreFresh ==
    \A i, j \in DOMAIN wire :
        /\ wire[i].type \in BlockTypes \ {"TEXT_CONTENT", "REASONING_CONTENT"}
        /\ wire[j].type = wire[i].type /\ wire[j].msg = wire[i].msg
        => i = j

(* When the turn returns and the client missed nothing, every block and     *)
(* every tool call that was started on the wire has been ended: whatever    *)
(* ended the turn, the client is left with no dangling block.               *)
EverythingStartedEnds ==
    pc = "done" /\ Lossless =>
        /\ \A kind \in Kinds, i \in DOMAIN wire : ~OpenBefore(wire, kind, i, Len(wire) + 1)
        /\ em.startedToolCalls = em.endedToolCalls

-----------------------------------------------------------------------------
(* The transcript. *)

DeltasOf(frames) ==
    LET sent == Selected(wire, frames) IN [i \in DOMAIN sent |-> sent[i].delta]

ContentFrames(message) ==
    [type : {IF message.role = "reasoning" THEN "REASONING_CONTENT" ELSE "TEXT_CONTENT"},
     msg : {message.id}, call : ToolID, name : Name, delta : Delta]
ArgumentFrames(id) ==
    [type : {"TOOL_CALL_ARGS"}, msg : Nat, call : {id}, name : Name, delta : Delta]

ContentOnWire(message) == DeltasOf(ContentFrames(message))
ArgumentsOnWire(id)    == DeltasOf(ArgumentFrames(id))

IsOwner(i) == owner # NoOwner /\ i = owner.index

(* WireMessages holds what the client assembled from the frames, if none    *)
(* was rejected: each message but the owner was ended on the wire and has   *)
(* the content of its content frames, whole and in the order sent.          *)
TranscriptMatchesWire ==
    ~em.encErr =>
        \A i \in DOMAIN wireMessages :
            LET m == wireMessages[i] IN
            ~IsOwner(i) =>
                /\ m.content # <<>> /\ m.content = ContentOnWire(m)
                /\ \E j \in DOMAIN wire : wire[j].msg = m.id
                                          /\ wire[j].type \in {"TEXT_END", "REASONING_END"}

(* The other direction, for a client that missed no frame: once the turn    *)
(* returned, every block that was ended on the wire is in the transcript,   *)
(* whoever ended it - the turn, on a switch or at its end, or the emitter   *)
(* before a frame of a resumed call.                                        *)
EndedBlocksInTranscript ==
    pc = "done" /\ Lossless =>
        \A j \in DOMAIN wire : wire[j].type \in {"TEXT_END", "REASONING_END"} =>
            \E i \in DOMAIN wireMessages : wireMessages[i].id = wire[j].msg

(* Messages are listed in the order their ids were generated, which is the  *)
(* order the client saw them begin, the owner included.                     *)
TranscriptInOrder ==
    \A i, j \in DOMAIN wireMessages : i < j => wireMessages[i].id < wireMessages[j].id

-----------------------------------------------------------------------------
(* Tool calls. *)

buffers == calls.order

(* What a live call said on the wire and what it postponed are the          *)
(* arguments it merged, none lost, repeated or reordered: the client is     *)
(* told what the turn hands its caller.  Fragments that come after the call *)
(* was ended are not merged (ResponseKeepsArguments is about those).        *)
ArgumentsConserved ==
    (live /\ Lossless) =>
        \A p \in DOMAIN buffers :
            LET b == buffers[p] IN
            b.arguments = (IF b.started THEN ArgumentsOnWire(b.id) ELSE <<>>) \o b.pendingArgs

(* Two buffers never share an id, whichever of index and id came first.     *)
IDsIdentifyBuffers ==
    \A p, q \in DOMAIN buffers :
        buffers[p].id # NoID /\ buffers[p].id = buffers[q].id => p = q

(* A live call that knows its id and name was started, and the frame's      *)
(* parent is the message the Result calls the owner of the turn's calls.    *)
StartedUnderOwner ==
    /\ \A p \in DOMAIN buffers : ~buffers[p].ended /\ live /\ buffers[p].name # NoName /\ buffers[p].id # NoID
           => buffers[p].started
    /\ \A k \in DOMAIN wire : wire[k].type = "TOOL_CALL_START" =>
           owner # NoOwner /\ wire[k].msg = owner.id
           /\ wireMessages[owner.index].id = owner.id

(* A turn that returns a response hands its caller the calls the client saw *)
(* live, under the same ids and with the same arguments.                    *)
OwnerCallsMatchWire ==
    (pc = "done" /\ result.assistant /\ primary # "correlation" /\ Lossless) =>
        \A id \in em.startedToolCalls :
            \E c \in DOMAIN wireMessages[owner.index].calls :
                LET tc == wireMessages[owner.index].calls[c]
                IN  tc.id = id /\ tc.arguments = ArgumentsOnWire(id)

(* The fragments received so far, in order of arrival, empty ones left out. *)
Received == UNION {{k} \X DOMAIN chunks[k].calls : k \in DOMAIN chunks}
FragmentAt(r) == chunks[r[1]].calls[r[2]]

(* The provider's own attribution of a fragment: by index, else by id.      *)
AddressedTo(f, b) ==
    IF f.index # NoIndex THEN f.index = b.index ELSE f.id # NoID /\ f.id = b.id

Before(r, s) == r[1] < s[1] \/ (r[1] = s[1] /\ r[2] < s[2])

(* What the client has of a live call's arguments is what the provider sent *)
(* first for the call, in the order sent, whether the arguments were        *)
(* postponed or sent at once: also if the client was lost in the middle of  *)
(* the call, or other content ended it before the provider was done.  A     *)
(* rejected frame leaves a gap, but never changes the order.                *)
SeenArgumentsArePrefix ==
    live =>
        \A p \in DOMAIN buffers :
            LET b    == buffers[p]
                sent == {r \in Received : FragmentAt(r).args /\ AddressedTo(FragmentAt(r), b)}
                seen == ArgumentsOnWire(b.id)
                got  == {seen[i] : i \in DOMAIN seen}
            IN  /\ got \subseteq sent
                /\ \A i, j \in DOMAIN seen : i < j => Before(seen[i], seen[j])
                /\ em.encErr \/ \A g \in got, r \in sent : Before(r, g) => r \in got

(* The response is the concatenated provider response: each call has the    *)
(* argument text of all fragments addressed to it, once and in the order of *)
(* arrival, however the fragments were split and mixed with other content.  *)
ResponseKeepsArguments ==
    pc = "done" /\ result.assistant /\ primary \in {"none", "cancelled", "provider"} =>
        \A p \in DOMAIN buffers :
            LET args == result.calls[p].arguments IN
            /\ {args[i] : i \in DOMAIN args} =
                 {r \in Received : FragmentAt(r).args /\ AddressedTo(FragmentAt(r), buffers[p])}
            /\ \A i, j \in DOMAIN args : i < j => Before(args[i], args[j])

(* Identity clashes a complete stream must not contain: an index with two   *)
(* ids, or an id under two indices.                                         *)
Clash(f, g) ==
    /\ f.index # NoIndex /\ g.index # NoIndex /\ f.id # NoID /\ g.id # NoID
    /\ (f.index = g.index) # (f.id = g.id)

(* A turn that consumed its whole stream without an error found no clash:   *)
(* ambiguity never passes silently.                                         *)
AmbiguityDetected ==
    pc = "done" /\ primary = "none" =>
        ~ \E r, s \in Received : Clash(FragmentAt(r), FragmentAt(s))

(* After an ambiguity nothing is handed on for execution: neither the       *)
(* response nor the owner keeps a call, however far the calls had streamed. *)
AmbiguousNeverAttached ==
    pc = "done" /\ primary = "correlation" =>
        /\ result.calls = <<>>
        /\ \A i \in DOMAIN wireMessages : wireMessages[i].calls = <<>>

-----------------------------------------------------------------------------
(* How a turn ends. *)

(* Usage is the per-field maximum over all chunks received, at least zero,  *)
(* and survives every way the turn can end.                                 *)
UsageIsMaximum ==
    LET reports == {chunks[k].usage : k \in DOMAIN chunks} \ {NoUsage}
    IN  usage = IF reports = {} THEN NoUsage
                ELSE [f \in Fields |-> Max({0} \cup {u[f] : u \in reports})]

(* A turn that lost its client returns an error and a partial result, even  *)
(* when the loss happened in the very last frame.                           *)
NoSilentDisconnect ==
    pc = "done" /\ em.err => primary # "none" /\ (result.returned => result.partial)

(* Once the client is gone the turn asks the provider for nothing more, and *)
(* once the request is cancelled it applies at most one more chunk.         *)
StopsReceiving == (pc = "recv" => ~em.err) /\ late <= 1

(* A cancelled or disconnected turn returns, whatever the provider does and *)
(* however many calls and postponed arguments are still to be closed.       *)
CancelEndsTurn == (ctxDone \/ em.err) ~> pc = "done"
=============================================================================
