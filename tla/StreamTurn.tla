----------------------------- MODULE StreamTurn -----------------------------
(***************************************************************************)
(* One model turn: stream.StreamTurn and its turnState.                    *)
(*                                                                         *)
(* The turn opens the model stream, then alternates between a look at the  *)
(* request (cancelled? client gone?) and a chunk.  A chunk's reasoning,    *)
(* text and tool-call fragments are applied in that order; each opens or   *)
(* closes blocks on the emitter and grows the transcript the turn returns. *)
(* Whatever ends the turn - end of stream, a provider error, cancellation, *)
(* a disconnect, an ambiguous tool call - goes through finish, which       *)
(* closes what is open and merges the result.                              *)
(*                                                                         *)
(* Straight-line code is one action.  Loops take a step per iteration:     *)
(* over the chunk's fragments (pc "tools"), over a call's postponed        *)
(* arguments (pc "flush") and over the calls to end (pc "end").            *)
(***************************************************************************)
EXTENDS ToolCalls, FiniteSetsExt, Integers

CONSTANTS
    Chunks,       \* the shapes of chunk the provider sends
    Scripts,      \* what the SSE writer may do
    LiveModes,    \* the values of WithLiveToolCallEvents to consider
    LiveResume,   \* may a provider resume tool calls after other content?
    Fields,       \* the counters of a usage report
    Counts,       \* the values a provider reports for a counter
    MaxChunks     \* bound: the chunks that carry content

Reports == [Fields -> Counts]
Usages  == [Fields -> Nat]
NoUsage == [f \in {} |-> 0]

(***************************************************************************)
(* A chunk's shape.  Its pieces of text are numbered by arrival: piece i   *)
(* of the k-th chunk is <<k, i>>, with i = 0 for reasoning and text, and   *)
(* the fragment's position for arguments.  A nil chunk is applied like the *)
(* empty one.                                                              *)
(***************************************************************************)
ChunkShapes ==
    [reasoning : BOOLEAN, text : BOOLEAN, calls : Seq(Fragments), usage : Reports \cup {NoUsage}]

ASSUME ChunksAssumption     == Chunks \subseteq ChunkShapes
ASSUME TokensAssumption     == \A c \in Chunks, k \in 1..MaxChunks :
                                   {k} \X (0..Len(c.calls)) \subseteq Tokens
ASSUME TurnScriptAssumption == Scripts \subseteq Seq(Outcomes)
ASSUME LiveModesAssumption  == LiveModes \subseteq BOOLEAN /\ LiveResume \in BOOLEAN
ASSUME BoundsAssumption     == MaxChunks \in Nat \ {0} /\ Counts \subseteq Int

VARIABLES
    em,            \* the emitter of the request
    live,          \* config.liveToolCalls
    ctxDone,       \* ctx.Err() # nil
    late,          \* history: the chunks received since ctxDone, up to MaxLate
    pc,            \* where the turn is
    cursor,        \* position in the loop of "tools" or "end"
    after,         \* where "end" goes on
    primary,       \* the error the turn will return, or "none"
    chunks,        \* the chunks received
    text,          \* the open text block
    reasoning,     \* the open reasoning block
    calls,         \* the tool-call buffers and their maps
    owner,         \* the message that owns the tool calls and its position
    nextID,        \* the next id GenerateMessageID returns
    wireMessages,  \* Result.WireMessages
    usage,         \* Result.Usage
    result         \* the assistant and Partial of the Result returned

vars == <<em, live, ctxDone, late, pc, cursor, after, primary, chunks, text, reasoning,
          calls, owner, nextID, wireMessages, usage, result>>

request == <<live, ctxDone, late>>
blocks  == <<text, reasoning, wireMessages, owner, nextID>>

Block  == [id : Nat, content : Seq(Tokens), open : BOOLEAN]
Closed == [id |-> NoMessage, content |-> <<>>, open |-> FALSE]

Roles   == {"assistant", "reasoning"}
Message == [id : Nat, role : Roles, content : Seq(Tokens), calls : Seq(MergedCall)]

Plain(id, role, content) == [id |-> id, role |-> role, content |-> content, calls |-> <<>>]

NoOwner == [id |-> NoMessage, index |-> 0]

Errors    == {"none", "open", "cancelled", "transport", "provider", "correlation",
              "empty", "concat"}
NotReturned == [returned |-> FALSE, assistant |-> FALSE, calls |-> <<>>, partial |-> FALSE]

-----------------------------------------------------------------------------
Init ==
    /\ em \in {NewEmitter(s) : s \in Scripts}
    /\ live \in LiveModes
    /\ ctxDone = FALSE /\ late = 0
    /\ pc = "open" /\ cursor = 1 /\ after = "conclude"
    /\ primary = "none"
    /\ chunks = <<>>
    /\ text = Closed /\ reasoning = Closed
    /\ calls = NoCalls /\ owner = NoOwner
    /\ nextID = 1
    /\ wireMessages = <<>>
    /\ usage = NoUsage
    /\ result = NotReturned

(* The request is cancelled, at any moment, by someone else. *)
Cancel ==
    /\ ~ctxDone /\ pc # "done"
    /\ ctxDone' = TRUE
    /\ UNCHANGED <<em, live, late, pc, cursor, after, primary, chunks, text, reasoning, calls,
                   owner, nextID, wireMessages, usage, result>>

(* cm.Stream fails, and there is no Result at all; or the stream opens. *)
OpenFails ==
    /\ pc = "open"
    /\ pc' = "done" /\ primary' = "open"
    /\ UNCHANGED <<request, em, cursor, after, chunks, blocks, calls, usage, result>>

OpenStream ==
    /\ pc = "open"
    /\ pc' = "check"
    /\ UNCHANGED <<request, em, cursor, after, primary, chunks, blocks, calls, usage, result>>

Fail(error) == primary' = error /\ pc' = "close"

(* The head of the receive loop.  The mutant does not look at the context.  *)
StopsOnDisconnect == IF em.err THEN "transport" ELSE "none"
StopReason == IF ctxDone THEN "cancelled" ELSE IF em.err THEN "transport" ELSE "none"

CheckRequest ==
    /\ pc = "check"
    /\ IF StopReason # "none" THEN Fail(StopReason) ELSE pc' = "recv" /\ primary' = primary
    /\ UNCHANGED <<request, em, cursor, after, chunks, blocks, calls, usage, result>>

RecvEOF ==
    /\ pc = "recv"
    /\ pc' = "close"
    /\ UNCHANGED <<request, em, cursor, after, primary, chunks, blocks, calls, usage, result>>

RecvError ==
    /\ pc = "recv"
    /\ Fail("provider")
    /\ UNCHANGED <<request, em, cursor, after, chunks, blocks, calls, usage, result>>

(* accumulateUsage: the per-field maximum of what was reported and of the   *)
(* zeros it starts from; the mutant keeps the last report.                  *)
LastReport(seen, reported) == IF reported = NoUsage THEN seen ELSE reported
Accumulate(seen, reported) ==
    IF reported = NoUsage THEN seen
    ELSE [f \in Fields |-> Max({IF seen = NoUsage THEN 0 ELSE seen[f], reported[f]})]

HasContent(c) == c.reasoning \/ c.text
HasCalls(c)   == \E i \in DOMAIN c.calls : Correlatable(c.calls[i])

(* The provider never comes back to its tool calls after other content. *)
CallsAreContiguous(s) ==
    \A i, j, k \in DOMAIN s :
        i < j /\ j <= k /\ HasCalls(s[i]) /\ HasContent(s[j]) => ~HasCalls(s[k])

MaySend(c) == (live /\ ~LiveResume) => CallsAreContiguous(Append(chunks, c))

(* The history of late chunks distinguishes none, one and more (MaxLate).   *)
MaxLate == 2
OneLater == IF ctxDone THEN Min({late + 1, MaxLate}) ELSE late

(* A chunk arrives.  endToolCalls is the first thing its content needs. *)
RecvChunk ==
    /\ pc = "recv" /\ Len(chunks) < MaxChunks
    /\ \E c \in Chunks :
        /\ MaySend(c)
        /\ chunks' = Append(chunks, c)
        /\ usage'  = Accumulate(usage, c.usage)
        /\ IF c.reasoning THEN pc' = "end" /\ after' = "reasoning"
           ELSE IF c.text THEN pc' = "end" /\ after' = "text"
           ELSE pc' = "tools" /\ after' = after
    /\ cursor' = 1
    /\ late' = OneLater
    /\ UNCHANGED <<live, ctxDone, em, primary, blocks, calls, result>>

(* Beyond the bound the provider only sends empty chunks, forever if it    *)
(* likes: the turn does not end because the bound is reached.              *)
RecvKeepAlive ==
    /\ pc = "recv" /\ Len(chunks) = MaxChunks
    /\ pc' = "check"
    /\ late' = OneLater
    /\ UNCHANGED <<live, ctxDone, em, cursor, after, primary, chunks, blocks, calls, usage, result>>

-----------------------------------------------------------------------------
chunk    == chunks[Len(chunks)]
piece(i) == <<Len(chunks), i>>

(* closeReasoning and closeText: the block is ended on the wire, forgotten  *)
(* whatever happens, and joins the transcript unless the client is gone.    *)

(* Mutants: nothing is sent; the two ends are swapped. *)
KeepReasoning(e) == e
EndReasoningFirst(e) ==
    IF reasoning.open THEN ReasoningMessageEnd(ReasoningEnd(e, reasoning.id), reasoning.id) ELSE e
EndReasoning(e) ==
    IF reasoning.open THEN ReasoningEnd(ReasoningMessageEnd(e, reasoning.id), reasoning.id) ELSE e
EndText(e) == IF text.open THEN TextEnd(e, text.id) ELSE e

(* Mutant: only the content is reset. *)
ForgetContent(block) == [block EXCEPT !.content = <<>>]
Forget(block) == Closed

(* Mutants: the wrong block's flag; the write error is not looked at. *)
WithReasoningIfText(e, messages) ==
    IF text.open /\ ~e.err
    THEN Append(messages, Plain(reasoning.id, "reasoning", reasoning.content)) ELSE messages
WithReasoning(e, messages) ==
    IF reasoning.open /\ ~e.err
    THEN Append(messages, Plain(reasoning.id, "reasoning", reasoning.content)) ELSE messages
WithTextAnyway(e, messages) ==
    IF text.open THEN Append(messages, Plain(text.id, "assistant", text.content)) ELSE messages
WithText(e, messages) ==
    IF text.open /\ ~e.err
    THEN Append(messages, Plain(text.id, "assistant", text.content)) ELSE messages

(* endToolCalls, one call a step; calls end only when they are live.  The   *)
(* mutant stops one call early.                                             *)
AllButLastEnded == ~live \/ cursor >= Len(calls.order)
AllEnded        == ~live \/ cursor > Len(calls.order)

EndCall ==
    /\ pc = "end" /\ ~AllEnded
    /\ LET b == calls.order[cursor]
       IN  em' = IF b.started /\ ~b.ended THEN ToolEnd(em, b.id) ELSE em
    /\ calls' = [calls EXCEPT !.order[cursor].ended = TRUE]
    /\ cursor' = cursor + 1
    /\ UNCHANGED <<request, pc, after, primary, chunks, blocks, usage, result>>

(* The emitter's error stops the handler; inside finish it only becomes the *)
(* turn's error if there was none (the mutant forgets it).                  *)
IgnoreTransport(error) == error
OrTransport(error) == IF em.err /\ error = "none" THEN "transport" ELSE error

CallsEnded ==
    /\ pc = "end" /\ AllEnded
    /\ IF em.err /\ after # "conclude" THEN Fail("transport")
       ELSE /\ pc' = after
            /\ primary' = OrTransport(primary)
    /\ cursor' = 1
    /\ UNCHANGED <<request, em, after, chunks, blocks, calls, usage, result>>

(* A block after a delta, given the emitter once the block was opened and   *)
(* once the delta was sent.                                                 *)
Grown(block, id, opened, sent) ==
    [id      |-> id,
     content |-> IF sent.err THEN block.content ELSE Append(block.content, piece(0)),
     open    |-> block.open \/ ~opened.err]

(* applyReasoning after endToolCalls: the open text ends, then the delta    *)
(* goes to the open reasoning block or to a new one.                        *)
ApplyReasoning ==
    /\ pc = "reasoning"
    /\ LET closed == EndText(em)
           id     == IF reasoning.open THEN reasoning.id ELSE nextID
           opened == IF reasoning.open THEN closed
                     ELSE ReasoningMessageStart(ReasoningStart(closed, id), id)
       IN  /\ em' = ReasoningContent(opened, id, piece(0))
           /\ text' = Forget(text)
           /\ wireMessages' = WithText(closed, wireMessages)
           /\ IF closed.err THEN UNCHANGED <<reasoning, nextID>>
              ELSE /\ nextID' = IF reasoning.open THEN nextID ELSE nextID + 1
                   /\ reasoning' = Grown(reasoning, id, opened, em')
    /\ IF em'.err THEN Fail("transport") /\ after' = after
       ELSE IF chunk.text THEN pc' = "end" /\ after' = "text" /\ primary' = primary
       ELSE pc' = "tools" /\ UNCHANGED <<after, primary>>
    /\ UNCHANGED <<request, cursor, chunks, calls, owner, usage, result>>

(* applyText after endToolCalls, the other way round. *)
ApplyText ==
    /\ pc = "text"
    /\ LET closed == EndReasoning(em)
           id     == IF text.open THEN text.id ELSE nextID
           opened == IF text.open THEN closed ELSE TextStart(closed, id)
       IN  /\ em' = TextContent(opened, id, piece(0))
           /\ reasoning' = Forget(reasoning)
           /\ wireMessages' = WithReasoning(closed, wireMessages)
           /\ IF closed.err THEN UNCHANGED <<text, nextID>>
              ELSE /\ nextID' = IF text.open THEN nextID ELSE nextID + 1
                   /\ text' = Grown(text, id, opened, em')
    /\ IF em'.err THEN Fail("transport") ELSE pc' = "tools" /\ primary' = primary
    /\ UNCHANGED <<request, cursor, after, chunks, calls, owner, usage, result>>

-----------------------------------------------------------------------------
(* applyToolCalls, one fragment a step. *)

InTools == pc = "tools" /\ cursor <= Len(chunk.calls)
call    == chunk.calls[cursor]

SkipFragment ==
    /\ InTools /\ ~Correlatable(call)
    /\ cursor' = cursor + 1
    /\ UNCHANGED <<request, em, pc, after, primary, chunks, blocks, calls, usage, result>>

(* ensureToolOwner: the first fragment closes the open blocks and appends   *)
(* the message that will own every call of the turn.                        *)
EnsureToolOwner ==
    /\ InTools /\ Correlatable(call) /\ owner = NoOwner
    /\ LET quiet    == EndReasoning(em)
           closed   == EndText(quiet)
           messages == WithText(closed, WithReasoning(quiet, wireMessages))
           failed   == (reasoning.open /\ quiet.err) \/ (text.open /\ closed.err)
       IN  /\ reasoning' = Forget(reasoning)
           /\ text' = IF reasoning.open /\ quiet.err THEN text ELSE Forget(text)
           /\ em' = IF reasoning.open /\ quiet.err THEN quiet ELSE closed
           /\ IF failed
              THEN Fail("transport") /\ wireMessages' = messages /\ UNCHANGED <<owner, nextID>>
              ELSE /\ owner' = [id |-> nextID, index |-> Len(messages) + 1]
                   /\ nextID' = nextID + 1
                   /\ wireMessages' = Append(messages, Plain(nextID, "assistant", <<>>))
                   /\ UNCHANGED <<pc, primary>>
    /\ UNCHANGED <<request, cursor, after, chunks, calls, usage, result>>

(* correlateToolCall refuses the fragment. *)
RefuseFragment ==
    /\ InTools /\ Correlatable(call) /\ owner # NoOwner
    /\ LET found == WithBuffer(calls, call)
       IN  Ambiguous(found, call) /\ calls' = found
    /\ Fail("correlation")
    /\ UNCHANGED <<request, em, cursor, after, chunks, blocks, usage, result>>

(* correlateToolCall accepts it, and update merges it: a started call sends *)
(* its arguments, a call that just became ready starts and goes on to       *)
(* flush what it postponed, any other live call postpones them.             *)
AcceptFragment ==
    /\ InTools /\ Correlatable(call) /\ owner # NoOwner
    /\ LET found  == WithBuffer(calls, call)
           pos    == Known(found, call)
           delta  == IF call.args THEN piece(cursor) ELSE NoDelta
           before == found.order[pos]
           merged == Merge(before, call, delta)
           talks  == live /\ ~before.ended
           starts == talks /\ Ready(merged)
           sends  == talks /\ merged.started
           buffer == IF talks /\ ~merged.started THEN Postpone(merged, delta) ELSE merged
       IN  /\ ~Ambiguous(found, call)
           /\ calls' = [Claim(found, call) EXCEPT
                            !.order[pos] = [buffer EXCEPT !.started = @ \/ starts]]
           /\ em' = IF sends THEN ToolArgs(em, merged.id, delta)
                    ELSE IF starts THEN ToolStart(em, merged.id, merged.name, owner.id) ELSE em
           /\ pc' = "flush"
    /\ UNCHANGED <<request, cursor, after, primary, chunks, blocks, usage, result>>

(* The loop over pendingArgs in startIfReady, run only by a started call. *)
Flushing == LET b == calls.order[Known(calls, call)] IN b.started /\ b.pendingArgs # <<>>

FlushArg ==
    /\ pc = "flush" /\ Flushing
    /\ LET pos == Known(calls, call)
           b   == calls.order[pos]
       IN  /\ em' = ToolArgs(em, b.id, Head(b.pendingArgs))
           /\ calls' = [calls EXCEPT !.order[pos].pendingArgs = Tail(@)]
    /\ UNCHANGED <<request, pc, cursor, after, primary, chunks, blocks, usage, result>>

FragmentDone ==
    /\ pc = "flush" /\ ~Flushing
    /\ IF em.err THEN Fail("transport") /\ cursor' = cursor
       ELSE pc' = "tools" /\ cursor' = cursor + 1 /\ primary' = primary
    /\ UNCHANGED <<request, em, after, chunks, blocks, calls, usage, result>>

ChunkDone ==
    /\ pc = "tools" /\ cursor > Len(chunk.calls)
    /\ pc' = "check"
    /\ UNCHANGED <<request, em, cursor, after, primary, chunks, blocks, calls, usage, result>>

-----------------------------------------------------------------------------
(* finish: closeBlocks, then the provider response and the Result. *)

CloseBlocks ==
    /\ pc = "close"
    /\ LET quiet  == EndReasoning(em)
           closed == EndText(quiet)
       IN  /\ em' = closed
           /\ wireMessages' = WithText(closed, WithReasoning(quiet, wireMessages))
    /\ reasoning' = Forget(reasoning) /\ text' = Forget(text)
    /\ pc' = "end" /\ after' = "conclude" /\ cursor' = 1
    /\ UNCHANGED <<request, primary, chunks, calls, owner, nextID, usage, result>>

ConcludeEmpty ==
    /\ pc = "conclude" /\ chunks = <<>>
    /\ primary' = IF primary = "none" THEN "empty" ELSE primary
    /\ result' = [NotReturned EXCEPT !.returned = TRUE, !.partial = TRUE]
    /\ pc' = "done"
    /\ UNCHANGED <<request, em, cursor, after, chunks, blocks, calls, usage>>

(* The calls of the response, and their place in the transcript.  Mutants:  *)
(* ambiguous calls are merged too; they go to the last message.             *)
AllCalls(concat) == IF concat THEN MergedToolCalls(calls.order) ELSE <<>>
ResponseCalls(concat) ==
    IF concat /\ primary # "correlation" THEN MergedToolCalls(calls.order) ELSE <<>>

AttachToLast(merged) ==
    [wireMessages EXCEPT ![Len(wireMessages)].calls = ToAGUIToolCalls(merged)]
Attach(merged) == [wireMessages EXCEPT ![owner.index].calls = ToAGUIToolCalls(merged)]

(* schema.ConcatMessages is external: it may fail on what was received. *)
Conclude ==
    /\ pc = "conclude" /\ chunks # <<>>
    /\ \E concat \in BOOLEAN :
        /\ primary' = IF ~concat /\ primary = "none" THEN "concat" ELSE primary
        /\ result' = [returned |-> TRUE, assistant |-> concat, calls |-> ResponseCalls(concat),
                      partial |-> primary' # "none"]
        /\ wireMessages' = IF primary' # "correlation" /\ concat /\ owner # NoOwner
                           THEN Attach(ResponseCalls(concat)) ELSE wireMessages
    /\ pc' = "done"
    /\ UNCHANGED <<request, em, cursor, after, chunks, text, reasoning, calls, owner, nextID, usage>>

Returned == pc = "done" /\ UNCHANGED vars

-----------------------------------------------------------------------------
Recv == RecvEOF \/ RecvError \/ RecvChunk \/ RecvKeepAlive

Apply ==
    \/ EndCall \/ CallsEnded \/ ApplyReasoning \/ ApplyText
    \/ SkipFragment \/ EnsureToolOwner \/ RefuseFragment \/ AcceptFragment
    \/ FlushArg \/ FragmentDone \/ ChunkDone

Finish == CloseBlocks \/ ConcludeEmpty \/ Conclude

TurnStep == OpenFails \/ OpenStream \/ CheckRequest \/ Recv \/ Apply \/ Finish

Next == Cancel \/ TurnStep \/ Returned

Spec == Init /\ [][Next]_vars

(***************************************************************************)
(* The turn's goroutine runs, and the provider, which was given ctx,       *)
(* answers a pending Recv at least once the request is cancelled; before   *)
(* that it may stay silent forever.                                        *)
(***************************************************************************)
RecvOnceCancelled == ctxDone /\ Recv
LocalStep == OpenFails \/ OpenStream \/ CheckRequest \/ Apply \/ Finish

Fairness == WF_vars(LocalStep) /\ WF_vars(RecvOnceCancelled)

FairSpec == Spec /\ Fairness
=============================================================================
