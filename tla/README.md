# A verification of eino-agui

TLA+ models of the AG-UI bridge in this repository, their TLC configurations,
and theorems checked by TLAPS. Paths are relative to the repository.

The library taps a streaming Eino chat model and re-emits it as AG-UI events on
one SSE response. A client must be able to rebuild the conversation from the
frames alone, so almost everything that can go wrong is about *order*: frames of
interleaved blocks and tool calls, identities that become known late, frames
that were never written, and turns that stop half-way.

## The system

| Part | Code | State | Operations | Interacts with |
| --- | --- | --- | --- | --- |
| Emitter | `emitter/emitter.go` | first transport and encoding error, the open text / reasoning / reasoning-message block, started and ended tool calls | one helper per AG-UI event; `Emit` for caller-built events | calls the SDK's SSE writer; calls `cancel` on a transport error; called by the stream turn and by applications |
| Stream turn | `stream/stream.go`, `stream/state.go` | open blocks with id and content, transcript, tool owner, chunks, usage | `StreamTurn`: open, check, receive, apply a chunk, finish | reads the model's stream; calls the emitter, polls its `Err`; returns `Result` |
| Tool-call correlation | `stream/tool_calls.go` | one buffer per call, found by index or by id | correlate, update, start when ready, end, merge | emits through the turn's emitter |
| Run | `examples/stream`, `tools.ClassifyToolCalls` | none | the bracket around the turns, the division of calls between client and server | emitter, stream turn, the application |
| Conversion | `convert/` | none | AG-UI messages, tool calls and usage from and to Eino | `finish` uses `ToAGUIToolCalls` |
| Metadata | `internal/protocolmeta` | none | deep copies | conversion, tools |
| Snapshot | `emitter/emitter.go` (`MessagesSnapshot`) | none | removes encrypted values | applications |
| Tool binding | `tools/binding.go` | none | names, JSON Schema conversion | applications |
| Test ids | `internal/testids` | a lock for the process, one per generator, the next number | install, restore, generate | tests of any package |
| Test doubles | `internal/testmodel`, `testsse`, `golden` | scripted turns, a byte sink | - | tests only |
| External | AG-UI SDK, Eino | - | SSE writer and event validation, id generation, model stream, `ConcatMessages` | - |

There are no locks in the library itself: "calls must be serialized by the
caller" (`emitter/doc.go`). Concurrency enters in three ways: the request is
cancelled by someone else at any moment, the client disappears at any frame, and
the provider decides when and how a chunk arrives. Only the test ids have
threads and locks of their own.

What makes each part correct:

- *Emitter*: one lifecycle per tool call; its memory equals what was written; a
  tool frame is never inside a block; a disconnect is final and cancels once.
- *Turn*: frames lie inside their block; blocks do not overlap; a reopened block
  gets a fresh id; everything that was started is ended; the transcript is what
  the client assembled; usage is the maximum; a lost client is an error; a
  cancelled turn returns.
- *Correlation*: an id names one buffer; ambiguity is noticed and then nothing
  is handed on; arguments are neither lost, repeated nor reordered, on the wire
  and in the response.
- *Run*: one bracket, whatever fails in which turn; a success only if the client
  saw it; every call handed to the application is visible, every result follows
  its call.
- *Conversion*: what identifies a message survives the way to Eino and back;
  nothing is shared between the client's messages and the model's; no encrypted
  value is sent.
- *Tool binding*: no keyword of a schema is lost unnoticed; a name means one tool.
- *Test ids*: a test's ids do not depend on other tests or on its own threads;
  every test gets the lock.

The behaviours hard to test are listed, at their lines, under `hazards` in
`PROJECT.json`, each with the properties that watch it.

## The modules

    Emitter            operators on an emitter record, one per helper
      WireProperties     predicates on a wire (a sequence of frames)
        EmitterSpec        one emitter, any caller                MCEmitter
          EmitterProofs      lemmas: what each helper preserves
            EmitterSpecProofs  theorems about EmitterSpec
      ToolCalls          operators on the correlation tables
        StreamTurn         one turn: the state machine
          TurnProperties     its properties
            TurnRefinement     StreamTurn implements TurnLog      MCStreamTurn
            TurnProofs         the turn's inductive invariant, what follows
              TurnWireProofs     the wire, correlation over a whole stream
                TurnDataProofs     transcript and calls against the wire; the refinement
            AgentRun           several turns on one emitter       MCAgentRun
              AgentRunProofs     theorems about it, from those of the turn
    Selection          the elements of a list that are in a set, in order
    TurnLog            the abstract turn: a log of messages; its theorem
    Conversion         the pure conversions
      Conversation       history -> Eino -> snapshot              MCConversation
    ToolBinding        the binding of client tools                MCToolBinding
    TestIds            generators and their locks                 MCTestIds
      TestIdsProofs      theorems about it

**Emitter.** An emitter is a record with the fields of the Go struct, and a
helper is an operator from record to record, so that `EmitterSpec` and
`StreamTurn` use the same text and a lemma about a helper serves both. Two
fields are not in the code: `script`, the outcomes the SSE writer will produce
for the next events handed to it (written, rejected, or broken in transport),
and `wire`, the frames the client received. `cancels` counts calls of `cancel`.
`Emit` also returns a boolean in the code; here that is `Wrote`. `WriteEvent`
first validates (`Valid`: an event about a message needs its id), then follows
the script. The helpers that only build an event and send it (run, step,
subagent, snapshot, custom) are `SendEvent`; the two deltas that skip an empty
patch are `SendPatch`.

**EmitterSpec.** `Next` is one call of any helper with any message id, call id,
name and delta, empty ones included. It models callers that break every rule of
ordering, so what holds there is the emitter's own promise.

**ToolCalls.** `toolOrder`, `indexed` and `byID` are one record; a pointer to a
buffer is its position in `toolOrder`, 0 for nil. `WithBuffer`, `Ambiguous` and
`Claim` are the parts of `correlateToolCall` in their order: a buffer made for a
refused fragment stays in `toolOrder`, as in the code. A fragment without index
and id is skipped before correlation. `Type` and `Extra` are left out. The loop of
`ToAGUIToolCalls` that drops calls without an id is `Selected` (module
`Selection`), a recursive function; the properties read the wire with the same
operator, so that its lemmas serve both.

**StreamTurn.** `pc` is the place in the turn. Straight-line code is one action;
each loop takes one action per iteration, so that a cancellation can come
between iterations.

| `pc` | Code | Actions |
| --- | --- | --- |
| `open` | `cm.Stream` | `OpenFails`, `OpenStream` |
| `check` | `ctx.Err`, `emit.Err` | `CheckRequest` |
| `recv` | `sr.Recv`, start of `applyChunk` | `RecvEOF`, `RecvError`, `RecvChunk`, `RecvKeepAlive` |
| `end` | `endToolCalls` | `EndCall`, `CallsEnded`; then on to `after` |
| `reasoning`, `text` | `applyReasoning`, `applyText` after `endToolCalls` | `ApplyReasoning`, `ApplyText` |
| `tools` | `applyToolCalls` | `SkipFragment`, `EnsureToolOwner`, `RefuseFragment`, `AcceptFragment`, `ChunkDone` |
| `flush` | `startIfReady`'s loop | `FlushArg`, `FragmentDone` |
| `close`, `conclude` | `finish` | `CloseBlocks`, (`end`), `ConcludeEmpty`, `Conclude` |

Data is abstract: a text is the sequence of the pieces it was built from, piece
`i` of chunk `k` being `<<k, i>>`, so loss, repetition and reordering are
visible. Message ids are numbers in the order `GenerateMessageID` hands them
out; 0 is the empty id. A nil chunk is applied like an empty one. `schema.ConcatMessages`
may fail on anything (`\E concat`). `late` counts chunks received since the
request was cancelled, up to `MaxLate`; it is a history variable.

`end()` calls `startIfReady` once more; a live buffer that is ready has always
been started by `update` (the first half of `StartedUnderOwner`, proved), so
`EndCall` does not repeat the start.

`LiveResume = FALSE` is an assumption about the *provider*: once live tool calls
began, no tool-call fragment follows reasoning or text. The library's own tests and the
example have only that shape. With `LiveResume = TRUE` three promises fail; see
the findings.

**TurnLog** is the turn as its caller may think of it, without chunks, frames or
tables: at most one open message, a log of completed ones, one owner, a client
that may be lost, one return. **TurnRefinement** says how `StreamTurn` implements
it. The open message is the text or the reasoning block, and none once the
emitter has an error, for the code forgets the block only later, in
`closeBlocks`; the log is `wireMessages`, the used ids are `nextID - 1`. The
steps map as follows:

| `StreamTurn` | `TurnLog` |
| --- | --- |
| `ApplyReasoning`, `ApplyText` | `Continue` (same block), `Switch` (new one), or `Lose` |
| `EnsureToolOwner` | `Own` or `Lose` |
| `EndCall`, `AcceptFragment`, `FlushArg` | nothing, or `Lose` |
| `CloseBlocks` | `Complete`, `Lose`, or nothing |
| `OpenFails`, `ConcludeEmpty`, `Conclude` | `Return` |
| everything else | nothing |

`Lose` allows a log that includes the block just ended and a used id that never
appears: the frame after an END may be the one that is lost.

**AgentRun** composes turns. It contains the whole of `StreamTurn` (`InTurn`) and
adds the code around it: `run` of the example (RUN_STARTED, the turn, RUN_ERROR
or RUN_FINISHED, the final flush) and `ClassifyToolCalls`. Between the turns
stands the application, which the repository describes only by its API: calls
that were not streamed live are proposed, calls of the server's tools are
answered by `ToolResult`, and the model is asked again unless the client has to
act. These actions are marked external in `PROJECT.json`. A new turn has a new
`turnState`; the emitter, the ids and the context are those of the run. A call
without a name is not proposed or answered: it names no tool. `Arguments` sends the
pieces of one call, one frame each. `KeepsNames` is an assumption about the
provider: two fragments that may belong to one call do not carry two names. A
provider that renamed a call would have the START on the wire name the old
tool and the response the new one, which `CallsShown` would report.

**Conversion** and **Conversation.** The conversions are functions on values.
Since their hazard is sharing, every Go map, slice and pointer target carries
the place where it lives, and a copy lives at a new place; `Clone` is the deep
copy of `protocolmeta`: maps, slices, arrays and pointers are copied, any other value,
a struct among them, is returned as it is. `Conversation` is the life of a history: received,
converted for the model, answered, converted back, sent as a snapshot. The
snapshot sent may also be the history itself. Text is the sequence of its
fragments; the newline between two parts is left out.

**ToolBinding.** `ClientToolInfos`, one tool per action. What the `jsonschema`
package makes of a schema is external (`Readings`): at any depth a map may lose
members or become `true`, as an empty schema does, and a list may lose its end. A
list read as something else, or one scalar as another, is left out: the code's
comparison, `RejectUnsupportedValue`, does not see those.

**TestIds.** `WithGenerator` and its cleanup are five steps of a test (lock,
save, install, restore, unlock), `generate` is two steps under the generator's
own lock, after the unlocked read of the SDK's default. A test installs one
generator; `WithGenerator`'s comment forbids `t.Parallel`, and its lock is what
guards against tests that do it nevertheless.

## Runs

| Run | Instance | Question | Result |
| --- | --- | --- | --- |
| `emitter` | two call ids, message ids "", 1, 2, up to 4 frames, the writer rejects or breaks at any of the first four events | what the emitter promises any caller | holds, 1.4M states |
| `stream` | 3 chunks of 31 shapes, two indices, two ids, live and not live, working writer | wire, transcript, correlation, response | holds, 620k states |
| `stream_faults` | 3 chunks of 8 shapes, a fault at any of the first eight events, resumed calls | transcript against wire, usage, ends; the arguments the client has are the first the provider sent; the turn implements `TurnLog` | holds, 645k states |
| `stream_cancel` | 2 chunks, then keep-alives for ever, a break at any of the first seven events | a cancelled turn returns | holds, 35k states |
| `agent_run` | 2 turns of 2 chunks of 8 shapes, a server's and a client's tool, a break at any of the first 13 events or a rejected first one, cancelled anywhere | bracket, success, visible calls, results | holds, 916k states |
| `conversation` | histories of one and two messages of every role with parts, images, nested metadata, calls with secrets; three answers | identity, sharing, secrets | holds, 147k states |
| `tool_binding` | lists of up to three tools, seven kinds of parameters, strict and lenient | nothing lost, names | holds, 40k states |
| `test_ids` | three tests, one with two goroutines, three ids each | ids, restoring, every test ends | holds, 2035 states |
| `resumed_block` | live, resumed calls | frames inside their block | violated |
| `resumed_clash` | live, resumed calls, 4 chunks | ambiguity detected | violated |
| `resumed_arguments` | live, resumed calls | response keeps arguments | violated |

The bounds. `MaxFrames`: a helper is not called on a wire of four frames, but a
call on three may still write four more (a tool frame closes three blocks), so
wires reach seven frames: enough for a block that is opened, overtaken by
another and met by a tool call, and for a call that is started, fed, ended and
repeated. `MaxChunks`: three chunks hold a switch to another kind of block and
back, or two calls whose index, id and name arrive in different orders, and one
chunk may carry reasoning, text and two fragments. The chunk shapes name an
argument piece by index alone, by index and id, or by id alone, with and without the
name. They are closed under exchanging the two indices or the two ids, so the
symmetry of `stream` is sound. `Counts` are the values a
usage counter is reported with; -1, 0, 1 and 2 distinguish an absurd, a first, a
largest and a last report. Beyond `MaxChunks` the provider
sends empty chunks, so a turn never ends merely because the bound was reached.

In `agent_run` two turns are enough for an id to return, for a failure after a
success and for results between turns; a third repeats the second. In
`conversation` two messages suffice, because the conversion of one does not
depend on another except through order, the numbering of ids and `NeedsScrub`,
which looks for one secret among many. In `tool_binding` three tools give an
equal name that is not next to the first. In `test_ids` the third test waits
while the lock passes between the others.

`MCEmitter.cfg` turns the deadlock check off: a caller may stop calling, and
does at `MaxFrames`. So do `MCConversation.cfg` and `MCToolBinding.cfg`: a conversation ends when it was sent, a binding when it
succeeded or was rejected. A returned turn, an ended run and finished tests
stutter explicitly (`Returned`, `Ended`, `AllDone`), and there deadlock is checked.

### Fairness

`FairSpec` assumes weak fairness of `LocalStep`, the turn's own goroutine, and
of `Recv` while the request is cancelled: the provider was given the context
(`cm.Stream(ctx, messages)`) and has to answer a pending `Recv` once it is done.
Nothing is assumed of a provider before that: it may be silent for ever, so a
turn that is neither cancelled nor disconnected need not end. The keep-alive
chunks matter: without the look at the context `CancelEndsTurn` fails.

`TestIds` assumes weak fairness of each test's own step and of each goroutine
that has entered `generate`: the Go scheduler runs what can run. A goroutine
need not ask for ids. A waiting `Lock` is enabled only while the lock is free;
weak fairness is enough because there are finitely many tests and each takes the
lock once. `AgentRun` has safety properties only.

### Findings

1. *A resumed call closes the text block behind the turn's back*
   (`resumed_block`, `stream/state.go:162`). Live events; tool call, then text,
   then a new tool call. The turn already has an owner, so `ensureToolOwner`
   returns before it closes the text. The emitter's `ToolStart` writes the
   `TEXT_MESSAGE_END` instead, while `textOpen` stays true: later text goes to an
   ended message, and the message ends twice. The plan
   (`.agents/plans/ag-ui-eino-upgrade/03-stream-correlation.md:60-61`) says that
   blocks never overlap and that a reopened block gets a fresh id.
2. *A changed id passes unnoticed* (`resumed_clash`, `stream/tool_calls.go:57`).
   An index whose buffer was ended before it learnt an id ignores every later
   id, so two different ids at that index are never compared.
   `docs/decisions/0004-stream-helper-assignment.md:14` promises a
   `CorrelationError`.
3. *Late arguments disappear from the response* (`resumed_arguments`,
   `stream/tool_calls.go:57`). The ended buffer also drops arguments, and
   `finish` replaces the concatenated calls by the buffers'. With live events
   off the same stream keeps them. `stream/stream.go:18` calls `Assistant` "the
   concatenated provider response".

Limits seen while modelling, which no document denies and no run states. A frame the SDK *rejects*
does not stop its message from joining `WireMessages` (`TranscriptMatchesWire`
is conditional on no rejection, and `closeOpenBlocks` forgets a block whose END
was rejected); it takes an SDK writer that refuses a valid event. Tool-call
ids are remembered for the life of the emitter, so a second turn that reuses an
id shows nothing on the wire; `CallsShown` speaks of ids no earlier turn used.
`ToEinoImagePart` stores `&p.Source.Value`, the string of the client's own
message, and a struct inside metadata is returned by `protocolmeta` uncopied;
`NothingShared` names both and states that everything else is copied.

## Proofs

Every theorem holds for all values of the constants: any set of ids, names,
chunks, scripts of the writer, tests and goroutines, and wires of any length.
Every safety property of the emitter, of a turn, of a run and of the test ids is
proved, except `SeenArgumentsArePrefix`.

| Module | Theorem | States |
| --- | --- | --- |
| `EmitterSpecProofs` | `TypeCorrect` | `TypeOK` of the emitter |
| | `LifecyclesOrdered` | `ToolFramesOrdered` |
| | `BookkeepingCorrect` | `BookkeepingMatchesWire` |
| | `ToolsStayOutside` | `ToolFramesOutsideBlocks` |
| | `CancelledOnceOnly` | `CancelledOnce` |
| | `DisconnectFinal` | `DisconnectIsFinal` |
| `TurnProofs` | `TurnTypes` | `TypeOK` of the turn |
| | `BuffersAreIdentified` | `IDsIdentifyBuffers` |
| | `AmbiguityKeepsNothing` | `AmbiguousNeverAttached` |
| | `DisconnectsAreReported` | `NoSilentDisconnect` |
| | `ReceivingStops` | `StopsReceiving` |
| | `UsageIsTheMaximum` | `UsageIsMaximum` |
| | `CallsStartUnderOwner` | `StartedUnderOwner` |
| | `TurnKeepsLifecycles` | the emitter's promises on the turn's wire |
| `TurnWireProofs` | `BlocksStayApart` | `BlocksNeverOverlap` |
| | `NothingDangles` | `EverythingStartedEnds` |
| | `TranscriptIsComplete` | `EndedBlocksInTranscript` |
| | `FramesStayInside` (*) | `FramesInsideTheirBlock` |
| | `IDsAreUsedOnce` (*) | `BlockIDsAreFresh` |
| | `ClashesAreRefused` (*) | `AmbiguityDetected` |
| | `ResponseIsComplete` (*) | `ResponseKeepsArguments` |
| `TurnDataProofs` | `TranscriptIsAssembled` | `TranscriptMatchesWire` |
| | `ArgumentsReachTheWire` | `ArgumentsConserved` |
| | `CallerGetsStreamedCalls` | `OwnerCallsMatchWire` |
| | `TurnImplementsLog` | `ImplementsTurnLog` |
| | `TranscriptIsInOrder` | `TranscriptInOrder` |
| `TurnLog` | `LogInOrder` | the log of `TurnLog` is ordered by id |
| `AgentRunProofs` | `RunInvariant` | the turn's invariants in every turn, a settled emitter between turns |
| | `RunsAreBracketed` | `RunBracketed` |
| | `SuccessWasSeen` | `SuccessIsSeen` |
| | `CallsAreShown` | `CallsShown` |
| | `ResultsComeAfterCalls` | `ResultsFollowCalls` |
| `TestIdsProofs` | `DeterministicIds` | `IdsAreDeterministic` |
| | `RestoredGenerator` | `OriginalRestored` |

Assumed are only the named assumptions of the modules: the empty id, name and
delta are not proper ones, an absent index is not an index (`Emitter`,
`ToolCalls`); scripts are sequences of outcomes, message ids are numbers,
the bounds are positive (`EmitterSpec`, `StreamTurn`); a goroutine belongs to a
test (`TestIds`).

(*) These four have the hypothesis `LiveResume = FALSE`, and no other theorem
has it. It is not for convenience: without it they are false, of the model and of
the code. Three of them are what the findings violate (`MCResumedBlock.cfg`,
`MCResumedClash.cfg`, `MCResumedArguments.cfg`), and the block of the first
finding also ends twice. Everything else is
proved of providers that do resume. The hypothesis restricts live turns only.

### The arguments

*Emitter, first invariant* (`EmitterInv`): type, lifecycle, bookkeeping and
cancellation together. The lifecycle alone is not inductive: that a START may be
appended follows only from the emitter's memory being equal to the wire's
history. Each helper is proved to preserve it, through one lemma about appending
a frame that is not a call frame and one for each call frame. The lemmas are
about the operators, not about `EmitterSpec`; the proofs about `StreamTurn` cite
them.

*Emitter, second invariant* (`BlockInv`): `ToolFramesOutsideBlocks` speaks of the
blocks on the wire, the code only of three remembered ids. The link is `Tracks`:
of the blocks of one kind, the one started last is either ended or is the
remembered one. It holds while no frame was lost, because a START is remembered
only if written and forgotten only with its END. After a transport failure the
wire is frozen; after a rejection nothing is claimed, which is why the property
is conditional.

*Emitter, third invariant* (`WireOK`): for a caller that starts a block only when
none is open, as the turn does, the link is an equivalence: a block is open on the
wire exactly if it is the remembered one (`MarksAll`), and the frames keep apart
(`Apart`). `Within` adds that each frame belongs to its open block; it is kept
separate because it alone needs a caller that never uses a block the emitter has
closed behind its back.

*Turn* (`TurnInv`): the union of seven parts, each disturbed by few actions.
`ControlInv` says where the turn holds a chunk; `EmitterOK` that the emitter is
sound, that the turn is not at a place where it would go on although the client
is gone, and that `conclude` is reached with an error if it is; `BlocksInv` that
at most one block is open and none at the end; `TranscriptInv` that no message
has calls before the return and that the owner is in the list. `CallsInv` is
what makes `IDsIdentifyBuffers` inductive: `byID` leads from every id a buffer
has back to that buffer, and where it leads to another buffer, that one had
ended when the id came. `ReturnInv` and `LateInv` are about the result and the
chunks received after a cancellation. `Later` (the emitter is sound and an error
stays) is proved of every helper once and cited for each action. `TypeOK` needs
`TypesReturned` besides: what the response and the owner's calls are.

*Usage* (`UsageInv`): for each counter the usage is an upper bound of zero and the
reports, and one of them, which is what `Max` chooses. *Owner* (`StartedInv`): every START
on the wire names the owner, and there is none before the turn has one; the
transcript only grows, so the owner stays where `toolOwnerIndex` says. Both this
invariant and `ArgsInv` below take a parameter, `earlier`: the ids of the turns
before, whose calls are on the wire already and of which the turn claims nothing.
For a turn alone it is the empty set.

*Wire of a turn* (`TurnWireInv`): the emitter remembers no block the turn has
closed (`TextHeld`, `ReasoningHeld`; the converse fails, see the first finding);
a call started and not ended is in a buffer, live, and not ended there either
(`CallsHeld`); and `endToolCalls` has ended every buffer where reasoning or text
goes on and before `conclude` (`CallsDone`). So no block starts while something
is open, and nothing is open at the end. `EndsListed` adds that a block ended on
the wire is listed or still open in the turn, which will list it.

*No resumed calls* (`Uninterrupted`): with the hypothesis, once the turn goes on
to other content after its calls no further fragment arrives, so that a tool frame
never meets an open block. It speaks of the history of chunks (`CallsSeen`, `WentOn`),
because what the provider may still send depends on what it sent. With `Kept`
(the blocks the turn has open are the ones the emitter remembers) frames stay inside.
`FreshInv` counts: ids on the wire were generated, each frame that may occur once
occurs once, and the END of an open block was not sent; it needs no condition on
rejected frames.

*Correlation over a stream* (`PlaceInv`, `GatherInv`): every fragment applied so far
is `Placed`: the tables lead from its index and its id to one buffer, which keeps
both. A clash would put two fragments in one place with two ids, or one id in two
places. The arguments of a buffer are, in order of arrival, the fragments
addressed to it (`Spelled`); "applied" is all received but the rest of the chunk
in hand (`Pending`), which is what makes the statement hold between any two
steps. Both would fail at an ended buffer; `PlaceInv` says that buffers end only
when the provider has gone on to other content or the turn is finishing.

*Transcript against wire* (`DataInv`): a listed message has what its frames said
(`ListedInv`), the open block would, if it were listed now (`OpenInv`), and
nothing was said yet under an id still to be generated (`IdsInv`), so that a new
block begins from nothing and an old message is never added to. The emitter's
helpers are shown to say nothing but their own delta (`Said`, `Continues`).

*Arguments against wire* (`ArgsInv`): what was said of a call and what is postponed
make up what was merged (`SpokenInv`). Not inductive alone: a started call
has postponed arguments only while its own flush runs (`FlushOnly`), the
emitter agrees that it is started and not ended (`Backed`), and each call the
emitter started has a buffer (`StartedHeld`). That one buffer only speaks for a
call is `IDsIdentifyBuffers` again.

*Refinement*: under `TurnInv` every action of `StreamTurn` is a step of `TurnLog`
or leaves its variables alone, one lemma per action. That the transcript is
ordered is proved of the small log (`InOrder`, with `used` as the upper
bound of all ids, the open message's included) and carried over by instantiation.

*Run* (`RunInv`): during a turn the turn's own invariants hold (`TurnOK`), between turns
the emitter is `Settled` (no block is remembered, every started call is ended), and the wire
is `Amid` its bracket: RUN_STARTED is first and nothing on it ends the run. That a turn
hands the emitter on settled is `NothingOpen`; that the next one may take it, with new
tables, is `NextTurn`'s part: `TurnInv` asks of the emitter only what is settled, and
a turn that succeeded received nothing after a cancellation. What any step adds to the
wire is stated once, as a set of frames (`More`), for each helper and then for
each action of a turn: none is a frame of the run.

*Calls of a run* (`ShownInv`): the turns that are over have their calls on the wire
(`AllShown`), and only frames that say nothing of those calls are added. For the
current turn there are two forms. While it runs, `TurnCalls` takes the turn's own
`StartedInv` and `ArgsInv` with the ids of the turns before as `earlier`, and adds
`NamesInv`: a buffer is called what some fragment that belongs to it was called,
and each START on the wire has the name of the buffer it started, or is of an
earlier call and of a tool of the server. This is where `KeepsNames` is needed, and
only here: without it a second name would replace the first after START, and neither
theorem would hold. Once it is over, `CallsBetween` says of every call with an id
and a name that it is on the wire whole, or was used by an earlier turn, or is
still to be proposed. The step from one form to the other (`TurnSucceeded`) is the
longest: live calls are on the wire because their turn ended them (`StreamedOnWire`),
of the others nothing is (`UnstreamedIsEarlier`).

*Results of a run*: `Following` says that a result has the START, of a tool of the
server, and the END of its call before it; only `Answer` writes results, and it
finds both by `CallsBetween` (`AnsweredCall`): the model is asked again only
if the client has no call to run, so a call that an earlier turn showed was the
server's too. That the id of a result is its own is `SpentInv`, apart from the rest: all
ids on the wire and all ids in use (the open blocks, the owner) were generated, and
no result has one of the ids in use, so whatever a later step writes under them, or
under an id it generates, is not the result again. It needs of every step only which
ids it writes (`SpentOn`).

*Test ids* (`Inv`): a generator's next number is one more than the ids its test
has got, and a goroutine between reading and counting holds the generator's lock
and has that number; `globalMu` is held by the test between its lock and its
unlock, the default generator is that test's while it runs and the original
otherwise, and the original is what it saved.

*Lists.* What `Selected` returns is proved by induction, in the form `SetInduction`:
a set of numbers with 0 and with the successors of its members has all numbers,
which follows from a least number (`WFMin` and `NatLessThanWellFounded` of the
library). The library's induction rules themselves take a predicate as
parameter, which the provers cannot instantiate.

### Model-checked only

- `Conversation` (`RoundTripKeepsIdentity`, `NothingShared`, `NoSecretSent`) and
  `ToolBinding` (`NothingLost`, `NamesIdentifyTools`): their values are nested, and
  what their recursive operators compute is an induction over that structure.
- `SeenArgumentsArePrefix`: the invariants `GatherInv` and `ArgsInv` (above)
  say it of providers that do not resume and of clients that missed nothing; the
  other cases are left to `stream_faults`.
- `CancelEndsTurn` and `EveryTestEnds`: liveness under fairness.

## Not modelled

- `convert/usage.go`: a copy field by field without state; a model would repeat
  the code.
- `internal/testmodel`, `internal/testsse`: doubles of the provider and of the
  transport, in whose place the models have nondeterministic choice.
- `internal/golden`: rewrites recorded frames by regular expressions for
  comparison in tests.
- Bytes, JSON text, MIME types, formatting and logging; `Type` and `Extra` of a
  call inside a turn; the prefix and the kind in a test id; named
  types in `protocolmeta`; descriptions and metadata of bound tools, whose copy
  is the one of `Conversion`.
- Concurrent calls of one emitter, which its documentation excludes.
- A test that installs two generators: it waits for itself (`generator.go:58`).
- Rejections by the SDK's writer of valid events, beyond the conditions named
  above.
