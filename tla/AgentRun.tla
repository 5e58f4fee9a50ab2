------------------------------- MODULE AgentRun -------------------------------
(***************************************************************************)
(* A run: several turns, and what happens to their tool calls, on one      *)
(* emitter.  The bracket - RUN_STARTED, the turn, RUN_ERROR or             *)
(* RUN_FINISHED, the last flush - is run of examples/stream.  Between the  *)
(* turns stands the application, which the library leaves to its users: it *)
(* shows the calls that were not streamed live, answers the ones the       *)
(* server owns, and asks the model again unless the client has to act.     *)
(***************************************************************************)
EXTENDS TurnProperties

CONSTANTS
    ClientNames,   \* the tools the client brought
    MaxTurns       \* bound: the turns of a run

ASSUME RunAssumption == ClientNames \subseteq Names /\ MaxTurns \in Nat \ {0}

VARIABLES
    stage,      \* "start", "turn", "propose", "answer" or "ended"
    outcome,    \* what run reports: "none" yet, "ok" or "failed"
    turns,      \* the results of the turns that succeeded
    todo        \* the calls of the last turn still to be proposed or answered

runVars == <<stage, outcome, turns, todo>>
allVars == <<vars, runVars>>

RunInit == Init /\ stage = "start" /\ outcome = "none" /\ turns = <<>> /\ todo = <<>>

(* ClassifyToolCalls: a call with an id is the client's or the server's.    *)
(* The mutant of Server takes the client's calls as well.                   *)
CallsOf(names) == [id : ToolIDs, name : names, arguments : Seq(Tokens)]

Everyones(merged) == Selected(merged, CallsOf(Name))
Server(merged) == Selected(merged, CallsOf(Name \ ClientNames))
Client(merged) == Selected(merged, CallsOf(ClientNames))

Begin ==
    /\ stage = "start"
    /\ em' = RunStarted(em)
    /\ stage' = "turn"
    /\ UNCHANGED <<request, pc, cursor, after, primary, chunks, blocks, calls, usage, result,
                   outcome, turns, todo>>

(* The provider keeps the name of a call: it never sends two fragments that *)
(* may belong to one call under different names.                            *)
OneCall(f, g) ==
    /\ f.index = g.index \/ NoIndex \in {f.index, g.index}
    /\ f.id = g.id \/ NoID \in {f.id, g.id}

KeepsNames ==
    \A r, s \in Received :
        OneCall(FragmentAt(r), FragmentAt(s)) =>
            \/ FragmentAt(r).name = FragmentAt(s).name
            \/ NoName \in {FragmentAt(r).name, FragmentAt(s).name}

InTurn == stage = "turn" /\ TurnStep /\ KeepsNames' /\ UNCHANGED runVars

Interrupt == stage # "ended" /\ Cancel /\ UNCHANGED runVars

(* Mutant: run does not return after RUN_ERROR. *)
TurnFailedFallsThrough ==
    /\ stage = "turn" /\ pc = "done" /\ primary # "none"
    /\ em' = RunFinishedSuccess(RunError(em))
    /\ stage' = "ended" /\ outcome' = "failed"
    /\ UNCHANGED <<request, pc, cursor, after, primary, chunks, blocks, calls, usage, result,
                   turns, todo>>
TurnFailed ==
    /\ stage = "turn" /\ pc = "done" /\ primary # "none"
    /\ em' = RunError(em)
    /\ stage' = "ended" /\ outcome' = "failed"
    /\ UNCHANGED <<request, pc, cursor, after, primary, chunks, blocks, calls, usage, result,
                   turns, todo>>

(* A call without a name is no tool of anyone: the application refuses it. *)
Named(merged) == Selected(merged, CallsOf(Names))

TurnSucceeded ==
    /\ stage = "turn" /\ pc = "done" /\ primary = "none"
    /\ turns' = Append(turns, [owner |-> owner.id, calls |-> result.calls])
    /\ IF live THEN stage' = "answer" /\ todo' = Named(Server(result.calls))
       ELSE stage' = "propose" /\ todo' = Named(Server(result.calls) \o Client(result.calls))
    /\ UNCHANGED <<vars, outcome>>

(* A call that was not streamed live is shown after the turn. *)
Arguments(e, id, args) ==
    LET sent[n \in 0..Len(args)] == IF n = 0 THEN e ELSE ToolArgs(sent[n - 1], id, args[n])
    IN  sent[Len(args)]

Propose ==
    /\ stage = "propose" /\ todo # <<>>
    /\ LET c == Head(todo)
       IN  em' = ToolEnd(Arguments(ToolStart(em, c.id, c.name, owner.id), c.id, c.arguments), c.id)
    /\ todo' = Tail(todo)
    /\ UNCHANGED <<request, pc, cursor, after, primary, chunks, blocks, calls, usage, result,
                   stage, outcome, turns>>

AllProposed ==
    /\ stage = "propose" /\ todo = <<>>
    /\ stage' = "answer" /\ todo' = Named(Server(result.calls))
    /\ UNCHANGED <<vars, outcome, turns>>

Answer ==
    /\ stage = "answer" /\ todo # <<>>
    /\ em' = ToolResult(em, nextID, Head(todo).id, NoDelta)
    /\ nextID' = nextID + 1
    /\ todo' = Tail(todo)
    /\ UNCHANGED <<request, pc, cursor, after, primary, chunks, text, reasoning, wireMessages, owner,
                   calls, usage, result, stage, outcome, turns>>

Answered  == stage = "answer" /\ todo = <<>>
AsksAgain == Len(turns) < MaxTurns /\ Server(result.calls) # <<>> /\ Client(result.calls) = <<>>

(* The next call of StreamTurn, with a new turnState, on the same emitter. *)
NextTurn ==
    /\ Answered /\ AsksAgain
    /\ stage' = "turn"
    /\ pc' = "open" /\ cursor' = 1 /\ after' = "conclude"
    /\ primary' = "none"
    /\ chunks' = <<>>
    /\ text' = Closed /\ reasoning' = Closed
    /\ calls' = NoCalls /\ owner' = NoOwner
    /\ wireMessages' = <<>>
    /\ usage' = NoUsage
    /\ result' = NotReturned
    /\ UNCHANGED <<em, live, ctxDone, late, nextID, outcome, turns, todo>>

(* RUN_FINISHED; the last flush reports a client that is gone.  The mutant  *)
(* of FlushFails does not look.                                             *)
NeverFails(e) == FALSE
FlushFails(e) == e.err

Finished ==
    /\ Answered /\ ~AsksAgain
    /\ em' = RunFinishedSuccess(em)
    /\ stage' = "ended"
    /\ outcome' = IF FlushFails(em') THEN "failed" ELSE "ok"
    /\ UNCHANGED <<request, pc, cursor, after, primary, chunks, blocks, calls, usage, result,
                   turns, todo>>

Ended == stage = "ended" /\ UNCHANGED allVars

RunNext ==
    \/ Begin \/ InTurn \/ Interrupt \/ TurnFailed \/ TurnSucceeded
    \/ Propose \/ AllProposed \/ Answer \/ NextTurn \/ Finished \/ Ended

RunSpec == RunInit /\ [][RunNext]_allVars

-----------------------------------------------------------------------------
(* A client that missed no frame sees one run: RUN_STARTED first, at the    *)
(* end one RUN_FINISHED or RUN_ERROR with nothing after it, no matter in    *)
(* which turn and how the run stopped, and at that point no block and no    *)
(* tool call of any turn is left open.                                      *)
RunBracketed ==
    ~em.encErr =>
        /\ \A k \in DOMAIN wire :
             /\ wire[k].type = "RUN_STARTED" <=> k = 1
             /\ wire[k].type \in {"RUN_FINISHED", "RUN_ERROR"} => k = Len(wire) /\ stage = "ended"
        /\ stage = "ended" /\ ~em.err =>
             /\ wire[Len(wire)].type \in {"RUN_FINISHED", "RUN_ERROR"}
             /\ em.startedToolCalls = em.endedToolCalls
             /\ \A kind \in Kinds, i \in DOMAIN wire : ~OpenBefore(wire, kind, i, Len(wire) + 1)

(* A run is reported as a success only if the client saw it finish: a turn  *)
(* that failed, and a client lost in any frame including the last, is an    *)
(* error of run, and the client is never told both.                         *)
SuccessIsSeen ==
    outcome = "ok" /\ ~em.encErr => wire[Len(wire)].type = "RUN_FINISHED"

(* The calls a turn hands to the application are on the wire, whether they  *)
(* were streamed live or proposed afterwards: started once under the owner  *)
(* of that turn, with their arguments, and ended.  This holds for ids that  *)
(* no earlier turn used: the emitter remembers ids for the whole run.       *)
EarlierIDs(t) == UNION {{turns[s].calls[i].id : i \in DOMAIN turns[s].calls} : s \in 1..(t - 1)}

CallsShown ==
    Lossless =>
        \A t \in DOMAIN turns : t < Len(turns) \/ stage # "propose" =>
            \A i \in DOMAIN turns[t].calls :
                LET c == turns[t].calls[i] IN
                c.id # NoID /\ c.name # NoName /\ c.id \notin EarlierIDs(t) =>
                    /\ \E s, e \in DOMAIN wire :
                         /\ s < e /\ Starts(wire[s], c.id) /\ Ends(wire[e], c.id)
                         /\ wire[s].msg = turns[t].owner /\ wire[s].name = c.name
                    /\ ArgumentsOnWire(c.id) = c.arguments

(* A result reaches the client after the end of its call, once per turn,    *)
(* under an id of its own, and never for a tool the client has to run.      *)
ResultsFollowCalls ==
    Lossless =>
        \A k \in DOMAIN wire : wire[k].type = "TOOL_CALL_RESULT" =>
            /\ \E s, e \in 1..(k - 1) :
                 /\ Starts(wire[s], wire[k].call) /\ Ends(wire[e], wire[k].call)
                 /\ wire[s].name \notin ClientNames
            /\ \A j \in DOMAIN wire : wire[j].msg = wire[k].msg => j = k
=============================================================================
