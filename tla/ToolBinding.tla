------------------------------ MODULE ToolBinding ------------------------------
(***************************************************************************)
(* ClientToolInfos (tools/binding.go): the client's tool definitions are   *)
(* bound one after the other, and the first that cannot be bound rejects   *)
(* them all.  The parameters are JSON; Eino's jsonschema package reads     *)
(* them into its own type, which has no place for keywords it does not     *)
(* know.  What is lost is found by writing that type as JSON again and     *)
(* comparing the two values.  The clone of a tool's metadata is that of    *)
(* Conversion and is left out, and so are descriptions.                    *)
(***************************************************************************)
EXTENDS Sequences, Naturals

CONSTANTS
    Tools,       \* the lists of tools a client may send
    NoToolName   \* the empty name

VARIABLES
    tools,       \* what the client sent: names and parameters
    lenient,     \* WithUnsupportedSchemaKeywords
    seen,        \* the names met so far
    out,         \* the tools bound so far
    read,        \* what the package read of the last parameters
    status       \* "binding", "bound", or why the client was rejected

vars == <<tools, lenient, seen, out, read, status>>

-----------------------------------------------------------------------------
(* JSON: a scalar, a list or a map, and what it holds.  "null" stands for   *)
(* nil and the JSON null, "malformed" for what is not a schema at all.      *)

JSON(kind, held) == [kind |-> kind, held |-> held]
Scalar == JSON("scalar", <<>>)
NoParameters == JSON("null", <<>>)

(***************************************************************************)
(* What the jsonschema package may make of a value: it leaves out members  *)
(* of maps at any depth and the ends of lists, and an empty schema is      *)
(* written as true.  That it reads a list as something else, or a scalar   *)
(* as another scalar, is left out: the comparison would not notice.        *)
(***************************************************************************)
RECURSIVE Readings(_)
Readings(v) ==
    LET of(kept) == {f \in [kept -> UNION {Readings(v.held[k]) : k \in kept}] :
                         \A k \in kept : f[k] \in Readings(v.held[k])}
    IN  CASE v.kind = "map"  -> {JSON("map", f) : f \in UNION {of(kept) : kept \in SUBSET DOMAIN v.held}}
                                  \cup {Scalar}
          [] v.kind = "list" -> {JSON("list", f) : f \in UNION {of(1..n) : n \in 0..Len(v.held)}}
          [] OTHER           -> {v}

(* rejectUnsupportedValue: some member of the original has no counterpart. *)
RECURSIVE RejectUnsupportedValue(_, _)
RejectUnsupportedValue(original, reading) ==
    \/ /\ original.kind = "map" /\ reading.kind # "map"
       /\ DOMAIN original.held # {}
    \/ /\ original.kind = reading.kind /\ original.kind \in {"map", "list"}
       /\ \E k \in DOMAIN original.held :
            \/ k \notin DOMAIN reading.held
            \/ RejectUnsupportedValue(original.held[k], reading.held[k])

(* Mutant: the members of members are not looked at. *)
LosesAtTop(original, reading) ==
    original.kind = "map" /\ ~(DOMAIN original.held \subseteq DOMAIN reading.held)
Loses(original, reading) == RejectUnsupportedValue(original, reading)

-----------------------------------------------------------------------------
Init ==
    /\ tools \in Tools /\ lenient \in BOOLEAN
    /\ seen = {} /\ out = <<>> /\ read = NoParameters /\ status = "binding"

Tool == tools[Len(out) + 1]

Binding  == status = "binding" /\ Len(out) < Len(tools)
BadName  == Tool.name = NoToolName \/ Tool.name \in seen

(* Mutant: a name is only compared with the tool before. *)
OnlyLast(name) == {name}
Seen(name)     == seen \cup {name}

Reject(why) == status' = why /\ UNCHANGED <<tools, lenient, seen, out>>

Accept(params) ==
    /\ out' = Append(out, [name |-> Tool.name, params |-> params])
    /\ seen' = Seen(Tool.name)
    /\ UNCHANGED <<tools, lenient, status>>

RejectName == Binding /\ BadName /\ Reject("name") /\ UNCHANGED read

(* A tool without arguments. *)
NoArguments ==
    /\ Binding /\ ~BadName /\ Tool.params = NoParameters
    /\ Accept(NoParameters) /\ UNCHANGED read

NotASchema ==
    /\ Binding /\ ~BadName /\ Tool.params.kind = "malformed"
    /\ Reject("schema") /\ UNCHANGED read

ReadSchema ==
    /\ Binding /\ ~BadName /\ Tool.params.kind \in {"map", "scalar"}
    /\ read' \in Readings(Tool.params)
    /\ IF ~lenient /\ Loses(Tool.params, read') THEN Reject("keyword") ELSE Accept(read')

Done ==
    /\ status = "binding" /\ Len(out) = Len(tools)
    /\ status' = "bound" /\ UNCHANGED <<tools, lenient, seen, out, read>>

Next == RejectName \/ NoArguments \/ NotASchema \/ ReadSchema \/ Done

Spec == Init /\ [][Next]_vars

-----------------------------------------------------------------------------
(* The places of a value, as the keys and indices that lead there. *)
RECURSIVE Paths(_)
Paths(v) ==
    {<<>>} \cup UNION {{<<k>> \o p : p \in Paths(v.held[k])} : k \in DOMAIN v.held}

(* No part of a schema is lost unnoticed: unless the application asked for  *)
(* it, every keyword and element of the parameters, at any depth, is in the *)
(* schema the model is given, whatever its scalars are, and only tools      *)
(* without parameters are bound without a schema.  And the client is told   *)
(* of a keyword only when one was lost.                                     *)
NothingLost ==
    /\ \A i \in DOMAIN out :
        /\ out[i].params = NoParameters <=> tools[i].params = NoParameters
        /\ lenient \/ Paths(tools[i].params) \subseteq Paths(out[i].params)
    /\ status = "keyword" => ~(Paths(Tool.params) \subseteq Paths(read))

(* A model's call names one tool: the names of the bound tools are distinct *)
(* and not empty, in the client's order, and they are bound all or none.    *)
NamesIdentifyTools ==
    /\ \A i \in DOMAIN out : out[i].name = tools[i].name /\ out[i].name # NoToolName
    /\ \A i, j \in DOMAIN out : i # j => out[i].name # out[j].name
    /\ status = "bound" => Len(out) = Len(tools)
=============================================================================
