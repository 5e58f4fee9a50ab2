----------------------------- MODULE Conversation -----------------------------
(***************************************************************************)
(* The way of a conversation through the library: the client's history is  *)
(* converted for the model, the model's answer is appended, and the whole  *)
(* is sent back to the client as a snapshot.  The history itself may be    *)
(* sent as well.                                                           *)
(***************************************************************************)
EXTENDS Conversion

CONSTANTS
    Histories,   \* the message histories a client sends
    Answers      \* what the application appends before the snapshot

VARIABLES
    history,     \* what the client sent
    vision,      \* WithVisionSupport
    eino,        \* the model's input, later with its answer
    snapshot,    \* the AG-UI messages made of it
    given,       \* what MessagesSnapshot was given
    sent,        \* what the client received
    writes,      \* the places MessagesSnapshot wrote to
    step         \* "received", "converted", "answered", "returned" or "sent"

vars == <<history, vision, eino, snapshot, given, sent, writes, step>>

Init ==
    /\ history \in Histories /\ vision \in BOOLEAN
    /\ eino = <<>> /\ snapshot = <<>> /\ given = <<>> /\ sent = <<>> /\ writes = {}
    /\ step = "received"

Convert ==
    /\ step = "received" /\ step' = "converted"
    /\ eino' = ToEinoMessages(history, vision)
    /\ UNCHANGED <<history, vision, snapshot, given, sent, writes>>

Answer ==
    /\ step = "converted" /\ step' = "answered"
    /\ \E answer \in Answers : eino' = eino \o answer
    /\ UNCHANGED <<history, vision, snapshot, given, sent, writes>>

Return ==
    /\ step = "answered" /\ step' = "returned"
    /\ snapshot' = ToAGUIMessages(eino, 1)
    /\ UNCHANGED <<history, vision, eino, given, sent, writes>>

Send ==
    /\ step = "returned" /\ step' = "sent"
    /\ given' \in {history, snapshot}
    /\ sent' = Scrub(given') /\ writes' = Written(given')
    /\ UNCHANGED <<history, vision, eino, snapshot>>

Next == Convert \/ Answer \/ Return \/ Send

Spec == Init /\ [][Next]_vars

-----------------------------------------------------------------------------
(* A message of the history that has something for the model.  The test     *)
(* looks at the fragments, not at how the conversion walks over them.       *)
Says(m)  == m.text # <<>> \/ \E i \in DOMAIN m.parts : m.parts[i].text # <<>>
Shows(m) == \E i \in DOMAIN m.parts :
                m.parts[i].type = "image" /\ m.parts[i].kind \in ImageKinds
                                          /\ m.parts[i].source # "none"
Matters(m) ==
    \/ m.role \in {"assistant", "tool"}
    \/ m.role \in {"system", "developer"} /\ Says(m)
    \/ m.role = "user" /\ (Says(m) \/ (vision /\ Shows(m)))

Counterpart(role) == IF role = "developer" THEN "system" ELSE role

SameCall(c, d) ==
    c.id = d.id /\ Look(c.metadata) = Look(d.metadata) /\ Look(c.secret) = Look(d.secret)

SameCalls(m, s) ==
    LET referable == SelectSeq(m.calls.list, LAMBDA c : c.id # NoID)
    IN  /\ Len(s.calls.list) = Len(referable)
        /\ \A i \in DOMAIN referable : SameCall(referable[i], s.calls.list[i])

(* The way to Eino and back keeps, message by message and in order, what    *)
(* identifies it: role, text, subagent, the tool call a result belongs to,  *)
(* metadata and tool calls with their encrypted values, each empty value    *)
(* distinct from an absent one.  Calls without an id are dropped, and the   *)
(* text of a message that carries an image is only in its parts, which have *)
(* no way back.                                                             *)
RoundTripKeepsIdentity ==
    step \in {"returned", "sent"} =>
        LET kept == SelectSeq(history, Matters) IN
        /\ Len(snapshot) >= Len(kept)
        /\ \A i \in DOMAIN kept :
             LET m == kept[i]  s == snapshot[i] IN
             /\ s.role = Counterpart(m.role)
             /\ s.text = IF m.role = "user" /\ vision /\ Shows(m) THEN <<>>
                         ELSE IF m.role \in {"assistant", "tool"} THEN m.text
                         ELSE m.text \o TextOf(m.parts)
             /\ Look(s.metadata) = Look(m.metadata) /\ s.subagent = m.subagent
             /\ m.role = "tool" => s.toolCallID = m.toolCallID
             /\ m.role = "assistant" => SameCalls(m, s)

-----------------------------------------------------------------------------
EnvelopePlaces(msgs) ==
    UNION {PlacesOf(msgs[i].metadata) \cup {msgs[i].calls.at} : i \in DOMAIN msgs}
    \cup UNION {UNION {PlacesOf(msgs[i].calls.list[j].metadata)
                         \cup PlacesOf(msgs[i].calls.list[j].secret) :
                           j \in DOMAIN msgs[i].calls.list} : i \in DOMAIN msgs}

ImagePlaces(msgs) ==
    UNION {{msgs[i].parts[j].image : j \in DOMAIN msgs[i].parts} : i \in DOMAIN msgs}
PartPlaces(msgs, sources) ==
    UNION {{p.at : p \in {q \in ToSet(msgs[i].parts) : q.source \in sources}} : i \in DOMAIN msgs}

(* Metadata, call lists and encrypted values are copied to the last nested  *)
(* map, slice, array and pointer in both directions: whoever changes the    *)
(* client's history, the model's messages or the snapshot changes only that *)
(* one.  Two things are shared, and no document says they are not: what a   *)
(* struct inside metadata refers to, and the string of an image's Source;   *)
(* an image the part holds itself is copied.                                *)
NothingShared ==
    /\ EnvelopePlaces(history) \cap EnvelopePlaces(eino) \subseteq {<<>>}
    /\ EnvelopePlaces(eino) \cap EnvelopePlaces(snapshot) \subseteq {<<>>}
    /\ EnvelopePlaces(history) \cap EnvelopePlaces(snapshot) \subseteq {<<>>}
    /\ ImagePlaces(eino) \cap PartPlaces(history, {"part", "Source"})
         \subseteq PartPlaces(history, {"Source"})

(* No encrypted value reaches the client in a snapshot, not of a message    *)
(* and not of a tool call at any position, nothing else is lost, and the    *)
(* messages given to MessagesSnapshot are not written to.                   *)
NoSecretSent ==
    step = "sent" =>
        /\ Len(sent) = Len(given)
        /\ \A i \in DOMAIN sent :
             /\ ~sent[i].secret /\ ~HasEncryptedToolCall(sent[i].calls)
             /\ [sent[i] EXCEPT !.secret = given[i].secret, !.calls = given[i].calls] = given[i]
             /\ Len(sent[i].calls.list) = Len(given[i].calls.list)
             /\ \A j \in DOMAIN sent[i].calls.list :
                  sent[i].calls.list[j] = [given[i].calls.list[j] EXCEPT !.secret = Nil]
        /\ writes \cap (EnvelopePlaces(history) \cup EnvelopePlaces(eino)
                          \cup EnvelopePlaces(snapshot)) = {}
=============================================================================
