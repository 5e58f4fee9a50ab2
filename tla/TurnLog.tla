------------------------------- MODULE TurnLog -------------------------------
(***************************************************************************)
(* What a turn promises its caller, told without chunks, frames and        *)
(* tool-call tables: a turn writes down a conversation.  At most one       *)
(* message is open at a time; it grows by what the model says and joins    *)
(* the log when the model turns to something else.  Once, a message is     *)
(* logged that owns the turn's tool calls.  When the client is lost the    *)
(* log is frozen and what was open is dropped.  The turn returns once,     *)
(* with everything said logged or dropped, and only then does the owner    *)
(* receive its calls.                                                      *)
(*                                                                         *)
(* StreamTurn implements this specification; TurnRefinement says how.      *)
(***************************************************************************)
EXTENDS Naturals, Sequences, TLAPS

CONSTANT Pieces    \* the pieces of text the model says

VARIABLES
    open,       \* the message being written, or None
    log,        \* the messages completed: Result.WireMessages
    used,       \* the ids handed out so far are 1..used
    owner,      \* position in the log of the tool calls' owner, 0 before
    state,      \* "running", "lost" or "returned"
    complete    \* whether the result returned is a complete one

vars == <<open, log, used, owner, state, complete>>

Entry(id, role, content) == [id |-> id, role |-> role, content |-> content, calls |-> <<>>]
Roles == {"assistant", "reasoning"}
None  == Entry(0, "none", <<>>)

Completed == IF open = None THEN log ELSE Append(log, open)

Init ==
    /\ open = None /\ log = <<>>
    /\ used = 0 /\ owner = 0
    /\ state = "running" /\ complete = FALSE

(* The model goes on with the open message. *)
Continue ==
    /\ state = "running" /\ open # None
    /\ \E p \in Pieces : open' = [open EXCEPT !.content = Append(@, p)]
    /\ UNCHANGED <<log, used, owner, state, complete>>

(* The model says something of another kind: a new message under a new id. *)
Switch ==
    /\ state = "running"
    /\ \E role \in Roles \ {open.role}, p \in Pieces : open' = Entry(used + 1, role, <<p>>)
    /\ log' = Completed
    /\ used' = used + 1
    /\ UNCHANGED <<owner, state, complete>>

(* The first tool call: what is open is completed, the owner is logged. *)
Own ==
    /\ state = "running" /\ owner = 0
    /\ open' = None
    /\ log' = Append(Completed, Entry(used + 1, "assistant", <<>>))
    /\ owner' = Len(log')
    /\ used' = used + 1
    /\ UNCHANGED <<state, complete>>

Complete ==
    /\ state = "running" /\ open # None
    /\ open' = None /\ log' = Completed
    /\ UNCHANGED <<used, owner, state, complete>>

(* The client is lost, perhaps between the end of one message and the      *)
(* first words of the next.                                                *)
Lose ==
    /\ state = "running" /\ state' = "lost"
    /\ open' = None /\ log' \in {log, Completed}
    /\ used' \in {used, used + 1}
    /\ UNCHANGED <<owner, complete>>

(* The owner, if there is one, receives the calls; nothing else changes. *)
Return ==
    /\ state # "returned" /\ state' = "returned"
    /\ open = None
    /\ DOMAIN log' = DOMAIN log
    /\ \A i \in DOMAIN log :
           log'[i] = IF i = owner THEN [log[i] EXCEPT !.calls = log'[i].calls] ELSE log[i]
    /\ complete' => state = "running"
    /\ UNCHANGED <<open, used, owner>>

Next == Continue \/ Switch \/ Own \/ Complete \/ Lose \/ Return

Spec == Init /\ [][Next]_vars

-----------------------------------------------------------------------------
(* What follows from these actions alone holds of whatever implements them. *)

(* The log is in the order in which the ids were handed out. *)
InOrder == \A i, j \in DOMAIN log : i < j => log[i].id < log[j].id

(* LogInv: the open message has the latest id but for those that were lost.*)
Entries == [id : Nat, role : Roles, content : Seq(Pieces), calls : {<<>>}]

LogInv ==
    /\ used \in Nat
    /\ state # "returned" => log \in Seq(Entries)
    /\ open = None \/ (open \in Entries /\ open.id <= used)
    /\ \A i \in DOMAIN log : log[i].id \in Nat /\ log[i].id <= used
    /\ open # None => \A i \in DOMAIN log : log[i].id < open.id
    /\ InOrder

LEMMA LogInit == Init => LogInv
<1> SUFFICES ASSUME Init PROVE LogInv
  OBVIOUS
<1>1. log = <<>> /\ DOMAIN log = {} /\ log \in Seq(Entries)
  BY DEF Init
<1> QED
  BY <1>1 DEF Init, LogInv, InOrder

LEMMA CompletedFacts ==
    ASSUME LogInv, state # "returned"
    PROVE  /\ Completed \in Seq(Entries)
           /\ \A i \in DOMAIN Completed : Completed[i].id \in Nat /\ Completed[i].id <= used
           /\ \A i, j \in DOMAIN Completed : i < j => Completed[i].id < Completed[j].id
<1>1. log \in Seq(Entries) /\ used \in Nat
  BY DEF LogInv
<1>2. CASE open = None
  BY <1>1, <1>2 DEF Completed, LogInv, InOrder
<1>3. CASE open # None
  <2>1. open \in Entries /\ open.id <= used /\ open.id \in Nat
    BY <1>3 DEF LogInv, Entries
  <2>2. Completed = Append(log, open)
    BY <1>3 DEF Completed
  <2>3. /\ Completed \in Seq(Entries) /\ DOMAIN Completed = 1..(Len(log) + 1)
        /\ Len(log) \in Nat /\ DOMAIN log = 1..Len(log)
        /\ \A i \in 1..Len(log) : Completed[i] = log[i]
        /\ Completed[Len(log) + 1] = open
    BY <1>1, <2>1, <2>2
  <2> QED
    BY <1>1, <1>3, <2>1, <2>3 DEF LogInv, InOrder
<1> QED
  BY <1>2, <1>3

LEMMA LogNext == LogInv /\ [Next]_vars => LogInv'
<1> SUFFICES ASSUME LogInv, [Next]_vars PROVE LogInv'
  OBVIOUS
<1>1. CASE UNCHANGED vars
  BY <1>1 DEF vars, LogInv, InOrder
<1>2. CASE Continue
  <2>1. PICK p \in Pieces : open' = [open EXCEPT !.content = Append(@, p)]
    BY <1>2 DEF Continue
  <2>2. open \in Entries /\ open.id <= used
    BY <1>2 DEF Continue, LogInv
  <2>3. open.content \in Seq(Pieces) /\ Append(open.content, p) \in Seq(Pieces)
    BY <2>2 DEF Entries
  <2>4. open' \in Entries /\ open'.id = open.id
    BY <2>1, <2>2, <2>3 DEF Entries
  <2> QED
    BY <1>2, <2>2, <2>4 DEF Continue, LogInv, InOrder
<1>3. CASE Switch
  <2>1. PICK role \in Roles, p \in Pieces : open' = Entry(used + 1, role, <<p>>)
    BY <1>3 DEF Switch
  <2>2. open' \in Entries /\ open'.id = used + 1 /\ used \in Nat
    <3>1. <<p>> \in Seq(Pieces) /\ used \in Nat
      BY <2>1 DEF LogInv
    <3> QED
      BY <2>1, <3>1 DEF Entry, Entries
  <2>3. log' = Completed /\ used' = used + 1 /\ state # "returned"
    BY <1>3 DEF Switch
  <2> QED
    BY <2>2, <2>3, CompletedFacts DEF LogInv, InOrder
<1>4. CASE Own
  <2> DEFINE entry == Entry(used + 1, "assistant", <<>>)
  <2>1. /\ log' = Append(Completed, entry) /\ used' = used + 1 /\ open' = None
        /\ state # "returned" /\ used \in Nat
    BY <1>4 DEF Own, LogInv
  <2>2. entry \in Entries /\ entry.id = used + 1
    BY <2>1 DEF Entry, Entries, Roles
  <2> HIDE DEF entry
  <2>3. /\ Completed \in Seq(Entries)
        /\ \A i \in DOMAIN Completed : Completed[i].id \in Nat /\ Completed[i].id <= used
        /\ \A i, j \in DOMAIN Completed : i < j => Completed[i].id < Completed[j].id
    BY <2>1, CompletedFacts
  <2>4. /\ log' \in Seq(Entries) /\ DOMAIN log' = 1..(Len(Completed) + 1)
        /\ Len(Completed) \in Nat /\ DOMAIN Completed = 1..Len(Completed)
        /\ \A i \in 1..Len(Completed) : log'[i] = Completed[i]
        /\ log'[Len(Completed) + 1] = entry
    BY <2>1, <2>2, <2>3
  <2> HIDE DEF Completed
  <2>5. InOrder'
    BY <2>1, <2>2, <2>3, <2>4 DEF InOrder
  <2> QED
    BY <2>1, <2>2, <2>3, <2>4, <2>5 DEF LogInv
<1>5. CASE Complete
  BY <1>5, CompletedFacts DEF Complete, LogInv, InOrder
<1>6. CASE Lose
  <2>1. /\ log' \in {log, Completed} /\ used' \in Nat /\ used' >= used /\ open' = None
        /\ state # "returned" /\ used \in Nat
    BY <1>6 DEF Lose, LogInv
  <2>2. /\ log' \in Seq(Entries)
        /\ \A i \in DOMAIN log' : log'[i].id \in Nat /\ log'[i].id <= used
        /\ \A i, j \in DOMAIN log' : i < j => log'[i].id < log'[j].id
    BY <2>1, CompletedFacts DEF LogInv, InOrder
  <2> QED
    BY <2>1, <2>2 DEF LogInv, InOrder
<1>7. CASE Return
  <2>1. log \in Seq(Entries) /\ DOMAIN log' = DOMAIN log /\ state' = "returned"
        /\ open = None /\ open' = None /\ used' = used
    BY <1>7 DEF Return, LogInv
  <2>2. \A i \in DOMAIN log : log[i] \in Entries
    BY <2>1
  <2>3. \A m \in Entries : \A c : [m EXCEPT !.calls = c].id = m.id
    BY DEF Entries
  <2>4. \A i \in DOMAIN log : log'[i].id = log[i].id
    <3> SUFFICES ASSUME NEW i \in DOMAIN log
                 PROVE  log'[i].id = log[i].id
      OBVIOUS
    <3>1. log'[i] = IF i = owner THEN [log[i] EXCEPT !.calls = log'[i].calls] ELSE log[i]
      BY <1>7, Zenon DEF Return
    <3>2. [log[i] EXCEPT !.calls = log'[i].calls].id = log[i].id
      BY <2>2, <2>3
    <3> QED
      BY <3>1, <3>2
  <2>5. InOrder'
    BY <2>1, <2>4 DEF LogInv, InOrder
  <2>6. \A i \in DOMAIN log' : log'[i].id \in Nat /\ log'[i].id <= used'
    BY <2>1, <2>4 DEF LogInv
  <2>7. used' \in Nat /\ open' = None /\ state' = "returned"
    BY <2>1 DEF LogInv
  <2> QED
    BY <2>5, <2>6, <2>7 DEF LogInv
<1> QED
  BY <1>1, <1>2, <1>3, <1>4, <1>5, <1>6, <1>7 DEF Next

(* Messages are logged in the order of their ids, through lost clients and  *)
(* the insertion of the tool calls' owner.                                  *)
THEOREM LogInOrder == Spec => []InOrder
<1>1. LogInv => InOrder
  BY DEF LogInv
<1> QED
  BY <1>1, LogInit, LogNext, PTL DEF Spec
=============================================================================
