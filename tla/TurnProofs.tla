------------------------------ MODULE TurnProofs ------------------------------
(***************************************************************************)
(* The inductive invariant of StreamTurn, for every value of the           *)
(* constants, and the safety properties of a turn that follow from it.     *)
(*                                                                         *)
(* The invariant says where in the turn the client may be gone, when a     *)
(* block is open, what the tool-call tables may hold, and what the         *)
(* transcript is before the turn returns.  It is the union of parts, each  *)
(* disturbed by few actions.                                               *)
(*                                                                         *)
(* What a turn's result says about its chunks and its frames comes last:   *)
(* the usage is the maximum of the reports, and a tool call is started as  *)
(* soon as it can be, under the owner the result names.                    *)
(***************************************************************************)
EXTENDS TurnProperties, EmitterProofs, WellFoundedInduction

(***************************************************************************)
(* Lists.  What Selected returns is a matter of induction: over sets of    *)
(* numbers, from the least number of a set.                                *)
(***************************************************************************)
LEMMA LeastNumber ==
    ASSUME NEW T, T \subseteq Nat, T # {}
    PROVE  \E x \in T : \A y \in T : x <= y
<1> DEFINE R == OpToRel(<, Nat)
<1>1. IsWellFoundedOn(R, Nat)
  BY NatLessThanWellFounded
<1>2. \A x, y \in Nat : x < y => <<x, y>> \in R
  BY DEF OpToRel
<1> HIDE DEF R
<1>3. \E x \in T : \A y \in T : ~(<<y, x>> \in R)
  BY <1>1, WFMin
<1>4. PICK x \in T : \A y \in T : ~(<<y, x>> \in R)
  BY <1>3
<1>5. \A y \in T : ~(y < x)
  BY <1>2, <1>4
<1>6. \A y \in T : x <= y
  BY <1>5
<1> QED
  BY <1>6

LEMMA SetInduction ==
    ASSUME NEW T, 0 \in T, \A n \in Nat : n \in T => n + 1 \in T
    PROVE  Nat \subseteq T
<1> DEFINE U == Nat \ T
<1> SUFFICES ASSUME U # {} PROVE FALSE
  OBVIOUS
<1>1. PICK x \in U : \A y \in U : x <= y
  BY LeastNumber
<1>2. x # 0 /\ x \in Nat
  BY <1>1
<1>3. x - 1 \in Nat /\ x - 1 \notin U
  BY <1>1, <1>2
<1> QED
  BY <1>1, <1>2, <1>3

(* The elements kept of the first n. *)
KeptBy(kept, list, wanted, N) ==
    kept = [n \in 0..N |-> IF n = 0 THEN <<>>
                           ELSE IF list[n] \in wanted THEN Append(kept[n - 1], list[n])
                           ELSE kept[n - 1]]

LEMMA KeptSteps ==
    ASSUME NEW kept, NEW list, NEW wanted, NEW N \in Nat, KeptBy(kept, list, wanted, N)
    PROVE  /\ kept[0] = <<>>
           /\ \A n \in 1..N : kept[n] = IF list[n] \in wanted THEN Append(kept[n - 1], list[n])
                                        ELSE kept[n - 1]
<1>1. \A n \in 0..N : kept[n] = IF n = 0 THEN <<>>
                                ELSE IF list[n] \in wanted THEN Append(kept[n - 1], list[n])
                                ELSE kept[n - 1]
  BY DEF KeptBy
<1> QED
  BY <1>1

LEMMA KeptExists ==
    ASSUME NEW list, NEW wanted, NEW N \in Nat
    PROVE  \E kept : KeptBy(kept, list, wanted, N)
<1> DEFINE T == {n \in Nat : \E kept : KeptBy(kept, list, wanted, n)}
<1>1. 0 \in T
  <2>1. KeptBy([n \in 0..0 |-> <<>>], list, wanted, 0)
    BY DEF KeptBy
  <2> QED
    BY <2>1
<1>2. ASSUME NEW n \in Nat, n \in T
      PROVE  n + 1 \in T
  <2>1. PICK f : KeptBy(f, list, wanted, n)
    BY <1>2
  <2> DEFINE last == IF list[n + 1] \in wanted THEN Append(f[n], list[n + 1]) ELSE f[n]
             g    == [m \in 0..(n + 1) |-> IF m = n + 1 THEN last ELSE f[m]]
             h    == [m \in 0..(n + 1) |-> IF m = 0 THEN <<>>
                           ELSE IF list[m] \in wanted THEN Append(g[m - 1], list[m])
                           ELSE g[m - 1]]
  <2>2. f[0] = <<>> /\ \A m \in 1..n : f[m] = IF list[m] \in wanted THEN Append(f[m - 1], list[m])
                                              ELSE f[m - 1]
    BY <2>1, KeptSteps
  <2>3. ASSUME NEW m \in 0..(n + 1) PROVE g[m] = h[m]
    <3>1. CASE m = 0
      BY <2>2, <3>1
    <3>2. CASE m \in 1..n
      <4>1. g[m] = f[m] /\ g[m - 1] = f[m - 1]
        BY <3>2
      <4> QED
        BY <2>2, <3>2, <4>1
    <3>3. CASE m = n + 1
      <4>1. g[m] = last /\ g[m - 1] = f[n]
        BY <3>3
      <4> QED
        BY <3>3, <4>1
    <3> QED
      BY <3>1, <3>2, <3>3
  <2>4. g = h
    <3>1. g = [m \in 0..(n + 1) |-> g[m]] /\ h = [m \in 0..(n + 1) |-> h[m]]
      OBVIOUS
    <3> HIDE DEF g, h
    <3> QED
      BY <2>3, <3>1
  <2>5. KeptBy(g, list, wanted, n + 1)
    BY <2>4 DEF KeptBy
  <2> QED
    BY <2>5
<1>3. Nat \subseteq T
  <2> HIDE DEF T
  <2> QED
    BY <1>1, <1>2, SetInduction
<1> QED
  BY <1>3

LEMMA SelectedIsKept ==
    ASSUME NEW list, NEW wanted, Len(list) \in Nat
    PROVE  \E kept : KeptBy(kept, list, wanted, Len(list)) /\ Selected(list, wanted) = kept[Len(list)]
<1> DEFINE kept == CHOOSE f : KeptBy(f, list, wanted, Len(list))
<1>1. KeptBy(kept, list, wanted, Len(list))
  BY KeptExists
<1>2. Selected(list, wanted) = kept[Len(list)]
  BY DEF Selected, KeptBy
<1> QED
  BY <1>1, <1>2

LEMMA KeptAgree ==
    ASSUME NEW f, NEW g, NEW l, NEW k, NEW wanted, NEW N \in Nat, NEW M \in Nat, N <= M,
           KeptBy(f, l, wanted, N), KeptBy(g, k, wanted, M), \A n \in 1..N : l[n] = k[n]
    PROVE  \A n \in 0..N : f[n] = g[n]
<1> DEFINE T == {n \in Nat : n <= N => f[n] = g[n]}
<1>1. /\ f[0] = <<>> /\ g[0] = <<>>
      /\ \A n \in 1..N : f[n] = IF l[n] \in wanted THEN Append(f[n - 1], l[n]) ELSE f[n - 1]
      /\ \A n \in 1..M : g[n] = IF k[n] \in wanted THEN Append(g[n - 1], k[n]) ELSE g[n - 1]
  BY KeptSteps
<1>2. 0 \in T
  BY <1>1
<1>3. ASSUME NEW n \in Nat, n \in T PROVE n + 1 \in T
  <2> SUFFICES ASSUME n + 1 <= N PROVE f[n + 1] = g[n + 1]
    OBVIOUS
  <2>1. f[n] = g[n] /\ n + 1 \in 1..N /\ n + 1 \in 1..M /\ (n + 1) - 1 = n
    BY <1>3
  <2> QED
    BY <1>1, <2>1
<1>4. Nat \subseteq T
  <2> HIDE DEF T
  <2> QED
    BY <1>2, <1>3, SetInduction
<1> QED
  BY <1>4

LEMMA SelectedEmpty == ASSUME NEW wanted PROVE Selected(<<>>, wanted) = <<>>
<1>1. Len(<<>>) = 0
  OBVIOUS
<1>2. PICK kept : KeptBy(kept, <<>>, wanted, 0) /\ Selected(<<>>, wanted) = kept[0]
  BY <1>1, SelectedIsKept
<1> QED
  BY <1>2, KeptSteps

LEMMA SelectedAppend ==
    ASSUME NEW S, NEW list \in Seq(S), NEW x \in S, NEW wanted
    PROVE  Selected(Append(list, x), wanted)
               = IF x \in wanted THEN Append(Selected(list, wanted), x) ELSE Selected(list, wanted)
<1> DEFINE more == Append(list, x)
           N    == Len(list)
<1>1. /\ N \in Nat /\ Len(more) = N + 1 /\ more[N + 1] = x
      /\ \A n \in 1..N : list[n] = more[n]
  OBVIOUS
<1> HIDE DEF more, N
<1>2. PICK f : KeptBy(f, list, wanted, N) /\ Selected(list, wanted) = f[N]
  BY <1>1, SelectedIsKept DEF N
<1>3. PICK g : KeptBy(g, more, wanted, N + 1) /\ Selected(more, wanted) = g[N + 1]
  BY <1>1, SelectedIsKept
<1>4. \A n \in 0..N : f[n] = g[n]
  BY <1>1, <1>2, <1>3, KeptAgree
<1>5. g[N + 1] = IF more[N + 1] \in wanted THEN Append(g[N], more[N + 1]) ELSE g[N]
  <2>1. N + 1 \in Nat /\ N + 1 \in 1..(N + 1) /\ (N + 1) - 1 = N
    BY <1>1
  <2> QED
    BY <1>3, <2>1, KeptSteps
<1>6. f[N] = g[N]
  BY <1>1, <1>4
<1> QED
  BY <1>1, <1>2, <1>3, <1>5, <1>6 DEF more

(* The selection is of elements of the list, and all wanted ones are there. *)
LEMMA SelectedElements ==
    ASSUME NEW S, NEW list \in Seq(S), NEW wanted
    PROVE  /\ Selected(list, wanted) \in Seq(S)
           /\ \A i \in DOMAIN Selected(list, wanted) :
                 /\ Selected(list, wanted)[i] \in wanted
                 /\ \E n \in DOMAIN list : Selected(list, wanted)[i] = list[n]
           /\ \A n \in DOMAIN list : list[n] \in wanted =>
                 \E i \in DOMAIN Selected(list, wanted) : Selected(list, wanted)[i] = list[n]
<1> DEFINE N == Len(list)
<1>1. N \in Nat /\ DOMAIN list = 1..N /\ \A n \in 1..N : list[n] \in S
  OBVIOUS
<1>2. PICK f : KeptBy(f, list, wanted, N) /\ Selected(list, wanted) = f[N]
  BY <1>1, SelectedIsKept
<1>3. /\ f[0] = <<>>
      /\ \A n \in 1..N : f[n] = IF list[n] \in wanted THEN Append(f[n - 1], list[n]) ELSE f[n - 1]
  BY <1>1, <1>2, KeptSteps
<1> HIDE DEF N
<1> DEFINE Right(n) ==
      /\ f[n] \in Seq(S)
      /\ \A i \in DOMAIN f[n] : f[n][i] \in wanted /\ \E m \in 1..n : f[n][i] = list[m]
      /\ \A m \in 1..n : list[m] \in wanted => \E i \in DOMAIN f[n] : f[n][i] = list[m]
<1> DEFINE T == {n \in Nat : n <= N => Right(n)}
<1>4. 0 \in T
  <2>1. f[0] \in Seq(S) /\ DOMAIN f[0] = {} /\ 1..0 = {}
    BY <1>3
  <2> QED
    BY <2>1
<1>5. ASSUME NEW n \in Nat, n \in T PROVE n + 1 \in T
  <2> SUFFICES ASSUME n + 1 <= N PROVE Right(n + 1)
    OBVIOUS
  <2>1. /\ Right(n) /\ n + 1 \in 1..N /\ (n + 1) - 1 = n /\ list[n + 1] \in S
        /\ 1..(n + 1) = 1..n \cup {n + 1}
    BY <1>1, <1>5
  <2>2. CASE list[n + 1] \notin wanted
    <3>1. f[n + 1] = f[n]
      BY <1>3, <2>1, <2>2
    <3> QED
      BY <2>1, <2>2, <3>1
  <2>3. CASE list[n + 1] \in wanted
    <3> DEFINE x == list[n + 1]
               s == f[n]
    <3>1. f[n + 1] = Append(s, x) /\ s \in Seq(S) /\ x \in S
      BY <1>3, <2>1, <2>3
    <3>2. /\ f[n + 1] \in Seq(S) /\ DOMAIN f[n + 1] = 1..(Len(s) + 1) /\ Len(s) \in Nat
          /\ DOMAIN s = 1..Len(s)
          /\ f[n + 1][Len(s) + 1] = x /\ \A i \in 1..Len(s) : f[n + 1][i] = s[i]
      BY <3>1
    <3>3. ASSUME NEW i \in DOMAIN f[n + 1]
          PROVE  f[n + 1][i] \in wanted /\ \E m \in 1..(n + 1) : f[n + 1][i] = list[m]
      <4>1. CASE i = Len(s) + 1
        BY <2>1, <2>3, <3>2, <4>1
      <4>2. CASE i \in 1..Len(s)
        BY <2>1, <3>2, <4>2
      <4> QED
        BY <3>2, <3>3, <4>1, <4>2
    <3>4. ASSUME NEW m \in 1..(n + 1), list[m] \in wanted
          PROVE  \E i \in DOMAIN f[n + 1] : f[n + 1][i] = list[m]
      <4>1. CASE m = n + 1
        <5>1. Len(s) + 1 \in DOMAIN f[n + 1]
          BY <3>2
        <5> QED
          BY <3>2, <4>1, <5>1
      <4>2. CASE m \in 1..n
        <5>1. PICK i \in DOMAIN s : s[i] = list[m]
          BY <2>1, <3>4, <4>2
        <5>2. i \in DOMAIN f[n + 1] /\ f[n + 1][i] = list[m]
          BY <3>2, <5>1
        <5> QED
          BY <5>2
      <4> QED
        BY <4>1, <4>2
    <3> QED
      BY <3>2, <3>3, <3>4
  <2> QED
    BY <2>2, <2>3
<1>6. Nat \subseteq T
  <2> HIDE DEF T
  <2> QED
    BY <1>4, <1>5, SetInduction
<1>7. Right(N)
  BY <1>1, <1>6
<1> QED
  BY <1>1, <1>2, <1>7

-----------------------------------------------------------------------------
(* The invariant of a turn. *)

(* Where the emitter of e may be after helpers: the error is final. *)
Later(e, f) == EmitterInv(f) /\ (e.err => f.err)

Places == {"open", "check", "recv", "end", "reasoning", "text", "tools", "flush", "close",
           "conclude", "done"}

(* Where the turn holds a chunk, and where it may not have lost its client. *)
InChunk   == pc \in {"reasoning", "text", "tools", "flush"} \/ (pc = "end" /\ after # "conclude")
Connected == pc \in {"recv", "reasoning", "text", "tools"}
Stopping  == pc \in {"close", "conclude", "done"} \/ (pc = "end" /\ after = "conclude")
Closing   == pc \in {"open", "conclude", "done"} \/ (pc = "end" /\ after = "conclude")

ControlInv ==
    /\ pc \in Places /\ after \in {"reasoning", "text", "conclude"}
    /\ cursor \in Nat \ {0} /\ live \in BOOLEAN
    /\ chunks \in Seq(Chunks) /\ Len(chunks) <= MaxChunks
    /\ InChunk => Len(chunks) > 0
    /\ pc = "flush" => cursor \in 1..Len(chunk.calls) /\ Correlatable(call)

EmitterOK ==
    /\ EmitterInv(em)
    /\ Connected => ~em.err
    /\ pc = "conclude" /\ em.err => primary # "none"

BlocksInv ==
    /\ text \in Block /\ reasoning \in Block /\ nextID \in Nat \ {0}
    /\ ~(text.open /\ reasoning.open)
    /\ ~em.err => /\ ~text.open => text.content = <<>>
                  /\ ~reasoning.open => reasoning.content = <<>>
    /\ Closing => ~text.open /\ ~reasoning.open

(* Until the turn returns no message has calls. *)
Callless == [id : Nat, role : Roles, content : Seq(Tokens), calls : {<<>>}]

TranscriptInv ==
    /\ pc # "done" => wireMessages \in Seq(Callless)
    /\ owner \in [id : Nat, index : Nat]
    /\ owner = NoOwner <=> owner.index = 0
    /\ pc # "done" => owner.index <= Len(wireMessages)

(* A buffer's id points back to it; an id points to a buffer of that id, or *)
(* to one that had ended when the id came.                                  *)
TablesOK(t) ==
    /\ t \in CallTables
    /\ \A i \in Indices : t.indexed[i] \in 0..Len(t.order)
    /\ \A c \in ToolIDs : t.byID[c] \in 0..Len(t.order)

IDsClaimed(t) ==
    /\ \A p \in 1..Len(t.order) : t.order[p].id # NoID => t.byID[t.order[p].id] = p
    /\ \A c \in ToolIDs : t.byID[c] # 0 =>
           t.order[t.byID[c]].id = c \/ t.order[t.byID[c]].ended

CallsInv ==
    /\ TablesOK(calls) /\ IDsClaimed(calls)
    /\ pc = "flush" => Known(calls, call) # 0

ReturnInv ==
    /\ pc # "done" => result = NotReturned
    /\ pc = "done" /\ em.err => primary # "none" /\ (result.returned => result.partial)
    /\ pc = "done" /\ primary = "correlation" =>
           /\ result.calls = <<>>
           /\ \A i \in DOMAIN wireMessages : wireMessages[i].calls = <<>>

LateInv ==
    \/ late = 0
    \/ late = 1 /\ ctxDone /\ pc \notin {"open", "recv"} /\ (Stopping => primary # "none")

TurnInv ==
    ControlInv /\ EmitterOK /\ BlocksInv /\ TranscriptInv /\ CallsInv /\ ReturnInv /\ LateInv

-----------------------------------------------------------------------------
(* What the helpers leave of an emitter. *)

LEMMA LaterIsTransitive ==
    ASSUME NEW e, NEW f, NEW g, Later(e, f), Later(f, g)
    PROVE  Later(e, g)
  BY DEF Later

LEMMA EmitSticks ==
    ASSUME NEW e, EmitterInv(e), NEW frame
    PROVE  e.err => Emit(e, frame) = e /\ ~Wrote(e, frame)
  BY DEF Emit, Wrote

LEMMA LaterBlocks ==
    ASSUME NEW e, EmitterInv(e), NEW id \in Nat, NEW delta \in Delta
    PROVE  /\ Later(e, TextStart(e, id)) /\ Later(e, TextContent(e, id, delta))
           /\ Later(e, TextEnd(e, id))
           /\ Later(e, ReasoningStart(e, id)) /\ Later(e, ReasoningMessageStart(e, id))
           /\ Later(e, ReasoningContent(e, id, delta))
           /\ Later(e, ReasoningMessageEnd(e, id)) /\ Later(e, ReasoningEnd(e, id))
<1>1. e.err => /\ TextStart(e, id).err /\ TextContent(e, id, delta).err
               /\ ReasoningStart(e, id).err /\ ReasoningMessageStart(e, id).err
               /\ ReasoningContent(e, id, delta).err
  BY EmitSticks DEF TextStart, TextContent, ReasoningStart, ReasoningMessageStart,
                    ReasoningContent
<1>2. e.err => TextEnd(e, id).err /\ ReasoningMessageEnd(e, id).err /\ ReasoningEnd(e, id).err
  BY EmitSticks DEF TextEnd, ReasoningMessageEnd, ReasoningEnd, EmitterInv, EmitterType
<1> QED
  BY <1>1, <1>2, BlockHelpers DEF Later

LEMMA LaterClosed ==
    ASSUME NEW e, EmitterInv(e)
    PROVE  Later(e, CloseOpenBlocks(e))
<1>1. ASSUME NEW f, EmitterInv(f), f.err
      PROVE  CloseOpenText(f).err /\ CloseOpenReasoningMessage(f).err /\ CloseOpenReasoning(f).err
  BY <1>1 DEF CloseOpenText, CloseOpenReasoningMessage, CloseOpenReasoning, Emit, EmitterInv,
              EmitterType
<1>2. EmitterInv(CloseOpenText(e)) /\ EmitterInv(CloseOpenReasoningMessage(CloseOpenText(e)))
  BY CloseOneKind
<1> QED
  BY <1>1, <1>2, CloseKeepsInv DEF Later, CloseOpenBlocks

LEMMA LaterTools ==
    ASSUME NEW e, EmitterInv(e), NEW id \in ToolID, NEW name \in Name, NEW parent \in Nat,
           NEW delta \in Delta
    PROVE  /\ Later(e, ToolStart(e, id, name, parent)) /\ Later(e, ToolArgs(e, id, delta))
           /\ Later(e, ToolEnd(e, id))
<1> DEFINE closed == CloseOpenBlocks(e)
<1>1. EmitterInv(closed) /\ (e.err => closed.err)
  BY LaterClosed DEF Later
<1>2. closed.err => \A frame : Emit(closed, frame) = closed /\ ~Wrote(closed, frame)
  BY <1>1, EmitSticks
<1>3. e.err => ToolStart(e, id, name, parent).err
  BY <1>1, <1>2 DEF ToolStart
<1>4. e.err => ToolArgs(e, id, delta).err /\ ToolEnd(e, id).err
  BY <1>1, <1>2 DEF ToolArgs, ToolEnd
<1> QED
  BY <1>3, <1>4, ToolStartKeepsInv, ToolArgsKeepsInv, ToolEndKeepsInv DEF Later

LEMMA LaterEnds ==
    ASSUME NEW e, EmitterInv(e), text \in Block, reasoning \in Block
    PROVE  /\ Later(e, EndText(e)) /\ (~text.open => EndText(e) = e)
           /\ Later(e, EndReasoning(e)) /\ (~reasoning.open => EndReasoning(e) = e)
<1>1. text.id \in Nat /\ reasoning.id \in Nat
  BY DEF Block
<1>2. Later(e, e)
  BY DEF Later
<1>3. Later(e, TextEnd(e, text.id)) /\ Later(e, ReasoningMessageEnd(e, reasoning.id))
  BY <1>1, LaterBlocks, NoDeltaType
<1> DEFINE m == ReasoningMessageEnd(e, reasoning.id)
<1>4. Later(m, ReasoningEnd(m, reasoning.id))
  BY <1>1, <1>3, LaterBlocks, NoDeltaType DEF Later
<1>5. Later(e, ReasoningEnd(m, reasoning.id))
  BY <1>3, <1>4, LaterIsTransitive
<1> QED
  BY <1>2, <1>3, <1>5 DEF EndText, EndReasoning

-----------------------------------------------------------------------------
(* What correlation leaves of the tables. *)

LEMMA ReplacedBuffer ==
    ASSUME NEW t, TablesOK(t), IDsClaimed(t), NEW p \in 1..Len(t.order), NEW b \in Buffers,
           b.id = t.order[p].id, t.order[p].ended => b.ended
    PROVE  /\ TablesOK([t EXCEPT !.order[p] = b]) /\ IDsClaimed([t EXCEPT !.order[p] = b])
           /\ \A f : Known([t EXCEPT !.order[p] = b], f) = Known(t, f)
<1> DEFINE r == [t EXCEPT !.order[p] = b]
<1>1. t \in CallTables /\ t.order \in Seq(Buffers)
  BY DEF TablesOK, CallTables
<1>2. /\ r.order = [t.order EXCEPT ![p] = b]
      /\ r.indexed = t.indexed /\ r.byID = t.byID
      /\ r = [order |-> r.order, indexed |-> t.indexed, byID |-> t.byID]
  BY <1>1, SMTT(30) DEF CallTables
<1>3. r.order \in Seq(Buffers) /\ Len(r.order) = Len(t.order)
  BY <1>1, <1>2
<1>4. \A q \in 1..Len(t.order) : r.order[q] = IF q = p THEN b ELSE t.order[q]
  BY <1>1, <1>2
<1> HIDE DEF r
<1>5. TablesOK(r)
  BY <1>1, <1>2, <1>3 DEF TablesOK, CallTables
<1>6. IDsClaimed(r)
  BY <1>2, <1>3, <1>4 DEF IDsClaimed, TablesOK
<1>7. \A f : Known(r, f) = Known(t, f)
  BY <1>2 DEF Known
<1> QED
  BY <1>5, <1>6, <1>7 DEF r

LEMMA KnownType ==
    ASSUME NEW t, TablesOK(t), NEW f \in Fragments, Correlatable(f)
    PROVE  /\ Known(t, f) \in 0..Len(t.order)
           /\ f.index # NoIndex => f.index \in Indices
           /\ f.id # NoID => f.id \in ToolIDs
  BY DEF Known, TablesOK, Fragments, Correlatable, Index, ToolID

(* A buffer that was just made is the only one whose id may not be known    *)
(* though byID leads to it.                                                 *)
JustMade(t, f, c) ==
    f.index = NoIndex /\ c = f.id /\ t.byID[c] = Known(t, f)

LEMMA FoundBuffer ==
    ASSUME NEW t, TablesOK(t), IDsClaimed(t), NEW f \in Fragments, Correlatable(f)
    PROVE  LET g == WithBuffer(t, f) IN
           /\ TablesOK(g) /\ Known(g, f) \in 1..Len(g.order)
           /\ \A p \in 1..Len(g.order) : g.order[p].id # NoID => g.byID[g.order[p].id] = p
           /\ \A c \in ToolIDs : g.byID[c] # 0 =>
                 \/ g.order[g.byID[c]].id = c \/ g.order[g.byID[c]].ended
                 \/ JustMade(g, f, c) /\ g.order[g.byID[c]].id = NoID
<1> DEFINE g   == WithBuffer(t, f)
           pos == Len(t.order) + 1
           new == NewBuffer(f.index)
<1>1. Known(t, f) \in 0..Len(t.order) /\ Len(t.order) \in Nat /\ t.order \in Seq(Buffers)
      /\ t.indexed \in [Indices -> Nat] /\ t.byID \in [ToolIDs -> Nat]
  BY KnownType DEF TablesOK, CallTables
<1>2. CASE Known(t, f) # 0
  BY <1>1, <1>2 DEF WithBuffer, IDsClaimed
<1>3. CASE Known(t, f) = 0
  <2>1. new \in Buffers /\ new.id = NoID
    BY DEF NewBuffer, Buffers, Fragments, ToolID, Name
  <2>2. /\ g.order = Append(t.order, new) /\ g.order \in Seq(Buffers) /\ Len(g.order) = pos
        /\ g.order[pos] = new
        /\ \A p \in 1..Len(t.order) : g.order[p] = t.order[p]
    BY <1>1, <1>3, <2>1 DEF WithBuffer, TablesOK, CallTables
  <2>3. CASE f.index # NoIndex
    <3>1. /\ g.indexed = [t.indexed EXCEPT ![f.index] = pos] /\ g.byID = t.byID
          /\ g = [order |-> g.order, indexed |-> g.indexed, byID |-> g.byID]
      BY <1>3, <2>3 DEF WithBuffer, TablesOK, CallTables
    <3>2. f.index \in Indices
      BY <2>3, KnownType
    <3> HIDE DEF g, new
    <3>3. TablesOK(g)
      <4>1. g.indexed \in [Indices -> Nat] /\ g.byID \in [ToolIDs -> Nat]
        BY <1>1, <3>1, <3>2
      <4>2. g \in CallTables
        BY <2>2, <3>1, <4>1 DEF CallTables
      <4>3. \A c \in ToolIDs : g.byID[c] \in 0..Len(g.order)
        BY <1>1, <2>2, <3>1 DEF TablesOK
      <4>4. \A i \in Indices : g.indexed[i] \in 0..Len(g.order)
        BY <1>1, <2>2, <3>1 DEF TablesOK
      <4> QED
        BY <4>2, <4>3, <4>4 DEF TablesOK
    <3>4. Known(g, f) = pos
      BY <1>1, <2>3, <3>1, <3>2 DEF Known
    <3>5. \A p \in 1..Len(g.order) : g.order[p].id # NoID => g.byID[g.order[p].id] = p
      BY <1>1, <2>1, <2>2, <3>1 DEF IDsClaimed
    <3>6. \A c \in ToolIDs : g.byID[c] # 0 =>
                 \/ g.order[g.byID[c]].id = c \/ g.order[g.byID[c]].ended
                 \/ JustMade(g, f, c) /\ g.order[g.byID[c]].id = NoID
      BY <1>1, <2>2, <3>1 DEF IDsClaimed, TablesOK
    <3>7. Known(g, f) \in 1..Len(g.order)
      BY <1>1, <2>2, <3>4
    <3> QED
      BY <3>3, <3>5, <3>6, <3>7 DEF g
  <2>4. CASE f.index = NoIndex
    <3>1. /\ g.byID = [t.byID EXCEPT ![f.id] = pos] /\ g.indexed = t.indexed
          /\ g = [order |-> g.order, indexed |-> g.indexed, byID |-> g.byID]
      BY <1>3, <2>4 DEF WithBuffer, TablesOK, CallTables
    <3>2. f.id \in ToolIDs
      BY <2>4, KnownType DEF Correlatable
    <3>3. t.byID[f.id] = 0
      BY <1>3, <2>4 DEF Known
    <3> HIDE DEF g, new
    <3>4. TablesOK(g)
      <4>1. g.indexed \in [Indices -> Nat] /\ g.byID \in [ToolIDs -> Nat]
        BY <1>1, <3>1, <3>2
      <4>2. g \in CallTables
        BY <2>2, <3>1, <4>1 DEF CallTables
      <4>3. \A i \in Indices : g.indexed[i] \in 0..Len(g.order)
        BY <1>1, <2>2, <3>1 DEF TablesOK
      <4>4. \A c \in ToolIDs : g.byID[c] \in 0..Len(g.order)
        BY <1>1, <2>2, <3>1 DEF TablesOK
      <4> QED
        BY <4>2, <4>3, <4>4 DEF TablesOK
    <3>5. Known(g, f) = pos
      BY <1>1, <2>4, <3>1, <3>2 DEF Known
    <3>6. \A p \in 1..Len(g.order) : g.order[p].id # NoID => g.byID[g.order[p].id] = p
      BY <1>1, <2>1, <2>2, <3>1, <3>3 DEF IDsClaimed
    <3>7. \A c \in ToolIDs : g.byID[c] # 0 =>
                 \/ g.order[g.byID[c]].id = c \/ g.order[g.byID[c]].ended
                 \/ JustMade(g, f, c) /\ g.order[g.byID[c]].id = NoID
      <4> SUFFICES ASSUME NEW c \in ToolIDs, g.byID[c] # 0
                   PROVE  \/ g.order[g.byID[c]].id = c \/ g.order[g.byID[c]].ended
                          \/ JustMade(g, f, c) /\ g.order[g.byID[c]].id = NoID
        OBVIOUS
      <4>1. CASE c = f.id
        BY <1>1, <2>1, <2>2, <2>4, <3>1, <3>2, <3>5, <4>1 DEF JustMade
      <4>2. CASE c # f.id
        BY <1>1, <2>2, <3>1, <4>2 DEF IDsClaimed, TablesOK
      <4> QED
        BY <4>1, <4>2
    <3>8. Known(g, f) \in 1..Len(g.order)
      BY <1>1, <2>2, <3>5
    <3> QED
      BY <3>4, <3>6, <3>7, <3>8 DEF g
  <2> QED
    BY <2>3, <2>4
<1> QED
  BY <1>2, <1>3

(* The fragment is not ambiguous: its buffer, merged, keeps the tables.     *)
LEMMA AcceptedBuffer ==
    ASSUME NEW t, TablesOK(t), IDsClaimed(t), NEW f \in Fragments, Correlatable(f),
           ~Ambiguous(WithBuffer(t, f), f), NEW b \in Buffers,
           LET before == WithBuffer(t, f).order[Known(WithBuffer(t, f), f)] IN
               /\ b.ended = before.ended
               /\ b.id = IF before.ended \/ f.id = NoID THEN before.id ELSE f.id
    PROVE  LET g == WithBuffer(t, f)
               r == [Claim(g, f) EXCEPT !.order[Known(g, f)] = b]
           IN  TablesOK(r) /\ IDsClaimed(r) /\ Known(r, f) = Known(g, f)
<1> DEFINE g   == WithBuffer(t, f)
           pos == Known(g, f)
           old == g.order[pos]
           r   == [Claim(g, f) EXCEPT !.order[pos] = b]
<1>1. /\ TablesOK(g) /\ pos \in 1..Len(g.order)
      /\ \A p \in 1..Len(g.order) : g.order[p].id # NoID => g.byID[g.order[p].id] = p
      /\ \A c \in ToolIDs : g.byID[c] # 0 =>
            \/ g.order[g.byID[c]].id = c \/ g.order[g.byID[c]].ended
            \/ JustMade(g, f, c) /\ g.order[g.byID[c]].id = NoID
  BY FoundBuffer
<1>2. ~Ambiguous(g, f) /\ b.ended = old.ended
      /\ b.id = IF old.ended \/ f.id = NoID THEN old.id ELSE f.id
  OBVIOUS
<1>3. /\ f.index # NoIndex => f.index \in Indices /\ pos = g.indexed[f.index]
      /\ f.index = NoIndex => f.id # NoID /\ pos = g.byID[f.id]
      /\ f.id # NoID => f.id \in ToolIDs
  BY <1>1, KnownType DEF Known, Correlatable
<1> HIDE DEF g
<1>4. /\ g.order \in Seq(Buffers) /\ g.indexed \in [Indices -> Nat] /\ g.byID \in [ToolIDs -> Nat]
      /\ Len(g.order) \in Nat /\ old \in Buffers
      /\ g = [order |-> g.order, indexed |-> g.indexed, byID |-> g.byID]
  BY <1>1 DEF TablesOK, CallTables
<1>5. /\ r.order = [g.order EXCEPT ![pos] = b] /\ r.indexed = g.indexed
      /\ r.byID = IF f.id = NoID THEN g.byID ELSE [g.byID EXCEPT ![f.id] = pos]
      /\ r = [order |-> r.order, indexed |-> r.indexed, byID |-> r.byID]
  <2> DEFINE k == Claim(g, f)
  <2>1. /\ k.order = g.order /\ k.indexed = g.indexed
        /\ k.byID = IF f.id = NoID THEN g.byID ELSE [g.byID EXCEPT ![f.id] = pos]
        /\ k = [order |-> k.order, indexed |-> k.indexed, byID |-> k.byID]
    BY <1>4 DEF Claim
  <2> HIDE DEF k
  <2>2. /\ r.order = [k.order EXCEPT ![pos] = b] /\ r.indexed = k.indexed /\ r.byID = k.byID
        /\ r = [order |-> r.order, indexed |-> r.indexed, byID |-> r.byID]
    BY <2>1 DEF k
  <2> QED
    BY <2>1, <2>2
<1> HIDE DEF r, pos, old
<1>6. /\ r.order \in Seq(Buffers) /\ Len(r.order) = Len(g.order)
      /\ \A q \in 1..Len(g.order) : r.order[q] = IF q = pos THEN b ELSE g.order[q]
  BY <1>1, <1>4, <1>5
<1>7. TablesOK(r)
  <2>1. r.indexed \in [Indices -> Nat] /\ r.byID \in [ToolIDs -> Nat]
    BY <1>1, <1>3, <1>4, <1>5
  <2>2. r \in CallTables
    BY <1>5, <1>6, <2>1 DEF CallTables
  <2>3. \A i \in Indices : r.indexed[i] \in 0..Len(r.order)
    BY <1>1, <1>5, <1>6 DEF TablesOK
  <2>4. \A c \in ToolIDs : r.byID[c] \in 0..Len(r.order)
    BY <1>1, <1>4, <1>5, <1>6 DEF TablesOK
  <2> QED
    BY <2>2, <2>3, <2>4 DEF TablesOK
<1>8. Known(r, f) = pos
  BY <1>3, <1>4, <1>5 DEF Known
(* No other buffer has the fragment's id. *)
<1>9. f.id # NoID => g.byID[f.id] \in {0, pos}
  BY <1>2, <1>3 DEF Ambiguous, ClaimedTwice, pos
<1>10. f.id # NoID => \A q \in 1..Len(g.order) : g.order[q].id = f.id => q = pos
  BY <1>1, <1>9
(* And its own buffer does not give one up. *)
<1>11. f.id # NoID /\ ~old.ended => old.id \in {NoID, f.id}
  <2>1. CASE f.index # NoIndex
    BY <1>2, <1>3, <2>1 DEF Ambiguous, ChangedID, pos, old
  <2>2. CASE f.index = NoIndex
    <3>1. f.id \in ToolIDs /\ g.byID[f.id] = pos /\ pos # 0
      BY <1>1, <1>3, <2>2
    <3>2. g.order[pos].id = f.id \/ g.order[pos].ended \/ g.order[pos].id = NoID
      BY <1>1, <3>1
    <3> QED
      BY <3>2 DEF old
  <2> QED
    BY <2>1, <2>2
<1>12. \A p \in 1..Len(r.order) : r.order[p].id # NoID => r.byID[r.order[p].id] = p
  <2> SUFFICES ASSUME NEW p \in 1..Len(r.order), r.order[p].id # NoID
               PROVE  r.byID[r.order[p].id] = p
    OBVIOUS
  <2>1. r.order[p].id \in ToolIDs
    <3>1. r.order[p] \in Buffers
      BY <1>6
    <3> QED
      BY <3>1 DEF Buffers, ToolID
  <2>2. CASE p = pos
    <3>1. r.order[p] = b /\ b.id # NoID
      BY <1>1, <1>6, <2>2
    <3>2. CASE f.id # NoID /\ b.id = f.id
      BY <1>3, <1>4, <1>5, <2>2, <3>1, <3>2
    <3>3. CASE b.id = old.id /\ (f.id = NoID \/ b.id # f.id)
      <4>1. g.byID[b.id] = pos /\ b.id \in ToolIDs
        BY <1>1, <2>1, <3>1, <3>3 DEF old
      <4> QED
        BY <1>3, <1>4, <1>5, <2>2, <3>1, <3>3, <4>1
    <3> QED
      BY <1>2, <3>1, <3>2, <3>3
  <2>3. CASE p # pos
    BY <1>1, <1>3, <1>4, <1>5, <1>6, <1>10, <2>1, <2>3
  <2> QED
    BY <2>2, <2>3
<1>13. \A c \in ToolIDs : r.byID[c] # 0 =>
          r.order[r.byID[c]].id = c \/ r.order[r.byID[c]].ended
  <2> SUFFICES ASSUME NEW c \in ToolIDs, r.byID[c] # 0
               PROVE  r.order[r.byID[c]].id = c \/ r.order[r.byID[c]].ended
    OBVIOUS
  <2>1. CASE c = f.id
    <3>1. c # NoID
      BY NoIDAssumption
    <3>2. r.byID[c] = pos /\ r.order[pos] = b
      BY <1>1, <1>4, <1>5, <1>6, <2>1, <3>1
    <3> QED
      BY <1>2, <2>1, <3>1, <3>2
  <2>2. CASE c # f.id
    <3>1. r.byID[c] = g.byID[c] /\ g.byID[c] \in 1..Len(g.order) /\ ~JustMade(g, f, c)
      BY <1>1, <1>3, <1>4, <1>5, <2>2 DEF TablesOK, JustMade
    <3>2. g.order[g.byID[c]].id = c \/ g.order[g.byID[c]].ended
      BY <1>1, <3>1
    <3>3. CASE g.byID[c] # pos
      BY <1>6, <3>1, <3>2, <3>3
    <3>4. CASE g.byID[c] = pos
      <4>1. r.order[r.byID[c]] = b /\ (old.id = c \/ old.ended)
        BY <1>1, <1>6, <3>1, <3>2, <3>4 DEF old
      <4> QED
        BY <1>2, <1>11, <2>2, <4>1, NoIDAssumption
    <3> QED
      BY <3>3, <3>4
  <2> QED
    BY <2>1, <2>2
<1> QED
  BY <1>7, <1>8, <1>12, <1>13 DEF IDsClaimed, r, g, pos

-----------------------------------------------------------------------------
(* The turn begins well. *)

LEMMA TurnInit == Init => TurnInv
<1> SUFFICES ASSUME Init PROVE TurnInv
  OBVIOUS
<1>1. ControlInv
  BY LiveModesAssumption, BoundsAssumption DEF Init, ControlInv, Places, InChunk
<1>2. EmitterOK
  <2>1. PICK s \in Scripts : em = NewEmitter(s)
    BY DEF Init
  <2>2. EmitterInv(em) /\ ~em.err
    BY <2>1, TurnScriptAssumption
       DEF EmitterInv, NewEmitter, EmitterType, OneLifecycle, RemembersCalls, CancelsOnce, NoMessage
  <2> QED
    BY <2>2 DEF EmitterOK, Init
<1>3. BlocksInv
  BY DEF Init, BlocksInv, Closed, Block, NoMessage
<1>4. TranscriptInv
  BY DEF Init, TranscriptInv, NoOwner, NoMessage
<1>5. CallsInv
  BY DEF Init, CallsInv, TablesOK, IDsClaimed, CallTables, NoCalls
<1>6. ReturnInv /\ LateInv
  BY DEF Init, ReturnInv, LateInv
<1> QED
  BY <1>1, <1>2, <1>3, <1>4, <1>5, <1>6 DEF TurnInv

(* What the turn knows of the chunk it holds. *)
LEMMA ChunkFacts ==
    ASSUME ControlInv, InChunk
    PROVE  /\ chunk \in ChunkShapes /\ piece(0) \in Tokens /\ piece(0) \in Delta
           /\ chunk.calls \in Seq(Fragments)
           /\ \A i \in 1..Len(chunk.calls) :
                 chunk.calls[i] \in Fragments /\ piece(i) \in Tokens /\ piece(i) \in Delta
<1>1. Len(chunks) \in 1..MaxChunks /\ chunk \in Chunks
  BY BoundsAssumption DEF ControlInv, chunk
<1>2. chunk \in ChunkShapes /\ chunk.calls \in Seq(Fragments)
  BY <1>1, ChunksAssumption DEF ChunkShapes
<1>3. {Len(chunks)} \X (0..Len(chunk.calls)) \subseteq Tokens
  BY <1>1, TokensAssumption
<1>4. \A i \in 0..Len(chunk.calls) : piece(i) \in Tokens
  BY <1>3 DEF piece
<1> QED
  BY <1>2, <1>4 DEF Delta

-----------------------------------------------------------------------------
(* The steps that only move the turn along. *)

Quiet ==
    \/ Cancel \/ OpenStream \/ CheckRequest \/ Recv \/ CallsEnded \/ SkipFragment
    \/ FragmentDone \/ ChunkDone

LEMMA QuietControl ==
    ASSUME TurnInv, Quiet
    PROVE  ControlInv'
<1> USE DEF TurnInv, ControlInv, Places, InChunk
<1>1. CASE Cancel
  BY <1>1 DEF Cancel, chunk, call
<1>2. CASE OpenStream \/ CheckRequest
  BY <1>2 DEF OpenStream, CheckRequest, Fail, request
<1>3. CASE RecvEOF \/ RecvError \/ RecvKeepAlive
  BY <1>3 DEF RecvEOF, RecvError, RecvKeepAlive, Fail, request
<1>4. CASE RecvChunk
  <2>1. PICK c \in Chunks : chunks' = Append(chunks, c)
    BY <1>4 DEF RecvChunk
  <2>2. chunks' \in Seq(Chunks) /\ Len(chunks') = Len(chunks) + 1 /\ Len(chunks) \in Nat
    BY <2>1
  <2>3. Len(chunks') <= MaxChunks /\ Len(chunks') > 0
    BY <1>4, <2>2, BoundsAssumption DEF RecvChunk
  <2>4. pc' \in {"end", "tools"} /\ after' \in {"reasoning", "text", "conclude"}
        /\ cursor' = 1 /\ live' = live
    BY <1>4 DEF RecvChunk
  <2> QED
    BY <2>2, <2>3, <2>4
<1>5. CASE CallsEnded
  BY <1>5 DEF CallsEnded, Fail, request
<1>6. CASE SkipFragment
  BY <1>6 DEF SkipFragment, InTools, request
<1>7. CASE FragmentDone
  BY <1>7 DEF FragmentDone, Fail, request
<1>8. CASE ChunkDone
  BY <1>8 DEF ChunkDone, request
<1> QED
  BY <1>1, <1>2, <1>3, <1>4, <1>5, <1>6, <1>7, <1>8 DEF Quiet, Recv

LEMMA QuietRest ==
    ASSUME TurnInv, Quiet
    PROVE  EmitterOK' /\ BlocksInv' /\ TranscriptInv' /\ CallsInv' /\ ReturnInv'
<1>1. UNCHANGED <<em, text, reasoning, nextID, wireMessages, owner, calls, result>>
  BY DEF Quiet, Cancel, OpenStream, CheckRequest, Recv, RecvEOF, RecvError, RecvChunk,
         RecvKeepAlive, CallsEnded, SkipFragment, FragmentDone, ChunkDone, request, blocks
<1>2. EmitterOK'
  BY <1>1 DEF TurnInv, EmitterOK, Connected, Quiet, Cancel, OpenStream, CheckRequest, StopReason,
              Recv, RecvEOF, RecvError, RecvChunk, RecvKeepAlive, CallsEnded, OrTransport,
              SkipFragment, FragmentDone, ChunkDone, Fail, InTools, ControlInv
<1>3. BlocksInv'
  BY <1>1 DEF TurnInv, BlocksInv, Closing, Quiet, Cancel, OpenStream, CheckRequest,
              Recv, RecvEOF, RecvError, RecvChunk, RecvKeepAlive, CallsEnded,
              SkipFragment, FragmentDone, ChunkDone, Fail, InTools, ControlInv, blocks
<1>4. pc # "done" /\ (pc' = "flush" => pc = "flush" /\ UNCHANGED <<chunks, cursor>>) /\ pc' # "done"
  BY DEF Quiet, Cancel, OpenStream, CheckRequest, Recv, RecvEOF, RecvError, RecvChunk,
         RecvKeepAlive, CallsEnded, SkipFragment, FragmentDone, ChunkDone, Fail, InTools,
         TurnInv, ControlInv
<1>5. TranscriptInv' /\ ReturnInv'
  BY <1>1, <1>4 DEF TurnInv, TranscriptInv, ReturnInv
<1>6. CallsInv'
  BY <1>1, <1>4 DEF TurnInv, CallsInv, call, chunk
<1> QED
  BY <1>2, <1>3, <1>5, <1>6

(* A chunk is counted as late at most once: the next look at the request    *)
(* ends the turn.                                                           *)
LEMMA NextLate == TurnInv /\ [Next]_vars => LateInv'
<1> SUFFICES ASSUME TurnInv, [Next]_vars
             PROVE  LateInv'
  OBVIOUS
<1>1. Min({0 + 1, MaxLate}) = 1
  BY DEF Min, MaxLate
<1>2. CASE RecvChunk \/ RecvKeepAlive
  <2>1. late = 0 /\ late' = OneLater /\ UNCHANGED ctxDone /\ pc' \notin {"open", "recv"}
    BY <1>2 DEF RecvChunk, RecvKeepAlive, TurnInv, LateInv
  <2>2. ~Stopping'
    BY <1>2 DEF RecvChunk, RecvKeepAlive, Stopping
  <2> QED
    BY <1>1, <2>1, <2>2 DEF OneLater, LateInv
<1>3. CASE CheckRequest
  BY <1>3 DEF CheckRequest, StopReason, Fail, request, TurnInv, LateInv, Stopping
<1>4. CASE Cancel
  BY <1>4 DEF Cancel, TurnInv, LateInv, Stopping
<1>5. ASSUME UNCHANGED request, pc' \notin {"open", "recv"},
             Stopping' => primary' # "none" \/ (Stopping /\ (primary # "none" => primary' # "none"))
      PROVE  LateInv'
  BY <1>5 DEF request, TurnInv, LateInv
<1>6. CASE UNCHANGED vars
  BY <1>6 DEF vars, TurnInv, LateInv, Stopping
<1>7. CASE OpenFails \/ OpenStream \/ RecvEOF \/ RecvError
  BY <1>7 DEF OpenFails, OpenStream, RecvEOF, RecvError, Fail, TurnInv, LateInv, request
<1>8. CASE Apply
  <2>1. UNCHANGED request /\ pc' \notin {"open", "recv"}
    BY <1>8
       DEF Apply, EndCall, CallsEnded, ApplyReasoning, ApplyText, SkipFragment, EnsureToolOwner,
           RefuseFragment, AcceptFragment, FlushArg, FragmentDone, ChunkDone, Fail, InTools,
           TurnInv, ControlInv
  <2>2. CASE EndCall \/ CallsEnded
    BY <1>5, <2>1, <2>2 DEF EndCall, CallsEnded, OrTransport, Fail, Stopping, TurnInv, ControlInv
  <2>3. CASE ~(EndCall \/ CallsEnded)
    BY <1>5, <1>8, <2>1, <2>3
       DEF Apply, ApplyReasoning, ApplyText, SkipFragment, EnsureToolOwner, RefuseFragment,
           AcceptFragment, FlushArg, FragmentDone, ChunkDone, Fail, InTools, Stopping
  <2> QED
    BY <2>2, <2>3
<1>9. CASE Finish
  BY <1>5, <1>9 DEF Finish, CloseBlocks, ConcludeEmpty, Conclude, Stopping
<1> QED
  BY <1>2, <1>3, <1>4, <1>6, <1>7, <1>8, <1>9 DEF Next, TurnStep, Recv, Returned

-----------------------------------------------------------------------------
(* The steps that talk to the emitter about tool calls. *)

LEMMA EndCallInv ==
    ASSUME TurnInv, EndCall
    PROVE  /\ ControlInv' /\ EmitterOK' /\ BlocksInv' /\ TranscriptInv' /\ CallsInv' /\ ReturnInv'
           /\ Later(em, em')
<1> DEFINE b == calls.order[cursor]
<1>1. TablesOK(calls) /\ IDsClaimed(calls) /\ calls.order \in Seq(Buffers) /\ EmitterInv(em)
  BY DEF TurnInv, CallsInv, TablesOK, CallTables, EmitterOK
<1>2. cursor \in 1..Len(calls.order)
  BY <1>1 DEF EndCall, AllEnded, TurnInv, ControlInv
<1>3. b \in Buffers
  BY <1>1, <1>2
<1>4. [b EXCEPT !.ended = TRUE] \in Buffers /\ [b EXCEPT !.ended = TRUE].id = b.id
  BY <1>3 DEF Buffers
<1>5. calls' = [calls EXCEPT !.order[cursor] = [b EXCEPT !.ended = TRUE]]
  BY DEF EndCall
<1>6. TablesOK(calls') /\ IDsClaimed(calls')
  BY <1>1, <1>2, <1>3, <1>4, <1>5, ReplacedBuffer DEF Buffers
<1>7. Later(em, em')
  BY <1>1, <1>3, LaterTools, NoDeltaType DEF EndCall, Buffers, Later, Name
<1>8. EmitterOK'
  BY <1>7 DEF EndCall, TurnInv, EmitterOK, Later, Connected
<1>9. CallsInv'
  BY <1>6 DEF EndCall, CallsInv
<1>10. ControlInv'
  BY DEF EndCall, request, TurnInv, ControlInv, InChunk
<1>11. BlocksInv'
  BY <1>7 DEF EndCall, blocks, TurnInv, BlocksInv, Closing, Later
<1>12. TranscriptInv' /\ ReturnInv'
  BY DEF EndCall, blocks, TurnInv, TranscriptInv, ReturnInv
<1> QED
  BY <1>7, <1>8, <1>9, <1>10, <1>11, <1>12

LEMMA CallFacts ==
    ASSUME TurnInv, InTools \/ pc = "flush"
    PROVE  call \in Fragments /\ piece(cursor) \in Tokens /\ cursor \in 1..Len(chunk.calls)
           /\ Len(chunk.calls) \in Nat
<1>1. cursor \in 1..Len(chunk.calls) /\ Len(chunk.calls) \in Nat
  BY ChunkFacts DEF TurnInv, ControlInv, InTools, InChunk
<1> QED
  BY <1>1, ChunkFacts DEF TurnInv, InTools, InChunk, call

LEMMA RefuseInv ==
    ASSUME TurnInv, RefuseFragment
    PROVE  ControlInv' /\ EmitterOK' /\ BlocksInv' /\ TranscriptInv' /\ CallsInv' /\ ReturnInv'
<1> DEFINE found == WithBuffer(calls, call)
<1>1. TablesOK(calls) /\ IDsClaimed(calls) /\ call \in Fragments /\ Correlatable(call)
  BY CallFacts DEF TurnInv, CallsInv, RefuseFragment
<1>2. call.index # NoIndex
  BY DEF RefuseFragment, Ambiguous, ChangedID, ClaimedTwice
<1>3. TablesOK(found) /\ IDsClaimed(found)
  BY <1>1, <1>2, FoundBuffer DEF IDsClaimed, JustMade
<1>4. calls' = found /\ pc' = "close"
  BY DEF RefuseFragment, Fail
<1>5. CallsInv'
  BY <1>3, <1>4 DEF CallsInv
<1>6. ControlInv'
  BY <1>4 DEF RefuseFragment, InTools, request, TurnInv, ControlInv, Places, InChunk
<1>7. EmitterOK' /\ BlocksInv'
  BY <1>4 DEF RefuseFragment, blocks, TurnInv, EmitterOK, BlocksInv, Connected, Closing
<1>8. TranscriptInv' /\ ReturnInv'
  BY <1>4 DEF RefuseFragment, InTools, blocks, TurnInv, TranscriptInv, ReturnInv
<1> QED
  BY <1>5, <1>6, <1>7, <1>8

LEMMA FlushInv ==
    ASSUME TurnInv, FlushArg
    PROVE  /\ ControlInv' /\ EmitterOK' /\ BlocksInv' /\ TranscriptInv' /\ CallsInv' /\ ReturnInv'
           /\ Later(em, em')
<1> DEFINE pos == Known(calls, call)
           b   == calls.order[pos]
           c   == [b EXCEPT !.pendingArgs = Tail(@)]
<1>1. /\ TablesOK(calls) /\ IDsClaimed(calls) /\ calls.order \in Seq(Buffers) /\ EmitterInv(em)
      /\ call \in Fragments /\ Correlatable(call) /\ pos # 0
  BY CallFacts DEF FlushArg, TurnInv, CallsInv, TablesOK, CallTables, EmitterOK, ControlInv
<1>2. pos \in 1..Len(calls.order)
  BY <1>1, KnownType
<1>3. b \in Buffers /\ b.pendingArgs # <<>>
  BY <1>1, <1>2 DEF FlushArg, Flushing
<1>4. c \in Buffers /\ c.id = b.id /\ c.ended = b.ended /\ Head(b.pendingArgs) \in Tokens
  <2>1. b.pendingArgs \in Seq(Tokens)
    BY <1>3 DEF Buffers
  <2>2. Head(b.pendingArgs) \in Tokens /\ Tail(b.pendingArgs) \in Seq(Tokens)
    BY <1>3, <2>1
  <2> HIDE DEF b
  <2> QED
    BY <1>3, <2>2 DEF Buffers
<1>5. calls' = [calls EXCEPT !.order[pos] = c]
  BY DEF FlushArg
<1>6. TablesOK(calls') /\ IDsClaimed(calls') /\ Known(calls', call) = Known(calls, call)
  BY <1>1, <1>2, <1>4, <1>5, ReplacedBuffer
<1>7. Later(em, em')
  BY <1>1, <1>3, <1>4, LaterTools DEF FlushArg, Buffers, Delta, Name
<1>8. EmitterOK'
  BY <1>7 DEF FlushArg, TurnInv, EmitterOK, Later, Connected
<1>9. CallsInv'
  BY <1>1, <1>6 DEF FlushArg, CallsInv, call, chunk
<1>10. ControlInv'
  BY DEF FlushArg, request, TurnInv, ControlInv, InChunk, chunk, call
<1>11. BlocksInv'
  BY <1>7 DEF FlushArg, blocks, TurnInv, BlocksInv, Closing, Later
<1>12. TranscriptInv' /\ ReturnInv'
  BY DEF FlushArg, blocks, TurnInv, TranscriptInv, ReturnInv
<1> QED
  BY <1>7, <1>8, <1>9, <1>10, <1>11, <1>12

LEMMA AcceptInv ==
    ASSUME TurnInv, AcceptFragment
    PROVE  /\ ControlInv' /\ EmitterOK' /\ BlocksInv' /\ TranscriptInv' /\ CallsInv' /\ ReturnInv'
           /\ Later(em, em')
<1> DEFINE found  == WithBuffer(calls, call)
           pos    == Known(found, call)
           delta  == IF call.args THEN piece(cursor) ELSE NoDelta
           before == found.order[pos]
           merged == Merge(before, call, delta)
           talks  == live /\ ~before.ended
           starts == talks /\ Ready(merged)
           sends  == talks /\ merged.started
           buffer == IF talks /\ ~merged.started THEN Postpone(merged, delta) ELSE merged
           stored == [buffer EXCEPT !.started = @ \/ starts]
<1>1. /\ TablesOK(calls) /\ IDsClaimed(calls) /\ EmitterInv(em) /\ live \in BOOLEAN
      /\ call \in Fragments /\ Correlatable(call) /\ piece(cursor) \in Tokens
      /\ owner.id \in Nat
  BY CallFacts DEF AcceptFragment, TurnInv, CallsInv, EmitterOK, ControlInv, TranscriptInv
<1>2. TablesOK(found) /\ pos \in 1..Len(found.order)
  BY <1>1, FoundBuffer
<1>3. before \in Buffers
  BY <1>2 DEF TablesOK, CallTables
<1>4. delta \in Tokens \cup {NoDelta} /\ call.id \in ToolID /\ call.name \in Name
  BY <1>1 DEF Fragments
<1> HIDE DEF before, delta
<1>5. /\ merged \in Buffers /\ merged.ended = before.ended
      /\ merged.id = IF before.ended \/ call.id = NoID THEN before.id ELSE call.id
  <2>1. Join(before.arguments, delta) \in Seq(Tokens)
    BY <1>3, <1>4 DEF Join, Buffers
  <2> QED
    BY <1>3, <1>4, <2>1 DEF Merge, Buffers
<1> HIDE DEF merged
<1>6. buffer \in Buffers /\ buffer.id = merged.id /\ buffer.ended = merged.ended
  BY <1>4, <1>5, SMTT(30) DEF Postpone, Join, Buffers
<1>7. starts \in BOOLEAN
  BY <1>1, <1>3, <1>5 DEF Ready, Buffers
<1> HIDE DEF buffer, starts
<1>8. stored \in Buffers /\ stored.id = merged.id /\ stored.ended = merged.ended
  BY <1>6, <1>7 DEF Buffers
<1> HIDE DEF stored
<1>9. /\ calls' = [Claim(found, call) EXCEPT !.order[pos] = stored]
      /\ ~Ambiguous(found, call) /\ pc' = "flush"
  BY DEF AcceptFragment, stored, buffer, starts, merged, before, delta
<1>10. TablesOK(calls') /\ IDsClaimed(calls') /\ Known(calls', call) = pos
  BY <1>1, <1>5, <1>8, <1>9, AcceptedBuffer DEF before
<1>11. Later(em, em')
  <2>1. em' \in {ToolArgs(em, merged.id, delta), ToolStart(em, merged.id, merged.name, owner.id), em}
    BY DEF AcceptFragment, starts, merged, before, delta
  <2>2. merged.id \in ToolID /\ merged.name \in Name /\ delta \in Delta
    BY <1>4, <1>5 DEF Buffers, Delta
  <2>3. Later(em, em)
    BY <1>1 DEF Later
  <2> QED
    BY <1>1, <2>1, <2>2, <2>3, LaterTools
<1>12. EmitterOK'
  BY <1>9, <1>11 DEF EmitterOK, Later, Connected
<1>13. CallsInv'
  <2>1. call' = call
    BY DEF AcceptFragment, call, chunk
  <2>2. pos # 0
    BY <1>2
  <2> QED
    BY <1>10, <2>1, <2>2 DEF CallsInv
<1>14. ControlInv'
  BY <1>1, <1>9, CallFacts
     DEF AcceptFragment, request, InTools, TurnInv, ControlInv, Places, InChunk, chunk, call
<1>15. BlocksInv'
  BY <1>9, <1>11 DEF AcceptFragment, blocks, TurnInv, BlocksInv, Closing, Later
<1>16. TranscriptInv' /\ ReturnInv'
  BY <1>9 DEF AcceptFragment, InTools, blocks, TurnInv, TranscriptInv, ReturnInv
<1> QED
  BY <1>11, <1>12, <1>13, <1>14, <1>15, <1>16

-----------------------------------------------------------------------------
(* The steps that open and close blocks. *)

(* A block that is ended and written, and the message it becomes. *)
LEMMA MessageType ==
    ASSUME NEW b \in Block, NEW role \in Roles, NEW messages \in Seq(Callless)
    PROVE  /\ Plain(b.id, role, b.content) \in Callless
           /\ Append(messages, Plain(b.id, role, b.content)) \in Seq(Callless)
           /\ Len(Append(messages, Plain(b.id, role, b.content))) = Len(messages) + 1
           /\ Len(messages) \in Nat
<1>1. Plain(b.id, role, b.content) \in Callless
  BY DEF Plain, Callless, Block
<1> QED
  BY <1>1

LEMMA WithBlocks ==
    ASSUME text \in Block, reasoning \in Block, NEW messages \in Seq(Callless), NEW e
    PROVE  /\ WithText(e, messages) \in Seq(Callless)
           /\ WithReasoning(e, messages) \in Seq(Callless)
           /\ Len(WithText(e, messages)) \in Nat /\ Len(WithText(e, messages)) >= Len(messages)
           /\ Len(WithReasoning(e, messages)) \in Nat
           /\ Len(WithReasoning(e, messages)) >= Len(messages)
  BY MessageType DEF WithText, WithReasoning, Roles

LEMMA GrownType ==
    ASSUME ControlInv, InChunk, NEW b \in Block, NEW id \in Nat, NEW opened, NEW sent,
           opened.err \in BOOLEAN
    PROVE  /\ Grown(b, id, opened, sent) \in Block
           /\ ~opened.err => Grown(b, id, opened, sent).open
<1>1. piece(0) \in Tokens
  BY ChunkFacts
<1>2. Append(b.content, piece(0)) \in Seq(Tokens) /\ b.content \in Seq(Tokens) /\ b.open \in BOOLEAN
  BY <1>1 DEF Block
<1> QED
  BY <1>2 DEF Grown, Block

LEMMA ClosedType == Closed \in Block /\ ~Closed.open /\ Closed.content = <<>>
  BY DEF Closed, Block, NoMessage

(* applyReasoning in short: closed and opened are the emitter once the text *)
(* is ended and once the block is open.                                     *)
ReasoningApplied(closed, opened) ==
    LET id == IF reasoning.open THEN reasoning.id ELSE nextID IN
    /\ EmitterInv(em') /\ closed.err \in BOOLEAN /\ opened.err \in BOOLEAN
    /\ closed.err => opened.err
    /\ opened.err => em'.err
    /\ ~text.open => ~closed.err
    /\ text' = Closed
    /\ wireMessages' = WithText(closed, wireMessages)
    /\ IF closed.err THEN UNCHANGED <<reasoning, nextID>>
       ELSE /\ nextID' = IF reasoning.open THEN nextID ELSE nextID + 1
            /\ reasoning' = Grown(reasoning, id, opened, em')
    /\ IF em'.err THEN pc' = "close" /\ after' = after
       ELSE (pc' = "end" /\ after' = "text") \/ (pc' = "tools" /\ after' = after)
    /\ UNCHANGED <<live, cursor, chunks, calls, owner, result>>

LEMMA ReasoningStep ==
    ASSUME TurnInv, ApplyReasoning
    PROVE  \E closed, opened : ReasoningApplied(closed, opened)
<1> DEFINE closed == EndText(em)
           id     == IF reasoning.open THEN reasoning.id ELSE nextID
           opened == IF reasoning.open THEN closed
                     ELSE ReasoningMessageStart(ReasoningStart(closed, id), id)
           sent   == ReasoningContent(opened, id, piece(0))
<1>1. /\ EmitterInv(em) /\ text \in Block /\ reasoning \in Block /\ nextID \in Nat \ {0}
      /\ InChunk /\ ControlInv /\ ~em.err /\ pc = "reasoning"
  BY DEF ApplyReasoning, TurnInv, EmitterOK, BlocksInv, InChunk, Connected
<1>2. id \in Nat /\ piece(0) \in Delta
  BY <1>1, ChunkFacts DEF Block
<1>3. Later(em, closed) /\ (~text.open => closed = em)
  BY <1>1, LaterEnds
<1>4. Later(closed, opened)
  <2>1. Later(closed, closed) /\ EmitterInv(closed)
    BY <1>3 DEF Later
  <2>2. Later(closed, ReasoningStart(closed, id))
    BY <1>2, <2>1, LaterBlocks, NoDeltaType
  <2>3. Later(ReasoningStart(closed, id), ReasoningMessageStart(ReasoningStart(closed, id), id))
    BY <1>2, <2>2, LaterBlocks, NoDeltaType DEF Later
  <2> QED
    BY <2>1, <2>2, <2>3, LaterIsTransitive
<1>5. Later(opened, sent)
  BY <1>2, <1>4, LaterBlocks DEF Later
<1>6. em' = sent
  BY DEF ApplyReasoning
<1> HIDE DEF sent, opened, closed, id
<1>7. EmitterInv(em') /\ closed.err \in BOOLEAN /\ opened.err \in BOOLEAN /\ (closed.err => opened.err) /\ (opened.err => em'.err)
  BY <1>3, <1>4, <1>5, <1>6 DEF Later, EmitterInv, EmitterType
<1>8. /\ text' = Closed
      /\ wireMessages' = WithText(closed, wireMessages)
      /\ IF closed.err THEN UNCHANGED <<reasoning, nextID>>
         ELSE /\ nextID' = IF reasoning.open THEN nextID ELSE nextID + 1
              /\ reasoning' = Grown(reasoning, id, opened, em')
  BY <1>6 DEF ApplyReasoning, Forget, closed, opened, id, sent
<1>9. /\ IF em'.err THEN pc' = "close" /\ after' = after
         ELSE (pc' = "end" /\ after' = "text") \/ (pc' = "tools" /\ after' = after)
      /\ UNCHANGED <<live, cursor, chunks, calls, owner, result>>
  BY <1>6 DEF ApplyReasoning, Fail, request
<1>10. ReasoningApplied(closed, opened)
  BY <1>1, <1>3, <1>7, <1>8, <1>9 DEF ReasoningApplied, id
<1> QED
  BY <1>10

LEMMA ApplyReasoningInv ==
    ASSUME TurnInv, ApplyReasoning
    PROVE  /\ ControlInv' /\ EmitterOK' /\ BlocksInv' /\ TranscriptInv' /\ CallsInv' /\ ReturnInv'
<1>1. PICK closed, opened : ReasoningApplied(closed, opened)
  BY ReasoningStep
<1> DEFINE id == IF reasoning.open THEN reasoning.id ELSE nextID
<1>2. /\ text \in Block /\ reasoning \in Block /\ nextID \in Nat \ {0} /\ id \in Nat
      /\ InChunk /\ ControlInv /\ ~em.err /\ pc = "reasoning"
  BY DEF ApplyReasoning, TurnInv, EmitterOK, BlocksInv, InChunk, Connected, Block
<1>3. EmitterInv(em') /\ opened.err \in BOOLEAN /\ (closed.err => opened.err)
      /\ (opened.err => em'.err) /\ text' = Closed
  BY <1>1 DEF ReasoningApplied
<1>4. /\ wireMessages' = WithText(closed, wireMessages)
      /\ IF closed.err THEN UNCHANGED <<reasoning, nextID>>
         ELSE /\ nextID' = IF reasoning.open THEN nextID ELSE nextID + 1
              /\ reasoning' = Grown(reasoning, id, opened, em')
  BY <1>1 DEF ReasoningApplied
<1>5. /\ IF em'.err THEN pc' = "close" /\ after' = after
         ELSE (pc' = "end" /\ after' = "text") \/ (pc' = "tools" /\ after' = after)
      /\ UNCHANGED <<live, cursor, chunks, calls, owner, result>>
  BY <1>1 DEF ReasoningApplied
<1> HIDE DEF id
<1>6. ControlInv'
  BY <1>2, <1>5 DEF ControlInv, InChunk, Places
<1>7. EmitterOK'
  BY <1>3, <1>5 DEF EmitterOK, Connected
<1>8. BlocksInv'
  <2>1. reasoning' \in Block /\ nextID' \in Nat \ {0}
    BY <1>2, <1>3, <1>4, GrownType
  <2>2. ~em'.err => reasoning'.open
    BY <1>2, <1>3, <1>4, GrownType
  <2> QED
    BY <1>2, <1>3, <1>5, <2>1, <2>2, ClosedType DEF BlocksInv, Closing, ControlInv
<1>9. TranscriptInv'
  BY <1>2, <1>4, <1>5, WithBlocks DEF TurnInv, TranscriptInv
<1>10. CallsInv' /\ ReturnInv'
  BY <1>2, <1>5 DEF TurnInv, CallsInv, ReturnInv
<1> QED
  BY <1>6, <1>7, <1>8, <1>9, <1>10

(* applyText in short, the same way. *)
TextApplied(closed, opened) ==
    LET id == IF text.open THEN text.id ELSE nextID IN
    /\ EmitterInv(em') /\ closed.err \in BOOLEAN /\ opened.err \in BOOLEAN
    /\ closed.err => opened.err
    /\ opened.err => em'.err
    /\ ~reasoning.open => ~closed.err
    /\ reasoning' = Closed
    /\ wireMessages' = WithReasoning(closed, wireMessages)
    /\ IF closed.err THEN UNCHANGED <<text, nextID>>
       ELSE /\ nextID' = IF text.open THEN nextID ELSE nextID + 1
            /\ text' = Grown(text, id, opened, em')
    /\ pc' = IF em'.err THEN "close" ELSE "tools"
    /\ UNCHANGED <<live, cursor, after, chunks, calls, owner, result>>

LEMMA TextStep ==
    ASSUME TurnInv, ApplyText
    PROVE  \E closed, opened : TextApplied(closed, opened)
<1> DEFINE closed == EndReasoning(em)
           id     == IF text.open THEN text.id ELSE nextID
           opened == IF text.open THEN closed ELSE TextStart(closed, id)
           sent   == TextContent(opened, id, piece(0))
<1>1. /\ EmitterInv(em) /\ text \in Block /\ reasoning \in Block /\ nextID \in Nat \ {0}
      /\ InChunk /\ ControlInv /\ ~em.err /\ pc = "text"
  BY DEF ApplyText, TurnInv, EmitterOK, BlocksInv, InChunk, Connected
<1>2. id \in Nat /\ piece(0) \in Delta
  BY <1>1, ChunkFacts DEF Block
<1>3. Later(em, closed) /\ (~reasoning.open => closed = em)
  BY <1>1, LaterEnds
<1>4. Later(closed, opened)
  <2>1. Later(closed, closed) /\ EmitterInv(closed)
    BY <1>3 DEF Later
  <2>2. Later(closed, TextStart(closed, id))
    BY <1>2, <2>1, LaterBlocks, NoDeltaType
  <2> QED
    BY <2>1, <2>2
<1>5. Later(opened, sent)
  BY <1>2, <1>4, LaterBlocks DEF Later
<1>6. em' = sent
  BY DEF ApplyText
<1> HIDE DEF sent, opened, closed, id
<1>7. EmitterInv(em') /\ closed.err \in BOOLEAN /\ opened.err \in BOOLEAN /\ (closed.err => opened.err) /\ (opened.err => em'.err)
  BY <1>3, <1>4, <1>5, <1>6 DEF Later, EmitterInv, EmitterType
<1>8. /\ reasoning' = Closed
      /\ wireMessages' = WithReasoning(closed, wireMessages)
      /\ IF closed.err THEN UNCHANGED <<text, nextID>>
         ELSE /\ nextID' = IF text.open THEN nextID ELSE nextID + 1
              /\ text' = Grown(text, id, opened, em')
  BY <1>6 DEF ApplyText, Forget, closed, opened, id, sent
<1>9. /\ pc' = IF em'.err THEN "close" ELSE "tools"
      /\ UNCHANGED <<live, cursor, after, chunks, calls, owner, result>>
  BY <1>6 DEF ApplyText, Fail, request
<1>10. TextApplied(closed, opened)
  BY <1>1, <1>3, <1>7, <1>8, <1>9 DEF TextApplied, id
<1> QED
  BY <1>10

LEMMA ApplyTextInv ==
    ASSUME TurnInv, ApplyText
    PROVE  /\ ControlInv' /\ EmitterOK' /\ BlocksInv' /\ TranscriptInv' /\ CallsInv' /\ ReturnInv'
<1>1. PICK closed, opened : TextApplied(closed, opened)
  BY TextStep
<1> DEFINE id == IF text.open THEN text.id ELSE nextID
<1>2. /\ reasoning \in Block /\ text \in Block /\ nextID \in Nat \ {0} /\ id \in Nat
      /\ InChunk /\ ControlInv /\ ~em.err /\ pc = "text"
  BY DEF ApplyText, TurnInv, EmitterOK, BlocksInv, InChunk, Connected, Block
<1>3. EmitterInv(em') /\ opened.err \in BOOLEAN /\ (closed.err => opened.err)
      /\ (opened.err => em'.err) /\ reasoning' = Closed
  BY <1>1 DEF TextApplied
<1>4. /\ wireMessages' = WithReasoning(closed, wireMessages)
      /\ IF closed.err THEN UNCHANGED <<text, nextID>>
         ELSE /\ nextID' = IF text.open THEN nextID ELSE nextID + 1
              /\ text' = Grown(text, id, opened, em')
  BY <1>1 DEF TextApplied
<1>5. /\ pc' = IF em'.err THEN "close" ELSE "tools"
      /\ UNCHANGED <<live, cursor, after, chunks, calls, owner, result>>
  BY <1>1 DEF TextApplied
<1> HIDE DEF id
<1>6. ControlInv'
  BY <1>2, <1>5 DEF ControlInv, InChunk, Places
<1>7. EmitterOK'
  BY <1>3, <1>5 DEF EmitterOK, Connected
<1>8. BlocksInv'
  <2>1. text' \in Block /\ nextID' \in Nat \ {0}
    BY <1>2, <1>3, <1>4, GrownType
  <2>2. ~em'.err => text'.open
    BY <1>2, <1>3, <1>4, GrownType
  <2> QED
    BY <1>2, <1>3, <1>5, <2>1, <2>2, ClosedType DEF BlocksInv, Closing, ControlInv
<1>9. TranscriptInv'
  BY <1>2, <1>4, <1>5, WithBlocks DEF TurnInv, TranscriptInv
<1>10. CallsInv' /\ ReturnInv'
  BY <1>2, <1>5 DEF TurnInv, CallsInv, ReturnInv
<1> QED
  BY <1>6, <1>7, <1>8, <1>9, <1>10

(* The transcript with whatever was open. *)
LEMMA ClosedMessages ==
    ASSUME text \in Block, reasoning \in Block, NEW messages \in Seq(Callless), NEW quiet, NEW closed
    PROVE  /\ WithText(closed, WithReasoning(quiet, messages)) \in Seq(Callless)
           /\ Len(WithText(closed, WithReasoning(quiet, messages))) \in Nat
           /\ Len(WithText(closed, WithReasoning(quiet, messages))) >= Len(messages)
<1> DEFINE said == WithReasoning(quiet, messages)
<1>1. said \in Seq(Callless) /\ Len(said) \in Nat /\ Len(said) >= Len(messages)
      /\ Len(messages) \in Nat
  BY WithBlocks
<1> HIDE DEF said
<1>2. /\ WithText(closed, said) \in Seq(Callless) /\ Len(WithText(closed, said)) \in Nat
      /\ Len(WithText(closed, said)) >= Len(said)
  BY <1>1, WithBlocks
<1> QED
  BY <1>1, <1>2 DEF said

(* ensureToolOwner in short: quiet and closed are the emitter once the      *)
(* reasoning and once the text is ended.                                    *)
OwnerEnsured(quiet, closed) ==
    LET messages == WithText(closed, WithReasoning(quiet, wireMessages))
        cut      == reasoning.open /\ quiet.err
        failed   == cut \/ (text.open /\ closed.err)
    IN  /\ EmitterInv(em') /\ quiet.err \in BOOLEAN /\ closed.err \in BOOLEAN
        /\ em'.err <=> failed
        /\ ~reasoning.open => ~quiet.err
        /\ ~text.open => closed.err = quiet.err
        /\ reasoning' = Closed /\ text' = IF cut THEN text ELSE Closed
        /\ IF failed
           THEN pc' = "close" /\ wireMessages' = messages /\ UNCHANGED <<owner, nextID>>
           ELSE /\ owner' = [id |-> nextID, index |-> Len(messages) + 1]
                /\ nextID' = nextID + 1
                /\ wireMessages' = Append(messages, Plain(nextID, "assistant", <<>>))
                /\ pc' = pc
        /\ UNCHANGED <<live, cursor, after, chunks, calls, result>>

LEMMA OwnerStep ==
    ASSUME TurnInv, EnsureToolOwner
    PROVE  \E quiet, closed : OwnerEnsured(quiet, closed)
<1> DEFINE quiet    == EndReasoning(em)
           closed   == EndText(quiet)
           messages == WithText(closed, WithReasoning(quiet, wireMessages))
           cut      == reasoning.open /\ quiet.err
           failed   == cut \/ (text.open /\ closed.err)
<1>1. /\ EmitterInv(em) /\ text \in Block /\ reasoning \in Block /\ nextID \in Nat \ {0}
      /\ ControlInv /\ ~em.err /\ pc = "tools" /\ wireMessages \in Seq(Callless)
      /\ ~(text.open /\ reasoning.open)
  BY DEF EnsureToolOwner, InTools, TurnInv, EmitterOK, BlocksInv, TranscriptInv, Connected
<1>2. Later(em, quiet) /\ (~reasoning.open => quiet = em)
  BY <1>1, LaterEnds
<1>3. Later(quiet, closed) /\ (~text.open => closed = quiet)
  BY <1>1, <1>2, LaterEnds DEF Later
<1>4. /\ reasoning' = Closed /\ text' = IF cut THEN text ELSE Closed
      /\ em' = IF cut THEN quiet ELSE closed
      /\ IF failed
         THEN pc' = "close" /\ wireMessages' = messages /\ UNCHANGED <<owner, nextID>>
         ELSE /\ owner' = [id |-> nextID, index |-> Len(messages) + 1]
              /\ nextID' = nextID + 1
              /\ wireMessages' = Append(messages, Plain(nextID, "assistant", <<>>))
              /\ pc' = pc
      /\ UNCHANGED <<live, cursor, after, chunks, calls, result>>
  BY DEF EnsureToolOwner, Forget, Fail, request
<1> HIDE DEF messages, closed, quiet
<1>5. /\ EmitterInv(em') /\ (em'.err <=> failed)
      /\ quiet.err \in BOOLEAN /\ closed.err \in BOOLEAN
  BY <1>1, <1>2, <1>3, <1>4 DEF Later, EmitterInv, EmitterType
<1>6. OwnerEnsured(quiet, closed)
  BY <1>1, <1>2, <1>3, <1>4, <1>5 DEF OwnerEnsured, messages
<1> QED
  BY <1>6

LEMMA EnsureToolOwnerInv ==
    ASSUME TurnInv, EnsureToolOwner
    PROVE  /\ ControlInv' /\ EmitterOK' /\ BlocksInv' /\ TranscriptInv' /\ CallsInv' /\ ReturnInv'
<1>1. PICK quiet, closed : OwnerEnsured(quiet, closed)
  BY OwnerStep
<1> DEFINE messages == WithText(closed, WithReasoning(quiet, wireMessages))
           cut      == reasoning.open /\ quiet.err
           failed   == cut \/ (text.open /\ closed.err)
<1>2. /\ text \in Block /\ reasoning \in Block /\ nextID \in Nat \ {0}
      /\ ControlInv /\ ~em.err /\ pc = "tools" /\ wireMessages \in Seq(Callless)
      /\ ~(text.open /\ reasoning.open)
  BY DEF EnsureToolOwner, InTools, TurnInv, EmitterOK, BlocksInv, TranscriptInv, Connected
<1>3. messages \in Seq(Callless) /\ Len(messages) \in Nat /\ Len(messages) >= Len(wireMessages)
  BY <1>2, ClosedMessages
<1>4. /\ reasoning' = Closed /\ text' = IF cut THEN text ELSE Closed
      /\ IF failed
         THEN pc' = "close" /\ wireMessages' = messages /\ UNCHANGED <<owner, nextID>>
         ELSE /\ owner' = [id |-> nextID, index |-> Len(messages) + 1]
              /\ nextID' = nextID + 1
              /\ wireMessages' = Append(messages, Plain(nextID, "assistant", <<>>))
              /\ pc' = pc
      /\ UNCHANGED <<live, cursor, after, chunks, calls, result>>
  BY <1>1 DEF OwnerEnsured
<1>5. EmitterInv(em') /\ (em'.err <=> failed)
  BY <1>1 DEF OwnerEnsured
<1> HIDE DEF messages
<1>6. ControlInv'
  BY <1>2, <1>4 DEF ControlInv, InChunk, Places
<1>7. EmitterOK'
  BY <1>2, <1>4, <1>5 DEF EmitterOK, Connected
<1>8. BlocksInv'
  BY <1>2, <1>4, ClosedType DEF BlocksInv, Closing, TurnInv
<1>9. TranscriptInv'
  <2>1. Plain(nextID, "assistant", <<>>) \in Callless
    BY <1>2 DEF Plain, Callless, Roles
  <2>2. wireMessages' \in Seq(Callless)
    BY <1>3, <1>4, <2>1, SMTT(30)
  <2>3. owner' \in [id : Nat, index : Nat] /\ (owner' = NoOwner <=> owner'.index = 0)
    BY <1>2, <1>3, <1>4 DEF TurnInv, TranscriptInv, NoOwner
  <2>4. owner'.index <= Len(wireMessages')
    <3>1. CASE failed
      BY <1>2, <1>3, <1>4, <3>1 DEF TurnInv, TranscriptInv
    <3>2. CASE ~failed
      BY <1>3, <1>4, <2>1, <3>2
    <3> QED
      BY <3>1, <3>2
  <2> QED
    BY <2>2, <2>3, <2>4 DEF TranscriptInv
<1>10. CallsInv' /\ ReturnInv'
  BY <1>2, <1>4 DEF TurnInv, CallsInv, ReturnInv
<1> QED
  BY <1>6, <1>7, <1>8, <1>9, <1>10

(* closeBlocks in short. *)
BlocksClosed(quiet, closed) ==
    /\ EmitterInv(em') /\ quiet.err \in BOOLEAN /\ (em.err => quiet.err)
    /\ em' = closed /\ (quiet.err => closed.err)
    /\ ~reasoning.open => quiet = em
    /\ ~text.open => closed = quiet
    /\ wireMessages' = WithText(closed, WithReasoning(quiet, wireMessages))
    /\ reasoning' = Closed /\ text' = Closed
    /\ pc' = "end" /\ after' = "conclude" /\ cursor' = 1
    /\ UNCHANGED <<live, chunks, calls, owner, nextID, result>>

LEMMA CloseStep ==
    ASSUME TurnInv, CloseBlocks
    PROVE  \E quiet, closed : BlocksClosed(quiet, closed)
<1> DEFINE quiet  == EndReasoning(em)
           closed == EndText(quiet)
<1>1. EmitterInv(em) /\ text \in Block /\ reasoning \in Block
  BY DEF TurnInv, EmitterOK, BlocksInv
<1>2. Later(em, quiet) /\ (~reasoning.open => quiet = em)
  BY <1>1, LaterEnds
<1>3. Later(quiet, closed) /\ (~text.open => closed = quiet)
  BY <1>1, <1>2, LaterEnds DEF Later
<1>4. quiet.err \in BOOLEAN
  BY <1>2 DEF Later, EmitterInv, EmitterType
<1>5. BlocksClosed(quiet, closed)
  BY <1>2, <1>3, <1>4 DEF CloseBlocks, Forget, request, Later, BlocksClosed
<1> QED
  BY <1>5

LEMMA CloseBlocksInv ==
    ASSUME TurnInv, CloseBlocks
    PROVE  /\ ControlInv' /\ EmitterOK' /\ BlocksInv' /\ TranscriptInv' /\ CallsInv' /\ ReturnInv'
<1>1. PICK quiet, closed : BlocksClosed(quiet, closed)
  BY CloseStep
<1> DEFINE messages == WithText(closed, WithReasoning(quiet, wireMessages))
<1>2. /\ text \in Block /\ reasoning \in Block /\ nextID \in Nat \ {0}
      /\ ControlInv /\ pc = "close" /\ wireMessages \in Seq(Callless)
  BY DEF CloseBlocks, TurnInv, BlocksInv, TranscriptInv
<1>3. messages \in Seq(Callless) /\ Len(messages) \in Nat /\ Len(messages) >= Len(wireMessages)
  BY <1>2, ClosedMessages
<1>4. /\ EmitterInv(em') /\ wireMessages' = messages
      /\ reasoning' = Closed /\ text' = Closed
      /\ pc' = "end" /\ after' = "conclude" /\ cursor' = 1
      /\ UNCHANGED <<live, chunks, calls, owner, nextID, result>>
  BY <1>1 DEF BlocksClosed
<1> HIDE DEF messages
<1>5. Len(wireMessages) \in Nat
  BY <1>2
<1>6. ControlInv' /\ EmitterOK'
  BY <1>2, <1>4 DEF ControlInv, InChunk, Places, EmitterOK, Connected
<1>7. BlocksInv'
  BY <1>2, <1>4, ClosedType DEF BlocksInv, Closing
<1>8. TranscriptInv'
  BY <1>2, <1>3, <1>4, <1>5 DEF TurnInv, TranscriptInv
<1>9. CallsInv' /\ ReturnInv'
  BY <1>2, <1>4 DEF TurnInv, CallsInv, ReturnInv
<1> QED
  BY <1>6, <1>7, <1>8, <1>9

-----------------------------------------------------------------------------
(* The steps that return. *)

LEMMA NoCallsInTranscript ==
    ASSUME TurnInv, pc # "done"
    PROVE  \A i \in DOMAIN wireMessages : wireMessages[i].calls = <<>>
<1>1. wireMessages \in Seq(Callless)
  BY DEF TurnInv, TranscriptInv
<1>2. \A i \in DOMAIN wireMessages : wireMessages[i] \in Callless
  BY <1>1
<1>3. \A m \in Callless : m.calls = <<>>
  BY DEF Callless
<1> QED
  BY <1>2, <1>3

LEMMA ReturnsInv ==
    ASSUME TurnInv, OpenFails \/ ConcludeEmpty \/ Conclude
    PROVE  /\ ControlInv' /\ EmitterOK' /\ BlocksInv' /\ TranscriptInv' /\ CallsInv' /\ ReturnInv'
<1>1. /\ pc \in {"open", "conclude"} /\ pc' = "done"
      /\ UNCHANGED <<em, live, cursor, after, chunks, text, reasoning, calls, owner, nextID>>
  BY DEF OpenFails, ConcludeEmpty, Conclude, request, blocks
<1>2. ControlInv' /\ CallsInv'
  BY <1>1 DEF TurnInv, ControlInv, CallsInv, InChunk, Places
<1>3. EmitterOK'
  BY <1>1 DEF TurnInv, EmitterOK, Connected
<1>4. BlocksInv'
  BY <1>1 DEF TurnInv, BlocksInv, Closing
<1>5. TranscriptInv'
  BY <1>1 DEF TurnInv, TranscriptInv
<1>6. ReturnInv'
  <2>1. CASE OpenFails
    BY <2>1 DEF OpenFails, TurnInv, ReturnInv, NotReturned, blocks
  <2>2. CASE ConcludeEmpty
    <3>1. /\ wireMessages' = wireMessages /\ pc = "conclude" /\ em' = em
          /\ primary' = IF primary = "none" THEN "empty" ELSE primary
          /\ result'.partial /\ result'.calls = <<>>
      BY <2>2 DEF ConcludeEmpty, blocks, NotReturned
    <3> QED
      BY <1>1, <3>1, NoCallsInTranscript DEF TurnInv, EmitterOK, ReturnInv
  <2>3. CASE Conclude
    <3>1. PICK concat \in BOOLEAN :
            /\ primary' = IF ~concat /\ primary = "none" THEN "concat" ELSE primary
            /\ result' = [returned |-> TRUE, assistant |-> concat,
                          calls |-> ResponseCalls(concat), partial |-> primary' # "none"]
            /\ wireMessages' = IF primary' # "correlation" /\ concat /\ owner # NoOwner
                               THEN Attach(ResponseCalls(concat)) ELSE wireMessages
      BY <2>3 DEF Conclude
    <3>2. em' = em /\ pc = "conclude" /\ (primary # "none" => primary' = primary)
      BY <2>3, <3>1 DEF Conclude
    <3>3. primary' # "none" => result'.partial
      BY <3>1, Zenon
    <3>4. primary' = "correlation" => primary = "correlation" /\ wireMessages' = wireMessages
      BY <3>1
    <3>5. result'.calls = ResponseCalls(concat)
      BY <3>1, Zenon
    <3>6. primary' = "correlation" => result'.calls = <<>>
      BY <3>4, <3>5 DEF ResponseCalls
    <3> QED
      BY <1>1, <3>2, <3>3, <3>4, <3>6, NoCallsInTranscript DEF TurnInv, EmitterOK, ReturnInv
  <2> QED
    BY <2>1, <2>2, <2>3
<1> QED
  BY <1>2, <1>3, <1>4, <1>5, <1>6

LEMMA StutterInv == TurnInv /\ UNCHANGED vars => TurnInv'
<1> SUFFICES ASSUME TurnInv, UNCHANGED vars
             PROVE  TurnInv'
  OBVIOUS
<1> USE DEF vars, TurnInv
<1>1. ControlInv'
  BY DEF ControlInv, InChunk, chunk, call
<1>2. EmitterOK' /\ BlocksInv'
  BY DEF EmitterOK, BlocksInv, Connected, Closing
<1>3. TranscriptInv' /\ ReturnInv' /\ LateInv'
  BY DEF TranscriptInv, ReturnInv, LateInv, Stopping
<1>4. CallsInv'
  BY DEF CallsInv, chunk, call
<1> QED
  BY <1>1, <1>2, <1>3, <1>4

LEMMA NextInv == TurnInv /\ [Next]_vars => TurnInv'
<1> SUFFICES ASSUME TurnInv, [Next]_vars
             PROVE  TurnInv'
  OBVIOUS
<1>1. LateInv'
  BY NextLate
<1>2. CASE Quiet
  BY <1>1, <1>2, QuietControl, QuietRest DEF TurnInv
<1>3. CASE EndCall
  BY <1>1, <1>3, EndCallInv DEF TurnInv
<1>4. CASE ApplyReasoning \/ ApplyText
  BY <1>1, <1>4, ApplyReasoningInv, ApplyTextInv DEF TurnInv
<1>5. CASE EnsureToolOwner
  BY <1>1, <1>5, EnsureToolOwnerInv DEF TurnInv
<1>6. CASE RefuseFragment \/ AcceptFragment \/ FlushArg
  BY <1>1, <1>6, RefuseInv, AcceptInv, FlushInv DEF TurnInv
<1>7. CASE CloseBlocks
  BY <1>1, <1>7, CloseBlocksInv DEF TurnInv
<1>8. CASE OpenFails \/ ConcludeEmpty \/ Conclude
  BY <1>1, <1>8, ReturnsInv DEF TurnInv
<1>9. CASE UNCHANGED vars
  BY <1>9, StutterInv
<1> QED
  BY <1>2, <1>3, <1>4, <1>5, <1>6, <1>7, <1>8, <1>9
     DEF Next, TurnStep, Apply, Finish, Quiet, Returned

(* TurnInv holds in every reachable state of a turn. *)
THEOREM TurnInvariant == Spec => []TurnInv
<1>1. TurnInv /\ [Next]_vars => TurnInv'
  BY NextInv
<1> QED
  BY TurnInit, <1>1, PTL DEF Spec

-----------------------------------------------------------------------------
(* What follows. *)

(* No two tool-call buffers share a provider id, in whatever order indexes  *)
(* and ids arrived (correlateToolCall): byID leads from an id to the one    *)
(* buffer that has it.                                                      *)
THEOREM BuffersAreIdentified == Spec => []IDsIdentifyBuffers
<1>1. TurnInv => IDsIdentifyBuffers
  <2> SUFFICES ASSUME TurnInv
               PROVE  IDsIdentifyBuffers
    OBVIOUS
  <2>1. DOMAIN buffers = 1..Len(calls.order)
    BY DEF buffers, TurnInv, CallsInv, TablesOK, CallTables
  <2> QED
    BY <2>1 DEF IDsIdentifyBuffers, buffers, TurnInv, CallsInv, IDsClaimed
<1> QED
  BY <1>1, TurnInvariant, PTL

(* After an ambiguous fragment neither the response nor the transcript      *)
(* keeps a tool call (finish).                                              *)
THEOREM AmbiguityKeepsNothing == Spec => []AmbiguousNeverAttached
<1>1. TurnInv => AmbiguousNeverAttached
  BY DEF TurnInv, ReturnInv, AmbiguousNeverAttached
<1> QED
  BY <1>1, TurnInvariant, PTL

(* A turn that returns with its client gone returns an error and a partial  *)
(* result: closing the last block or call is not too late to notice.        *)
THEOREM DisconnectsAreReported == Spec => []NoSilentDisconnect
<1>1. TurnInv => NoSilentDisconnect
  BY DEF TurnInv, ReturnInv, NoSilentDisconnect
<1> QED
  BY <1>1, TurnInvariant, PTL

(* The turn never receives once the client is gone, and once the request is *)
(* cancelled it takes one more chunk at most.                               *)
THEOREM ReceivingStops == Spec => []StopsReceiving
<1>1. TurnInv => StopsReceiving
  BY DEF TurnInv, EmitterOK, Connected, LateInv, StopsReceiving
<1> QED
  BY <1>1, TurnInvariant, PTL

-----------------------------------------------------------------------------
(***************************************************************************)
(* Usage.  Max of FiniteSetsExt chooses an upper bound that is a member;   *)
(* the invariant says of each counter that it is such a bound.             *)
(***************************************************************************)
Reporting == {k \in DOMAIN chunks : chunks[k].usage # NoUsage}

UsageInv ==
    IF Reporting = {} THEN usage = NoUsage
    ELSE /\ usage \in Usages /\ usage # NoUsage
         /\ \A f \in Fields :
              /\ usage[f] = 0 \/ \E k \in Reporting : chunks[k].usage[f] = usage[f]
              /\ \A k \in Reporting : chunks[k].usage[f] <= usage[f]

LEMMA MaxOfTwo ==
    ASSUME NEW m \in Int, NEW n \in Int
    PROVE  Max({m, n}) = IF m >= n THEN m ELSE n
  BY DEF Max

LEMMA ReportedUsage ==
    ASSUME TurnInv
    PROVE  \A k \in DOMAIN chunks : chunks[k].usage \in Reports \cup {NoUsage}
<1>1. chunks \in Seq(Chunks)
  BY DEF TurnInv, ControlInv
<1> QED
  BY <1>1, ChunksAssumption DEF ChunkShapes

(* What was seen of a counter before a report: zero before the first. *)
SoFar(seen, f) == IF seen = NoUsage THEN 0 ELSE seen[f]

LEMMA AccumulatedUsage ==
    ASSUME NEW seen \in Usages \cup {NoUsage}, NEW reported \in Reports, reported # NoUsage
    PROVE  LET sum == Accumulate(seen, reported) IN
           /\ sum \in Usages /\ sum # NoUsage
           /\ \A f \in Fields :
                sum[f] = IF SoFar(seen, f) >= reported[f] THEN SoFar(seen, f) ELSE reported[f]
<1>1. \A f \in Fields : SoFar(seen, f) \in Nat /\ reported[f] \in Int
  BY BoundsAssumption DEF Usages, Reports, SoFar
<1>2. Accumulate(seen, reported) = [f \in Fields |-> Max({SoFar(seen, f), reported[f]})]
  BY DEF Accumulate, SoFar
<1>3. \A f \in Fields : Max({SoFar(seen, f), reported[f]})
                          = IF SoFar(seen, f) >= reported[f] THEN SoFar(seen, f) ELSE reported[f]
  BY <1>1, MaxOfTwo
<1>4. Accumulate(seen, reported) \in Usages
  BY <1>1, <1>2, <1>3 DEF Usages
<1>5. Fields # {}
  BY DEF Reports, NoUsage
<1>6. Accumulate(seen, reported) # NoUsage
  BY <1>2, <1>5 DEF NoUsage
<1> QED
  BY <1>2, <1>3, <1>4, <1>6

LEMMA UsageInit == Init => UsageInv
  BY DEF Init, UsageInv, Reporting

LEMMA UsageStep ==
    ASSUME TurnInv, UsageInv, RecvChunk
    PROVE  UsageInv'
<1>1. PICK c \in Chunks : chunks' = Append(chunks, c) /\ usage' = Accumulate(usage, c.usage)
  BY DEF RecvChunk
<1> DEFINE last == Len(chunks) + 1
<1>2. /\ chunks \in Seq(Chunks) /\ chunks' \in Seq(Chunks)
      /\ DOMAIN chunks = 1..Len(chunks) /\ DOMAIN chunks' = 1..last /\ last \in Nat
      /\ chunks'[last] = c /\ \A k \in 1..Len(chunks) : chunks'[k] = chunks[k]
  BY <1>1 DEF TurnInv, ControlInv
<1>3. c.usage \in Reports \cup {NoUsage}
  BY ChunksAssumption DEF ChunkShapes
<1>4. Reporting' = IF c.usage = NoUsage THEN Reporting ELSE Reporting \cup {last}
  BY <1>2 DEF Reporting
<1>5. \A k \in Reporting : k \in 1..Len(chunks) /\ chunks'[k] = chunks[k]
                           /\ chunks[k].usage \in Reports
  BY <1>2, ReportedUsage DEF Reporting
<1>6. CASE c.usage = NoUsage
  <2>1. usage' = usage /\ Reporting' = Reporting
    BY <1>1, <1>4, <1>6 DEF Accumulate
  <2> QED
    BY <1>5, <2>1 DEF UsageInv
<1>7. CASE c.usage # NoUsage
  <2>1. usage \in Usages \cup {NoUsage} /\ (usage = NoUsage <=> Reporting = {})
    BY DEF UsageInv
  <2>2. /\ usage' \in Usages /\ usage' # NoUsage
        /\ \A f \in Fields :
             usage'[f] = IF SoFar(usage, f) >= c.usage[f] THEN SoFar(usage, f) ELSE c.usage[f]
    BY <1>1, <1>3, <1>7, <2>1, AccumulatedUsage
  <2>3. \A f \in Fields : SoFar(usage, f) \in Nat /\ c.usage[f] \in Int
    BY <1>3, <1>7, <2>1, BoundsAssumption DEF SoFar, Usages, Reports
  <2>4. Reporting' = Reporting \cup {last} /\ Reporting' # {}
    BY <1>4, <1>7
  <2>5. \A k \in Reporting, f \in Fields :
            chunks[k].usage[f] \in Int /\ chunks[k].usage[f] <= SoFar(usage, f)
    BY <1>5, <2>1, BoundsAssumption DEF UsageInv, SoFar, Reports
  <2>6. \A f \in Fields : \A k \in Reporting' : chunks'[k].usage[f] <= usage'[f]
    BY <1>2, <1>5, <2>2, <2>3, <2>4, <2>5
  <2>7. \A f \in Fields : \/ usage'[f] = 0
                          \/ \E k \in Reporting' : chunks'[k].usage[f] = usage'[f]
    <3> SUFFICES ASSUME NEW f \in Fields
                 PROVE  usage'[f] = 0 \/ \E k \in Reporting' : chunks'[k].usage[f] = usage'[f]
      OBVIOUS
    <3>1. SoFar(usage, f) = 0 \/ \E k \in Reporting : chunks[k].usage[f] = SoFar(usage, f)
      BY <2>1 DEF UsageInv, SoFar
    <3>2. \A k \in Reporting : chunks'[k].usage[f] = chunks[k].usage[f]
      BY <1>5
    <3>3. chunks'[last].usage[f] = c.usage[f]
      BY <1>2
    <3> QED
      BY <2>2, <2>4, <3>1, <3>2, <3>3
  <2> QED
    BY <2>2, <2>4, <2>6, <2>7 DEF UsageInv
<1> QED
  BY <1>6, <1>7

LEMMA OthersKeepUsage ==
    ASSUME [Next]_vars, ~RecvChunk
    PROVE  UNCHANGED <<chunks, usage>>
  BY DEF Next, TurnStep, Recv, Apply, Finish, Cancel, OpenFails, OpenStream, CheckRequest, RecvEOF,
         RecvError, RecvKeepAlive, EndCall, CallsEnded, ApplyReasoning, ApplyText, SkipFragment,
         EnsureToolOwner, RefuseFragment, AcceptFragment, FlushArg, FragmentDone, ChunkDone,
         CloseBlocks, ConcludeEmpty, Conclude, Returned, vars

LEMMA UsageNext == TurnInv /\ UsageInv /\ [Next]_vars => UsageInv'
<1> SUFFICES ASSUME TurnInv, UsageInv, [Next]_vars
             PROVE  UsageInv'
  OBVIOUS
<1>1. CASE RecvChunk
  BY <1>1, UsageStep
<1>2. CASE ~RecvChunk
  <2>1. chunks' = chunks /\ usage' = usage
    BY <1>2, OthersKeepUsage
  <2> QED
    BY <2>1 DEF UsageInv, Reporting
<1> QED
  BY <1>1, <1>2

(* The usage of a result is the per-field maximum of all reports received,  *)
(* however the turn ends (accumulateUsage).                                 *)
THEOREM UsageIsTheMaximum == Spec => []UsageIsMaximum
<1>1. TurnInv /\ UsageInv => UsageIsMaximum
  <2> SUFFICES ASSUME TurnInv, UsageInv
               PROVE  UsageIsMaximum
    OBVIOUS
  <2> DEFINE reports == {chunks[k].usage : k \in DOMAIN chunks} \ {NoUsage}
  <2>1. reports = {chunks[k].usage : k \in Reporting}
    BY DEF Reporting
  <2>2. \A k \in Reporting : chunks[k].usage \in Reports
    BY ReportedUsage DEF Reporting
  <2>3. CASE Reporting = {}
    BY <2>1, <2>3 DEF UsageInv, UsageIsMaximum
  <2>4. CASE Reporting # {}
    <3>1. reports # {} /\ usage \in Usages
      <4>1. PICK k \in Reporting : TRUE
        BY <2>4
      <4>2. chunks[k].usage \in reports
        BY <4>1, <2>1
      <4>3. usage \in Usages
        BY <2>4 DEF UsageInv
      <4> QED
        BY <4>2, <4>3
    <3>2. \A f \in Fields : Max({0} \cup {u[f] : u \in reports}) = usage[f]
      <4> SUFFICES ASSUME NEW f \in Fields
                   PROVE  Max({0} \cup {u[f] : u \in reports}) = usage[f]
        OBVIOUS
      <4>1. \A k \in Reporting : chunks[k].usage[f] \in Int /\ chunks[k].usage[f] <= usage[f]
        BY <2>2, <2>4, BoundsAssumption DEF UsageInv, Reports
      <4> DEFINE counts == {0} \cup {u[f] : u \in reports}
      <4>2. \A n \in counts : n = 0 \/ \E k \in Reporting : n = chunks[k].usage[f]
        BY <2>1
      <4>3. usage[f] = 0 \/ \E k \in Reporting : chunks[k].usage[f] = usage[f]
        BY <2>4 DEF UsageInv
      <4>4. \A k \in Reporting : chunks[k].usage \in reports
        BY <2>1
      <4>5. usage[f] \in counts
        BY <4>3, <4>4
      <4>6. usage[f] \in Nat
        BY <3>1 DEF Usages
      <4> HIDE DEF counts
      <4>7. \A n \in counts : n \in Int /\ n <= usage[f]
        BY <4>1, <4>2, <4>6
      <4>8. Max(counts) = usage[f]
        BY <4>5, <4>6, <4>7 DEF Max
      <4> QED
        BY <4>8 DEF counts
    <3>3. usage = [f \in Fields |-> usage[f]]
      BY <3>1 DEF Usages
    <3>4. usage = [f \in Fields |-> Max({0} \cup {u[f] : u \in reports})]
      BY <3>2, <3>3
    <3> QED
      BY <3>1, <3>4 DEF UsageIsMaximum
  <2> QED
    BY <2>3, <2>4
<1> QED
  BY <1>1, TurnInvariant, UsageInit, UsageNext, PTL DEF Spec

-----------------------------------------------------------------------------
(***************************************************************************)
(* Tool calls.  The frames of an emitter that start a call are out of a    *)
(* set: they are of calls known before the turn (none, when the turn is    *)
(* alone), or name the turn's owner.                                       *)
(***************************************************************************)
StartsUnder(e, starts) ==
    \A k \in DOMAIN e.wire : e.wire[k].type = "TOOL_CALL_START" => e.wire[k] \in starts

Allowed(earlier) == {f \in Frames : f.call \in earlier \/ (owner # NoOwner /\ f.msg = owner.id)}

OwnerListed ==
    owner # NoOwner => /\ owner.index \in DOMAIN wireMessages
                       /\ wireMessages[owner.index].id = owner.id

ReadyStarted(t) ==
    \A p \in DOMAIN t.order :
        live /\ ~t.order[p].ended /\ t.order[p].name # NoName /\ t.order[p].id # NoID
            => t.order[p].started

StartedInv(earlier) == StartsUnder(em, Allowed(earlier)) /\ OwnerListed /\ ReadyStarted(calls)

LEMMA EmitUnder ==
    ASSUME NEW e, EmitterInv(e), NEW frame, NEW starts, StartsUnder(e, starts),
           frame.type # "TOOL_CALL_START" \/ frame \in starts
    PROVE  StartsUnder(Emit(e, frame), starts)
<1>1. e.wire \in Seq(Frames) /\ e \in EmitterType
  BY DEF EmitterInv, EmitterType
<1>2. Emit(e, frame).wire \in {e.wire, Append(e.wire, frame)}
  BY <1>1 DEF Emit, EmitterType
<1>3. \A k \in DOMAIN Append(e.wire, frame) :
        Append(e.wire, frame)[k] = IF k \in DOMAIN e.wire THEN e.wire[k] ELSE frame
  BY <1>1
<1> QED
  BY <1>2, <1>3 DEF StartsUnder

(* Only ToolStart starts a call. *)
LEMMA BlocksUnder ==
    ASSUME NEW e, EmitterInv(e), NEW id \in Nat, NEW delta \in Delta, NEW starts,
           StartsUnder(e, starts)
    PROVE  /\ StartsUnder(TextStart(e, id), starts)
           /\ StartsUnder(TextContent(e, id, delta), starts)
           /\ StartsUnder(TextEnd(e, id), starts)
           /\ StartsUnder(ReasoningStart(e, id), starts)
           /\ StartsUnder(ReasoningMessageStart(e, id), starts)
           /\ StartsUnder(ReasoningContent(e, id, delta), starts)
           /\ StartsUnder(ReasoningMessageEnd(e, id), starts)
           /\ StartsUnder(ReasoningEnd(e, id), starts)
<1>1. \A type \in BlockTypes : \A d : StartsUnder(Emit(e, BlockFrame(type, id, d)), starts)
  BY EmitUnder DEF BlockFrame, BlockTypes
<1>2. \A f : StartsUnder(f, starts) =>
        /\ StartsUnder([f EXCEPT !.openTextID = id], starts)
        /\ StartsUnder([f EXCEPT !.openReasoningID = id], starts)
        /\ StartsUnder([f EXCEPT !.openReasoningMessageID = id], starts)
        /\ StartsUnder([f EXCEPT !.openTextID = NoMessage], starts)
        /\ StartsUnder([f EXCEPT !.openReasoningID = NoMessage], starts)
        /\ StartsUnder([f EXCEPT !.openReasoningMessageID = NoMessage], starts)
  BY DEF StartsUnder
<1>3. /\ StartsUnder(TextStart(e, id), starts)
      /\ StartsUnder(ReasoningStart(e, id), starts)
      /\ StartsUnder(ReasoningMessageStart(e, id), starts)
  BY <1>1, <1>2 DEF TextStart, ReasoningStart, ReasoningMessageStart, BlockTypes
<1>4. /\ StartsUnder(TextEnd(e, id), starts)
      /\ StartsUnder(ReasoningMessageEnd(e, id), starts)
      /\ StartsUnder(ReasoningEnd(e, id), starts)
  BY <1>1, <1>2 DEF TextEnd, ReasoningMessageEnd, ReasoningEnd, BlockTypes
<1> QED
  BY <1>1, <1>3, <1>4 DEF TextContent, ReasoningContent, BlockTypes

LEMMA ClosedUnder ==
    ASSUME NEW e, EmitterInv(e), NEW starts, StartsUnder(e, starts)
    PROVE  StartsUnder(CloseOpenBlocks(e), starts)
<1>1. ASSUME NEW f, EmitterInv(f), StartsUnder(f, starts)
      PROVE  /\ StartsUnder(CloseOpenText(f), starts)
             /\ StartsUnder(CloseOpenReasoningMessage(f), starts)
             /\ StartsUnder(CloseOpenReasoning(f), starts)
  <2>1. /\ EmitterInv([f EXCEPT !.openTextID = NoMessage])
        /\ EmitterInv([f EXCEPT !.openReasoningID = NoMessage])
        /\ EmitterInv([f EXCEPT !.openReasoningMessageID = NoMessage])
    BY <1>1, BlockFieldsAreFree, NoDeltaType
  <2>2. /\ StartsUnder([f EXCEPT !.openTextID = NoMessage], starts)
        /\ StartsUnder([f EXCEPT !.openReasoningID = NoMessage], starts)
        /\ StartsUnder([f EXCEPT !.openReasoningMessageID = NoMessage], starts)
    BY <1>1 DEF StartsUnder, EmitterInv, EmitterType
  <2>3. \A id : /\ BlockFrame("TEXT_END", id, NoDelta).type # "TOOL_CALL_START"
                /\ BlockFrame("REASONING_END", id, NoDelta).type # "TOOL_CALL_START"
                /\ BlockFrame("REASONING_MESSAGE_END", id, NoDelta).type # "TOOL_CALL_START"
    BY DEF BlockFrame
  <2> QED
    BY <1>1, <2>1, <2>2, <2>3, EmitUnder
       DEF CloseOpenText, CloseOpenReasoningMessage, CloseOpenReasoning
<1>2. EmitterInv(CloseOpenText(e)) /\ EmitterInv(CloseOpenReasoningMessage(CloseOpenText(e)))
  BY CloseOneKind
<1> QED
  BY <1>1, <1>2 DEF CloseOpenBlocks

LEMMA ToolsUnder ==
    ASSUME NEW e, EmitterInv(e), NEW id \in ToolID, NEW name \in Name, NEW parent \in Nat,
           NEW delta \in Delta, NEW starts, StartsUnder(e, starts)
    PROVE  /\ ToolStartFrame(id, name, parent) \in starts =>
                  StartsUnder(ToolStart(e, id, name, parent), starts)
           /\ StartsUnder(ToolArgs(e, id, delta), starts)
           /\ StartsUnder(ToolEnd(e, id), starts)
<1> DEFINE closed == CloseOpenBlocks(e)
<1>1. EmitterInv(closed) /\ StartsUnder(closed, starts)
  BY CloseKeepsInv, ClosedUnder
<1> HIDE DEF closed
<1>2. \A f, S : StartsUnder(f, starts) => /\ StartsUnder([f EXCEPT !.startedToolCalls = S], starts)
                                          /\ StartsUnder([f EXCEPT !.endedToolCalls = S], starts)
  BY DEF StartsUnder
<1>3. ASSUME ToolStartFrame(id, name, parent) \in starts
      PROVE  StartsUnder(ToolStart(e, id, name, parent), starts)
  <2>1. StartsUnder(Emit(closed, ToolStartFrame(id, name, parent)), starts)
    BY <1>1, <1>3, EmitUnder
  <2> QED
    BY <1>1, <1>2, <2>1 DEF ToolStart, closed
<1>4. /\ StartsUnder(Emit(closed, CallFrame("TOOL_CALL_ARGS", id, delta)), starts)
      /\ StartsUnder(Emit(closed, CallFrame("TOOL_CALL_END", id, NoDelta)), starts)
  BY <1>1, EmitUnder DEF CallFrame
<1>5. StartsUnder(ToolArgs(e, id, delta), starts)
  BY <1>4 DEF ToolArgs, closed
<1>6. StartsUnder(ToolEnd(e, id), starts)
  BY <1>2, <1>4 DEF ToolEnd, closed
<1> QED
  BY <1>3, <1>5, <1>6

LEMMA EndsUnder ==
    ASSUME NEW e, EmitterInv(e), text \in Block, reasoning \in Block, NEW starts,
           StartsUnder(e, starts)
    PROVE  StartsUnder(EndText(e), starts) /\ StartsUnder(EndReasoning(e), starts)
<1>1. text.id \in Nat /\ reasoning.id \in Nat
  BY DEF Block
<1> DEFINE m == ReasoningMessageEnd(e, reasoning.id)
<1>2. StartsUnder(TextEnd(e, text.id), starts) /\ StartsUnder(m, starts) /\ EmitterInv(m)
  BY <1>1, BlocksUnder, BlockHelpers, NoDeltaType
<1>3. StartsUnder(ReasoningEnd(m, reasoning.id), starts)
  BY <1>1, <1>2, BlocksUnder, NoDeltaType
<1> QED
  BY <1>2, <1>3 DEF EndText, EndReasoning

-----------------------------------------------------------------------------
(* The owner keeps its place and its id while the transcript grows. *)
Extends(messages) ==
    /\ messages \in Seq(Message) /\ Len(messages) >= Len(wireMessages)
    /\ \A i \in 1..Len(wireMessages) : messages[i] = wireMessages[i]

LEMMA CallessMessages == Seq(Callless) \subseteq Seq(Message)
<1>1. <<>> \in Seq(MergedCall)
  OBVIOUS
<1>2. Callless \subseteq Message
  BY <1>1 DEF Callless, Message
<1> QED
  BY <1>2

LEMMA TranscriptExtends ==
    ASSUME TurnInv, pc # "done", NEW e, NEW f
    PROVE  /\ Extends(wireMessages) /\ Extends(WithText(e, wireMessages))
           /\ Extends(WithReasoning(e, wireMessages))
           /\ Extends(WithText(f, WithReasoning(e, wireMessages)))
<1>1. wireMessages \in Seq(Callless) /\ text \in Block /\ reasoning \in Block
  BY DEF TurnInv, TranscriptInv, BlocksInv
<1>2. wireMessages \in Seq(Message)
  BY <1>1, CallessMessages
<1>3. /\ Plain(text.id, "assistant", text.content) \in Message
      /\ Plain(reasoning.id, "reasoning", reasoning.content) \in Message
  BY <1>1 DEF Plain, Block, Message, Roles
<1>4. Extends(wireMessages)
  BY <1>2 DEF Extends
<1>5. ASSUME NEW s, Extends(s), NEW m \in Message
      PROVE  Extends(Append(s, m))
  BY <1>2, <1>5 DEF Extends
<1> QED
  BY <1>3, <1>4, <1>5 DEF WithText, WithReasoning

LEMMA OwnerStays ==
    ASSUME TurnInv, pc # "done", OwnerListed, Extends(wireMessages'), UNCHANGED owner
    PROVE  OwnerListed'
<1>1. wireMessages \in Seq(Callless)
  BY DEF TurnInv, TranscriptInv
<1> QED
  BY <1>1 DEF OwnerListed, Extends

-----------------------------------------------------------------------------
LEMMA StartedInit == Init => \A earlier : StartedInv(earlier)
<1> SUFFICES ASSUME NEW earlier, Init PROVE StartedInv(earlier)
  OBVIOUS
<1>1. em.wire = <<>> /\ owner = NoOwner /\ calls.order = <<>>
  BY DEF Init, NewEmitter, NoCalls
<1> QED
  BY <1>1 DEF StartedInv, StartsUnder, OwnerListed, ReadyStarted

(* The steps that leave emitter, owner, transcript and tables alone. *)
LEMMA QuietStarted ==
    ASSUME NEW earlier, TurnInv, StartedInv(earlier), Quiet
    PROVE  StartedInv(earlier)'
<1>1. UNCHANGED <<em, wireMessages, owner, calls, live>>
  BY DEF Quiet, Cancel, OpenStream, CheckRequest, Recv, RecvEOF, RecvError, RecvChunk,
         RecvKeepAlive, CallsEnded, SkipFragment, FragmentDone, ChunkDone, request, blocks
<1> QED
  BY <1>1 DEF StartedInv, StartsUnder, Allowed, OwnerListed, ReadyStarted

LEMMA EndCallStarted ==
    ASSUME NEW earlier, TurnInv, StartedInv(earlier), EndCall
    PROVE  StartedInv(earlier)'
<1> DEFINE b == calls.order[cursor]
<1>1. calls \in CallTables /\ calls.order \in Seq(Buffers) /\ EmitterInv(em)
  BY DEF TurnInv, CallsInv, TablesOK, CallTables, EmitterOK
<1>2. cursor \in 1..Len(calls.order)
  BY <1>1 DEF EndCall, AllEnded, TurnInv, ControlInv
<1>3. b \in Buffers
  BY <1>1, <1>2
<1>4. b.id \in ToolID
  BY <1>3 DEF Buffers
<1>5. StartsUnder(em', Allowed(earlier))
  BY <1>1, <1>4, ToolsUnder, NoDeltaType DEF EndCall, StartedInv, Name
<1>6. ReadyStarted(calls')
  <2>1. /\ DOMAIN calls'.order = DOMAIN calls.order
        /\ \A p \in DOMAIN calls.order :
              calls'.order[p] = IF p = cursor THEN [b EXCEPT !.ended = TRUE] ELSE calls.order[p]
    BY <1>1, <1>2 DEF EndCall, CallTables
  <2>2. [b EXCEPT !.ended = TRUE].ended
    BY <1>3 DEF Buffers
  <2> HIDE DEF b
  <2> QED
    BY <2>1, <2>2 DEF ReadyStarted, StartedInv
<1>7. UNCHANGED <<live, owner, wireMessages>>
  BY DEF EndCall, request, blocks
<1> QED
  BY <1>5, <1>6, <1>7 DEF StartedInv, Allowed, OwnerListed, ReadyStarted

(* A buffer made for a fragment has no id yet. *)
LEMMA MadeBuffer ==
    ASSUME NEW t \in CallTables, ReadyStarted(t), NEW f
    PROVE  ReadyStarted(WithBuffer(t, f))
<1> DEFINE new == NewBuffer(f.index)
<1>1. t.order \in Seq(Buffers) /\ Len(t.order) \in Nat
  BY DEF CallTables
<1>2. new.id = NoID
  BY DEF NewBuffer
<1> HIDE DEF new
<1>3. WithBuffer(t, f).order \in {t.order, Append(t.order, new)}
  BY DEF WithBuffer, CallTables, new
<1>4. /\ DOMAIN Append(t.order, new) = 1..(Len(t.order) + 1) /\ DOMAIN t.order = 1..Len(t.order)
      /\ \A p \in 1..(Len(t.order) + 1) :
            Append(t.order, new)[p] = IF p = Len(t.order) + 1 THEN new ELSE t.order[p]
  BY <1>1
<1> QED
  BY <1>1, <1>2, <1>3, <1>4, SMTT(30) DEF ReadyStarted

LEMMA RefuseStarted ==
    ASSUME NEW earlier, TurnInv, StartedInv(earlier), RefuseFragment
    PROVE  StartedInv(earlier)'
<1>1. calls \in CallTables /\ calls' = WithBuffer(calls, call)
  BY DEF RefuseFragment, TurnInv, CallsInv, TablesOK
<1>2. ReadyStarted(calls')
  BY <1>1, MadeBuffer DEF StartedInv
<1>3. UNCHANGED <<em, live, owner, wireMessages>>
  BY DEF RefuseFragment, request, blocks
<1> QED
  BY <1>2, <1>3 DEF StartedInv, Allowed, OwnerListed, ReadyStarted, StartsUnder

LEMMA FlushStarted ==
    ASSUME NEW earlier, TurnInv, StartedInv(earlier), FlushArg
    PROVE  StartedInv(earlier)'
<1> DEFINE pos == Known(calls, call)
           b   == calls.order[pos]
           c   == [b EXCEPT !.pendingArgs = Tail(@)]
<1>1. /\ TablesOK(calls) /\ calls \in CallTables /\ calls.order \in Seq(Buffers)
      /\ EmitterInv(em) /\ call \in Fragments /\ Correlatable(call) /\ pos # 0
  BY CallFacts DEF FlushArg, TurnInv, CallsInv, TablesOK, CallTables, EmitterOK, ControlInv
<1>2. pos \in 1..Len(calls.order)
  BY <1>1, KnownType
<1>3. b \in Buffers /\ b.pendingArgs # <<>> /\ b.started
  BY <1>1, <1>2 DEF FlushArg, Flushing
<1>4. b.id \in ToolID /\ Head(b.pendingArgs) \in Delta
  <2>1. b.pendingArgs \in Seq(Tokens)
    BY <1>3 DEF Buffers
  <2> QED
    BY <1>3, <2>1 DEF Buffers, Delta
<1>5. StartsUnder(em', Allowed(earlier))
  BY <1>1, <1>4, ToolsUnder DEF FlushArg, StartedInv, Name
<1>6. ReadyStarted(calls')
  <2>1. /\ DOMAIN calls'.order = DOMAIN calls.order
        /\ \A p \in DOMAIN calls.order :
              calls'.order[p] = IF p = pos THEN c ELSE calls.order[p]
    BY <1>1, <1>2 DEF FlushArg, CallTables
  <2>2. c.started
    BY <1>3 DEF Buffers
  <2> HIDE DEF c, pos
  <2> QED
    BY <2>1, <2>2 DEF ReadyStarted, StartedInv
<1>7. UNCHANGED <<live, owner, wireMessages>>
  BY DEF FlushArg, request, blocks
<1> QED
  BY <1>5, <1>6, <1>7 DEF StartedInv, Allowed, OwnerListed, ReadyStarted

LEMMA AcceptStarted ==
    ASSUME NEW earlier, TurnInv, StartedInv(earlier), AcceptFragment
    PROVE  StartedInv(earlier)'
<1> DEFINE found  == WithBuffer(calls, call)
           pos    == Known(found, call)
           delta  == IF call.args THEN piece(cursor) ELSE NoDelta
           before == found.order[pos]
           merged == Merge(before, call, delta)
           talks  == live /\ ~before.ended
           starts == talks /\ Ready(merged)
           sends  == talks /\ merged.started
           buffer == IF talks /\ ~merged.started THEN Postpone(merged, delta) ELSE merged
           stored == [buffer EXCEPT !.started = @ \/ starts]
<1>1. /\ TablesOK(calls) /\ IDsClaimed(calls) /\ calls \in CallTables
      /\ EmitterInv(em) /\ live \in BOOLEAN
      /\ call \in Fragments /\ Correlatable(call) /\ piece(cursor) \in Tokens
      /\ owner.id \in Nat /\ owner # NoOwner
  BY CallFacts DEF AcceptFragment, TurnInv, CallsInv, TablesOK, EmitterOK, ControlInv, TranscriptInv
<1>2. TablesOK(found) /\ pos \in 1..Len(found.order) /\ found.order \in Seq(Buffers)
      /\ found \in CallTables
  BY <1>1, FoundBuffer DEF TablesOK, CallTables
<1>3. before \in Buffers
  BY <1>2
<1>4. delta \in Tokens \cup {NoDelta} /\ call.id \in ToolID /\ call.name \in Name
  BY <1>1 DEF Fragments
<1>5. ReadyStarted(found)
  BY <1>1, MadeBuffer DEF StartedInv
<1> HIDE DEF before, delta, found
<1>6. merged \in Buffers /\ merged.ended = before.ended
  <2>1. Join(before.arguments, delta) \in Seq(Tokens)
    BY <1>3, <1>4 DEF Join, Buffers
  <2> QED
    BY <1>3, <1>4, <2>1 DEF Merge, Buffers
<1> HIDE DEF merged
<1>7. /\ buffer \in Buffers /\ buffer.id = merged.id /\ buffer.ended = merged.ended
      /\ buffer.name = merged.name /\ buffer.started = merged.started
  BY <1>4, <1>6, SMTT(30) DEF Postpone, Join, Buffers
<1>8. starts \in BOOLEAN
  BY <1>1, <1>3, <1>6 DEF Ready, Buffers
<1> HIDE DEF buffer
<1>9. live /\ ~stored.ended /\ stored.name # NoName /\ stored.id # NoID => stored.started
  BY <1>6, <1>7, <1>8 DEF Ready, Buffers
<1>10. calls' = [Claim(found, call) EXCEPT !.order[pos] = stored]
  BY DEF AcceptFragment, buffer, merged, before, delta, found
<1> HIDE DEF stored, starts
<1>11. ReadyStarted(calls')
  <2>1. /\ Claim(found, call).order = found.order
        /\ DOMAIN Claim(found, call) = DOMAIN found
    BY <1>2 DEF Claim, CallTables
  <2>2. calls'.order = [found.order EXCEPT ![pos] = stored]
    BY <1>2, <1>10, <2>1 DEF CallTables
  <2>3. /\ DOMAIN calls'.order = DOMAIN found.order
        /\ \A p \in DOMAIN found.order :
              calls'.order[p] = IF p = pos THEN stored ELSE found.order[p]
    BY <1>2, <2>2
  <2> QED
    BY <1>5, <1>9, <2>3 DEF ReadyStarted
<1>12. StartsUnder(em', Allowed(earlier))
  <2>1. em' \in {ToolArgs(em, merged.id, delta), ToolStart(em, merged.id, merged.name, owner.id), em}
    BY DEF AcceptFragment, starts, merged, before, delta, found
  <2>2. merged.id \in ToolID /\ merged.name \in Name /\ delta \in Delta
    BY <1>4, <1>6 DEF Buffers, Delta
  <2>3. ToolStartFrame(merged.id, merged.name, owner.id) \in Allowed(earlier)
    <3>1. ToolStartFrame(merged.id, merged.name, owner.id) \in Frames
      BY <1>1, <2>2, ToolFramesAreFrames
    <3> QED
      BY <1>1, <3>1 DEF Allowed, ToolStartFrame
  <2>4. StartsUnder(em, Allowed(earlier))
    BY DEF StartedInv
  <2> QED
    BY <1>1, <2>1, <2>2, <2>3, <2>4, ToolsUnder
<1>13. UNCHANGED <<live, owner, wireMessages>>
  BY DEF AcceptFragment, request, blocks
<1> QED
  BY <1>11, <1>12, <1>13 DEF StartedInv, Allowed, OwnerListed, ReadyStarted

LEMMA ReasoningStarted ==
    ASSUME NEW earlier, TurnInv, StartedInv(earlier), ApplyReasoning
    PROVE  StartedInv(earlier)'
<1> DEFINE closed == EndText(em)
           id     == IF reasoning.open THEN reasoning.id ELSE nextID
           begun  == ReasoningStart(closed, id)
           opened == IF reasoning.open THEN closed ELSE ReasoningMessageStart(begun, id)
<1>1. /\ EmitterInv(em) /\ text \in Block /\ reasoning \in Block /\ id \in Nat
      /\ pc # "done" /\ piece(0) \in Delta /\ StartsUnder(em, Allowed(earlier))
  BY ChunkFacts DEF ApplyReasoning, TurnInv, EmitterOK, BlocksInv, Block, InChunk, StartedInv
<1>2. EmitterInv(closed) /\ StartsUnder(closed, Allowed(earlier))
  BY <1>1, LaterEnds, EndsUnder DEF Later
<1> HIDE DEF closed, id
<1>3. EmitterInv(begun) /\ StartsUnder(begun, Allowed(earlier))
  BY <1>1, <1>2, BlockHelpers, BlocksUnder, NoDeltaType
<1> HIDE DEF begun
<1>4. EmitterInv(opened) /\ StartsUnder(opened, Allowed(earlier))
  BY <1>1, <1>2, <1>3, BlockHelpers, BlocksUnder, NoDeltaType
<1> HIDE DEF opened
<1>5. em' = ReasoningContent(opened, id, piece(0))
  BY DEF ApplyReasoning, opened, begun, closed, id
<1>6. StartsUnder(em', Allowed(earlier))
  BY <1>1, <1>4, <1>5, BlocksUnder
<1>7. Extends(wireMessages')
  BY <1>1, TranscriptExtends DEF ApplyReasoning
<1>8. UNCHANGED <<live, owner, calls>>
  BY DEF ApplyReasoning, request
<1>9. OwnerListed'
  BY <1>1, <1>7, <1>8, OwnerStays DEF StartedInv
<1> QED
  BY <1>6, <1>8, <1>9 DEF StartedInv, Allowed, ReadyStarted

LEMMA TextStarted ==
    ASSUME NEW earlier, TurnInv, StartedInv(earlier), ApplyText
    PROVE  StartedInv(earlier)'
<1> DEFINE closed == EndReasoning(em)
           id     == IF text.open THEN text.id ELSE nextID
           opened == IF text.open THEN closed ELSE TextStart(closed, id)
<1>1. /\ EmitterInv(em) /\ text \in Block /\ reasoning \in Block /\ id \in Nat
      /\ pc # "done" /\ piece(0) \in Delta /\ StartsUnder(em, Allowed(earlier))
  BY ChunkFacts DEF ApplyText, TurnInv, EmitterOK, BlocksInv, Block, InChunk, StartedInv
<1>2. EmitterInv(closed) /\ StartsUnder(closed, Allowed(earlier))
  BY <1>1, LaterEnds, EndsUnder DEF Later
<1> HIDE DEF closed, id
<1>3. EmitterInv(opened) /\ StartsUnder(opened, Allowed(earlier))
  BY <1>1, <1>2, BlockHelpers, BlocksUnder, NoDeltaType
<1> HIDE DEF opened
<1>4. em' = TextContent(opened, id, piece(0))
  BY DEF ApplyText, opened, closed, id
<1>5. StartsUnder(em', Allowed(earlier))
  BY <1>1, <1>3, <1>4, BlocksUnder
<1>6. Extends(wireMessages')
  BY <1>1, TranscriptExtends DEF ApplyText
<1>7. UNCHANGED <<live, owner, calls>>
  BY DEF ApplyText, request
<1>8. OwnerListed'
  BY <1>1, <1>6, <1>7, OwnerStays DEF StartedInv
<1> QED
  BY <1>5, <1>7, <1>8 DEF StartedInv, Allowed, ReadyStarted

(* The owner is listed at once; no call was started before.                 *)
LEMMA OwnerStarted ==
    ASSUME NEW earlier, TurnInv, StartedInv(earlier), EnsureToolOwner
    PROVE  StartedInv(earlier)'
<1> DEFINE known    == Allowed(earlier)
           quiet    == EndReasoning(em)
           closed   == EndText(quiet)
           messages == WithText(closed, WithReasoning(quiet, wireMessages))
           failed   == (reasoning.open /\ quiet.err) \/ (text.open /\ closed.err)
<1>1. /\ EmitterInv(em) /\ text \in Block /\ reasoning \in Block /\ nextID \in Nat
      /\ pc # "done" /\ owner = NoOwner /\ StartsUnder(em, known)
  BY DEF EnsureToolOwner, InTools, TurnInv, EmitterOK, BlocksInv, StartedInv, Allowed
<1>2. EmitterInv(quiet) /\ StartsUnder(quiet, known)
  BY <1>1, LaterEnds, EndsUnder DEF Later
<1> HIDE DEF quiet
<1>3. EmitterInv(closed) /\ StartsUnder(closed, known)
  BY <1>1, <1>2, LaterEnds, EndsUnder DEF Later
<1>4. em' \in {quiet, closed} /\ UNCHANGED <<live, calls>>
  BY DEF EnsureToolOwner, request, quiet
<1>5. StartsUnder(em', Allowed(earlier)')
  <2>1. known \subseteq Allowed(earlier)'
    BY <1>1 DEF Allowed
  <2> QED
    BY <1>2, <1>3, <1>4, <2>1 DEF StartsUnder
<1>6. Extends(messages)
  BY <1>1, TranscriptExtends DEF quiet
<1>7. OwnerListed'
  <2>1. CASE failed
    <3>1. owner' = NoOwner
      BY <1>1, <2>1 DEF EnsureToolOwner, quiet
    <3> QED
      BY <3>1 DEF OwnerListed
  <2>2. CASE ~failed
    <3>1. /\ owner' = [id |-> nextID, index |-> Len(messages) + 1]
          /\ wireMessages' = Append(messages, Plain(nextID, "assistant", <<>>))
      BY <2>2 DEF EnsureToolOwner, quiet
    <3>2. messages \in Seq(Message)
      BY <1>6 DEF Extends
    <3> HIDE DEF messages
    <3>3. /\ Len(messages) + 1 \in DOMAIN wireMessages'
          /\ wireMessages'[Len(messages) + 1] = Plain(nextID, "assistant", <<>>)
      BY <3>1, <3>2
    <3> QED
      BY <3>1, <3>3 DEF OwnerListed, Plain
  <2> QED
    BY <2>1, <2>2
<1> QED
  BY <1>4, <1>5, <1>7 DEF StartedInv, ReadyStarted

LEMMA CloseStarted ==
    ASSUME NEW earlier, TurnInv, StartedInv(earlier), CloseBlocks
    PROVE  StartedInv(earlier)'
<1> DEFINE quiet == EndReasoning(em)
<1>1. /\ EmitterInv(em) /\ text \in Block /\ reasoning \in Block
      /\ pc # "done" /\ StartsUnder(em, Allowed(earlier))
  BY DEF CloseBlocks, TurnInv, EmitterOK, BlocksInv, StartedInv
<1>2. EmitterInv(quiet) /\ StartsUnder(quiet, Allowed(earlier))
  BY <1>1, LaterEnds, EndsUnder DEF Later
<1> HIDE DEF quiet
<1>3. StartsUnder(EndText(quiet), Allowed(earlier)) /\ em' = EndText(quiet)
  BY <1>1, <1>2, EndsUnder DEF CloseBlocks, quiet
<1>4. Extends(wireMessages')
  BY <1>1, TranscriptExtends DEF CloseBlocks
<1>5. UNCHANGED <<live, owner, calls>>
  BY DEF CloseBlocks, request
<1>6. OwnerListed'
  BY <1>1, <1>4, <1>5, OwnerStays DEF StartedInv
<1> QED
  BY <1>3, <1>5, <1>6 DEF StartedInv, Allowed, ReadyStarted

LEMMA ReturnStarted ==
    ASSUME NEW earlier, TurnInv, StartedInv(earlier), OpenFails \/ ConcludeEmpty \/ Conclude
    PROVE  StartedInv(earlier)'
<1>1. UNCHANGED <<em, live, owner, calls>>
  BY DEF OpenFails, ConcludeEmpty, Conclude, request, blocks
<1>2. wireMessages \in Seq(Callless)
  BY DEF OpenFails, ConcludeEmpty, Conclude, TurnInv, TranscriptInv
<1>3. \/ wireMessages' = wireMessages
      \/ owner # NoOwner /\ \E merged : wireMessages' = Attach(merged)
  BY DEF OpenFails, ConcludeEmpty, Conclude, blocks
<1>4. OwnerListed'
  <2>1. CASE wireMessages' = wireMessages
    BY <1>1, <2>1 DEF StartedInv, OwnerListed
  <2>2. CASE owner # NoOwner /\ \E merged : wireMessages' = Attach(merged)
    <3>1. PICK merged : wireMessages' = Attach(merged)
      BY <2>2
    <3>2. owner.index \in DOMAIN wireMessages /\ wireMessages[owner.index].id = owner.id
      BY <2>2 DEF StartedInv, OwnerListed
    <3>3. DOMAIN wireMessages' = DOMAIN wireMessages
      BY <3>1 DEF Attach
    <3>4. wireMessages'[owner.index]
            = [wireMessages[owner.index] EXCEPT !.calls = ToAGUIToolCalls(merged)]
      BY <3>1, <3>2 DEF Attach
    <3>5. wireMessages[owner.index] \in Callless
      BY <1>2, <3>2
    <3>6. wireMessages'[owner.index].id = wireMessages[owner.index].id
      BY <3>4, <3>5 DEF Callless
    <3> QED
      BY <1>1, <3>2, <3>3, <3>6 DEF OwnerListed
  <2> QED
    BY <1>3, <2>1, <2>2
<1> QED
  BY <1>1, <1>4 DEF StartedInv, Allowed, ReadyStarted

LEMMA StartedNext ==
    ASSUME NEW earlier, TurnInv, StartedInv(earlier), [Next]_vars
    PROVE  StartedInv(earlier)'
<1>1. CASE UNCHANGED vars \/ Returned
  BY <1>1 DEF Returned, vars, StartedInv, StartsUnder, Allowed, OwnerListed, ReadyStarted
<1>2. CASE Quiet
  BY <1>2, QuietStarted
<1>3. CASE EndCall
  BY <1>3, EndCallStarted
<1>4. CASE ApplyReasoning
  BY <1>4, ReasoningStarted
<1>5. CASE ApplyText
  BY <1>5, TextStarted
<1>6. CASE EnsureToolOwner
  BY <1>6, OwnerStarted
<1>7. CASE RefuseFragment
  BY <1>7, RefuseStarted
<1>8. CASE AcceptFragment
  BY <1>8, AcceptStarted
<1>9. CASE FlushArg
  BY <1>9, FlushStarted
<1>10. CASE CloseBlocks
  BY <1>10, CloseStarted
<1>11. CASE OpenFails \/ ConcludeEmpty \/ Conclude
  BY <1>11, ReturnStarted
<1> QED
  BY <1>1, <1>2, <1>3, <1>4, <1>5, <1>6, <1>7, <1>8, <1>9, <1>10, <1>11
     DEF Next, TurnStep, Apply, Finish, Quiet

(* A live call is started once its id and name are known (startIfReady),    *)
(* and every START names as its parent the message the result calls the     *)
(* owner of the turn's calls, listed where toolOwnerIndex says.             *)
THEOREM CallsStartUnderOwner == Spec => []StartedUnderOwner
<1>1. TurnInv /\ StartedInv({}) => StartedUnderOwner
  BY DEF StartedInv, StartsUnder, Allowed, OwnerListed, ReadyStarted, StartedUnderOwner, buffers, wire
<1>2. Init => StartedInv({})
  BY StartedInit
<1>3. TurnInv /\ StartedInv({}) /\ [Next]_vars => StartedInv({})'
  BY StartedNext
<1> QED
  BY <1>1, <1>2, <1>3, TurnInvariant, PTL DEF Spec

-----------------------------------------------------------------------------
(* The emitter's promises hold inside a turn: on the turn's wire each call  *)
(* has one lifecycle, the emitter remembers what was written, and a lost    *)
(* client cancels the request once.                                         *)
THEOREM TurnKeepsLifecycles ==
    Spec => [](OneLifecycle(wire) /\ RemembersCalls(em) /\ CancelsOnce(em))
<1>1. TurnInv => OneLifecycle(wire) /\ RemembersCalls(em) /\ CancelsOnce(em)
  BY DEF TurnInv, EmitterOK, EmitterInv, wire
<1> QED
  BY <1>1, TurnInvariant, PTL

-----------------------------------------------------------------------------
(***************************************************************************)
(* Types.  What TurnInv leaves open is what a turn returns: the calls of   *)
(* the response, and the ones the owner gets of them.                      *)
(***************************************************************************)
Results == [returned : BOOLEAN, assistant : BOOLEAN, calls : Seq(MergedCall), partial : BOOLEAN]

TypesReturned ==
    /\ ctxDone \in BOOLEAN /\ primary \in Errors
    /\ wireMessages \in Seq(Message)
    /\ result \in Results

LEMMA MergedType ==
    ASSUME NEW order \in Seq(Buffers)
    PROVE  /\ MergedToolCalls(order) \in Seq(MergedCall)
           /\ ToAGUIToolCalls(MergedToolCalls(order)) \in Seq(MergedCall)
           /\ ToAGUIToolCalls(<<>>) \in Seq(MergedCall)
<1>1. \A i \in 1..Len(order) :
        [id |-> order[i].id, name |-> order[i].name, arguments |-> order[i].arguments] \in MergedCall
  <2>1. \A b \in Buffers : [id |-> b.id, name |-> b.name, arguments |-> b.arguments] \in MergedCall
    BY DEF Buffers, MergedCall
  <2>2. \A i \in 1..Len(order) : order[i] \in Buffers
    OBVIOUS
  <2> QED
    BY <2>1, <2>2
<1>2. MergedToolCalls(order) \in Seq(MergedCall)
  BY <1>1 DEF MergedToolCalls
<1>3. <<>> \in Seq(MergedCall)
  OBVIOUS
<1> QED
  BY <1>2, <1>3, SelectedElements DEF ToAGUIToolCalls

LEMMA TypesInit == Init => TypesReturned
<1>1. /\ FALSE \in BOOLEAN /\ <<>> \in Seq(MergedCall) /\ "none" \in Errors /\ <<>> \in Seq(Message)
  BY DEF Errors
<1>2. NotReturned \in Results
  BY <1>1 DEF Results, NotReturned
<1> QED
  BY <1>1, <1>2 DEF Init, TypesReturned

LEMMA AttachedType ==
    ASSUME wireMessages \in Seq(Message), NEW i \in DOMAIN wireMessages, NEW s \in Seq(MergedCall)
    PROVE  [wireMessages EXCEPT ![i].calls = s] \in Seq(Message)
<1> DEFINE m == [wireMessages[i] EXCEPT !.calls = s]
<1>1. wireMessages[i] \in Message
  OBVIOUS
<1>2. m \in Message
  BY <1>1 DEF Message
<1>3. [wireMessages EXCEPT ![i].calls = s] = [wireMessages EXCEPT ![i] = m]
  OBVIOUS
<1> HIDE DEF m
<1> QED
  BY <1>2, <1>3

LEMMA ConcludeTypes ==
    ASSUME TurnInv, TypesReturned, Conclude
    PROVE  TypesReturned'
<1>1. PICK concat \in BOOLEAN :
        /\ primary' = IF ~concat /\ primary = "none" THEN "concat" ELSE primary
        /\ result' = [returned |-> TRUE, assistant |-> concat,
                      calls |-> ResponseCalls(concat), partial |-> primary' # "none"]
        /\ wireMessages' = IF primary' # "correlation" /\ concat /\ owner # NoOwner
                           THEN Attach(ResponseCalls(concat)) ELSE wireMessages
  BY DEF Conclude
<1>2. calls.order \in Seq(Buffers)
  BY DEF TurnInv, CallsInv, TablesOK, CallTables
<1>3. ctxDone' \in BOOLEAN /\ primary' \in Errors
  BY <1>1 DEF Conclude, TypesReturned, request, Errors
<1>4. ResponseCalls(concat) \in Seq(MergedCall) /\ ToAGUIToolCalls(ResponseCalls(concat)) \in Seq(MergedCall)
  BY <1>2, MergedType DEF ResponseCalls
<1>5. result' \in Results
  <2> DEFINE p == primary' # "none"
  <2>1. p \in BOOLEAN /\ TRUE \in BOOLEAN
    OBVIOUS
  <2>2. result' = [returned |-> TRUE, assistant |-> concat, calls |-> ResponseCalls(concat),
                   partial |-> p]
    BY <1>1
  <2> HIDE DEF p
  <2> QED
    BY <1>4, <2>1, <2>2 DEF Results
<1>6. wireMessages' \in Seq(Message)
  <2>1. CASE owner # NoOwner
    <3>1. pc # "done" /\ wireMessages \in Seq(Message)
      BY DEF Conclude, TypesReturned
    <3>2. owner.index \in DOMAIN wireMessages
      <4>1. owner.index \in Nat /\ owner.index # 0 /\ owner.index <= Len(wireMessages)
        BY <2>1, <3>1 DEF TurnInv, TranscriptInv
      <4> QED
        BY <3>1, <4>1
    <3>3. Attach(ResponseCalls(concat)) \in Seq(Message)
      BY <1>4, <3>1, <3>2, AttachedType DEF Attach
    <3> QED
      BY <1>1, <3>1, <3>3
  <2>2. CASE owner = NoOwner
    BY <1>1, <2>2 DEF TypesReturned
  <2> QED
    BY <2>1, <2>2
<1> QED
  BY <1>3, <1>5, <1>6 DEF TypesReturned

LEMMA TypesNext == TurnInv /\ TurnInv' /\ TypesReturned /\ [Next]_vars => TypesReturned'
<1> SUFFICES ASSUME TurnInv, TurnInv', TypesReturned, [Next]_vars
             PROVE  TypesReturned'
  OBVIOUS
<1>1. CASE Conclude
  BY <1>1, ConcludeTypes
<1>2. CASE ~Conclude
  <2>1. ctxDone' \in BOOLEAN
    BY DEF TypesReturned, Next, TurnStep, Recv, Apply, Finish, Cancel, OpenFails, OpenStream,
           CheckRequest, RecvEOF, RecvError, RecvChunk, RecvKeepAlive, EndCall, CallsEnded,
           ApplyReasoning, ApplyText, SkipFragment, EnsureToolOwner, RefuseFragment,
           AcceptFragment, FlushArg, FragmentDone, ChunkDone, CloseBlocks, ConcludeEmpty,
           Conclude, Returned, vars, request
  <2>2. primary' \in Errors
    BY DEF TypesReturned, Next, TurnStep, Recv, Apply, Finish, Cancel, OpenFails, OpenStream,
           CheckRequest, RecvEOF, RecvError, RecvChunk, RecvKeepAlive, EndCall, CallsEnded,
           ApplyReasoning, ApplyText, SkipFragment, EnsureToolOwner, RefuseFragment,
           AcceptFragment, FlushArg, FragmentDone, ChunkDone, CloseBlocks, ConcludeEmpty,
           Conclude, Returned, vars, Fail, StopReason, OrTransport, Errors
  <2>3. result' = result \/ ConcludeEmpty
    BY <1>2 DEF Next, TurnStep, Recv, Apply, Finish, Cancel, OpenFails, OpenStream,
           CheckRequest, RecvEOF, RecvError, RecvChunk, RecvKeepAlive, EndCall, CallsEnded,
           ApplyReasoning, ApplyText, SkipFragment, EnsureToolOwner, RefuseFragment,
           AcceptFragment, FlushArg, FragmentDone, ChunkDone, CloseBlocks, Returned, vars
  <2>4. ConcludeEmpty => result' \in Results
    <3>1. <<>> \in Seq(MergedCall)
      OBVIOUS
    <3> QED
      BY <3>1 DEF ConcludeEmpty, NotReturned, Results
  <2>5. CASE pc' # "done"
    <3>1. wireMessages' \in Seq(Message)
      BY <2>5, CallessMessages DEF TurnInv, TranscriptInv
    <3> QED
      BY <2>1, <2>2, <2>3, <2>4, <3>1 DEF TypesReturned
  <2>6. CASE pc' = "done"
    <3>1. ~ApplyReasoning /\ ~ApplyText /\ ~EnsureToolOwner /\ ~CloseBlocks
      BY <2>6, Zenon DEF ApplyReasoning, ApplyText, EnsureToolOwner, CloseBlocks, Fail, InTools
    <3>2. wireMessages' = wireMessages
      BY <1>2, <3>1 DEF Next, TurnStep, Recv, Apply, Finish, Cancel, OpenFails, OpenStream,
           CheckRequest, RecvEOF, RecvError, RecvChunk, RecvKeepAlive, EndCall, CallsEnded,
           SkipFragment, RefuseFragment, AcceptFragment, FlushArg, FragmentDone, ChunkDone,
           ConcludeEmpty, Returned, vars, blocks
    <3> QED
      BY <2>1, <2>2, <2>3, <2>4, <3>2 DEF TypesReturned
  <2> QED
    BY <2>5, <2>6
<1> QED
  BY <1>1, <1>2

(* Every variable of the turn keeps its type, whatever the provider sends   *)
(* and the client does: emitter, tool-call tables, open blocks, transcript, *)
(* usage and the Result (turnState).                                        *)
THEOREM TurnTypes == Spec => []TypeOK
<1>1. TurnInv /\ UsageInv /\ TypesReturned => TypeOK
  <2> SUFFICES ASSUME TurnInv, UsageInv, TypesReturned
               PROVE  TypeOK
    OBVIOUS
  <2>1. em \in EmitterType /\ late \in 0..MaxLate /\ live \in BOOLEAN
    BY DEF TurnInv, EmitterOK, EmitterInv, LateInv, MaxLate, ControlInv
  <2>2. usage \in Usages \cup {NoUsage}
    BY DEF UsageInv
  <2> QED
    BY <2>1, <2>2 DEF TypeOK, TurnInv, ControlInv, Places, BlocksInv, TranscriptInv, CallsInv,
                      TablesOK, TypesReturned, Results
<1>2. TurnInv /\ [Next]_vars => TurnInv'
  BY NextInv
<1> QED
  BY <1>1, <1>2, TurnInit, UsageInit, UsageNext, TypesInit, TypesNext, PTL DEF Spec
=============================================================================
