---------------------------- MODULE MCConversation ----------------------------
(* Histories of one and two messages, of every role and content the         *)
(* conversion tells apart; message k keeps what it shares at places <<k, _>>. *)
EXTENDS Conversation

CONSTANTS t, u, a, b, s1

Value(kind, k, i, holds) == [kind |-> kind, at |-> <<k, i>>, holds |-> holds]
Scalar == [kind |-> "scalar", at |-> <<>>, holds |-> <<>>]

Empty(k)  == Value("map", k, 1, <<>>)
Array(holds)  == [kind |-> "array", at |-> <<>>, holds |-> holds]
Struct(holds) == [kind |-> "struct", at |-> <<>>, holds |-> holds]

Nested(k) == Value("map", k, 1, <<Nil, Value("slice", k, 2, <<Value("map", k, 3, <<Scalar>>)>>),
                                  Value("pointer", k, 4, <<Scalar>>),
                                  Struct(<<Array(<<Value("map", k, 11, <<>>)>>)>>)>>)
Pointer(k, i) == Value("pointer", k, i, <<Scalar>>)

Blank(role) ==
    [id |-> 0, role |-> role, text |-> <<>>, parts |-> <<>>, calls |-> NoCallList,
     toolCallID |-> NoID, metadata |-> Nil, subagent |-> NoSubagent, secret |-> FALSE]

Part(type, text, source, kind, at) ==
    [type |-> type, text |-> text, source |-> source, kind |-> kind, at |-> at]
TextPart(text)        == Part("text", text, "none", "none", <<>>)
ImagePart(k, source, kind) == Part("image", <<>>, source, kind, <<k, 9>>)

PartLists(k) ==
    {<<TextPart(<<t>>), TextPart(<<>>), TextPart(<<u>>)>>,
     <<TextPart(<<t>>), ImagePart(k, "Source", "url")>>,
     <<ImagePart(k, "part", "data"), Part("audio", <<>>, "Source", "data", <<k, 8>>)>>,
     <<ImagePart(k, "Source", "unknown"), TextPart(<<t>>)>>,
     <<Part("image", <<>>, "none", "none", <<>>)>>}

CallLists(k) ==
    {CallList(<<k, 10>>, <<Call(NoID, Nested(k), Pointer(k, 5))>>),
     CallList(<<k, 10>>, <<Call(NoID, Nil, Nil), Call(a, Empty(k), Pointer(k, 5))>>),
     CallList(<<k, 10>>, <<Call(a, Nil, Nil), Call(b, Nested(k), Nil)>>)}

Contents(k) ==
    {[Blank(role) EXCEPT !.text = text] :
        role \in {"user", "system", "assistant", "reasoning"}, text \in {<<>>, <<t>>}}
    \cup {[Blank("user") EXCEPT !.parts = parts] : parts \in PartLists(k)}
    \cup {[Blank("developer") EXCEPT !.parts = <<TextPart(<<t>>), TextPart(<<u>>)>>]}
    \cup {[Blank("assistant") EXCEPT !.calls = calls] : calls \in CallLists(k)}
    \cup {[Blank("tool") EXCEPT !.text = <<u>>, !.toolCallID = a]}

Envelopes(k) ==
    {<<Nil, NoSubagent, FALSE>>, <<Nil, s1, TRUE>>, <<Empty(k), NoSubagent, FALSE>>,
     <<Value("map", k, 6, <<Array(<<Value("slice", k, 7, <<Scalar>>)>>)>>), s1, FALSE>>}

Messages(k) ==
    {[m EXCEPT !.metadata = e[1], !.subagent = e[2], !.secret = e[3]] :
        m \in Contents(k), e \in Envelopes(k)}

MCHistories == {<<m>> : m \in Messages(1)} \cup {<<m, n>> : m \in Messages(1), n \in Messages(2)}

MCAnswers ==
    {<<>>,
     <<[Eino("assistant", <<u>>, <<>>, NoCallList, NoID) EXCEPT !.metadata = Empty(3)],
       Eino("unknown", <<t>>, <<>>, NoCallList, NoID)>>,
     <<Eino("assistant", <<>>, <<>>,
            CallList(<<3, 10>>, <<Call(b, Nested(3), Pointer(3, 5)), Call(NoID, Nil, Nil)>>), NoID),
       Eino("tool", <<t>>, <<>>, NoCallList, b)>>}
=============================================================================
