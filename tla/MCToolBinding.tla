---------------------------- MODULE MCToolBinding ----------------------------
(* Up to three tools; schemas with keywords nested in maps and in lists.    *)
EXTENDS ToolBinding, TLC

CONSTANTS f, g, properties, items, format

Map(held)  == JSON("map", held)
List(held) == JSON("list", held)

Parameters ==
    {NoParameters, JSON("malformed", <<>>), Scalar, Map(<<>>),
     Map(format :> Scalar),
     Map(properties :> Map((items :> Map(<<>>)) @@ (format :> Map(items :> Scalar)))),
     Map((items :> List(<<Map(format :> Scalar), Map(<<>>)>>)) @@ (format :> List(<<Scalar, Scalar>>)))}

Definitions == [name : {f, g, NoToolName}, params : Parameters]

MCTools == {<<d>> : d \in Definitions} \cup {<<d, e>> : d, e \in Definitions}
             \cup {<<d, [d EXCEPT !.name = g, !.params = NoParameters], e>> : d, e \in Definitions}
=============================================================================
