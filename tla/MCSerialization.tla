-------------------------- MODULE MCSerialization --------------------------
(***************************************************************************)
(* Classes, and the annotations up to two containers deep with values of   *)
(* them, for Serialization.                                                *)
(***************************************************************************)
EXTENDS Serialization, TLC, FiniteSetsExt

Field(name, annotation) == [name |-> name, annotation |-> annotation]
Text == Plain("str")
Integer == Plain("int")

\* Item, Coin and Word are pydantic models, Shipment, Point and Pair dataclasses.
\* Coin's field is also Word's, of another type, and one of Point's and Pair's.
ModelNames == {"Item", "Coin", "Word"}
ClassFields ==
  "Item" :> <<Field("quantity", Integer), Field("sku", Text)>>
  @@ "Coin" :> <<Field("x", Integer)>>
  @@ "Word" :> <<Field("x", Text)>>
  @@ "Shipment" :> <<Field("id", Text), Field("items", Generic("list", <<Class("Item")>>))>>
  @@ "Point" :> <<Field("x", Integer)>>
  @@ "Pair" :> <<Field("x", Integer), Field("y", Generic("tuple", <<Integer, Text>>))>>

List(t) == Generic("list", <<t>>)
Tuple(t, u) == Generic("tuple", <<t, u>>)
Variadic(t) == Generic("variadic", <<t>>)
Dict(k, t) == Generic("dict", <<k, t>>)
Union(t, u) == Generic("union", <<t, u>>)
Optional(t) == Union(t, Plain("none"))

Classes == {Class(c) : c \in DOMAIN ClassFields}
Simple == {Text, Integer, Plain("bool")} \cup Classes
Keyed == {Text, Integer, Plain("bool")}

Containers(S) ==
  UNION {{List(t), Variadic(t), Optional(t)} : t \in S} \cup {Dict(k, t) : k \in Keyed, t \in S}
Pairs(S) == UNION {{Tuple(t, u), Union(t, u)} : t, u \in S}

\* Members of the unions of containers.
Members ==
  {List(Integer), List(Class("Point")), List(Class("Pair")), List(Class("Coin")), Tuple(Integer, Text),
   Variadic(Class("Item")), Dict(Text, Integer), Dict(Integer, Text), Class("Coin"), Class("Pair"), Text}

Types ==
  LET deep == Containers(Simple) \cup Pairs(Simple) IN
  Simple \cup deep \cup Containers(deep) \cup Pairs(Members)
    \cup {Absent, Plain("none"), Plain("tuple"), Plain("list"), Plain("dict"), Generic("list", <<>>)}

Made(kind, class, items) == [kind |-> kind, atom |-> class, items |-> items]
Sequence(kind, vals) == Made(kind, "", [n \in DOMAIN vals |-> Item(NoKey, vals[n])])
One == Scalar("int", "1")
Loose == {Sequence("tuple", <<One, Scalar("str", "a")>>), Scalar("object", "datetime"),
          Made("dataclass", "Point", <<Item(Named("x"), One)>>)}

KeysOf(k) == CASE k = Integer -> <<"1", "2">> [] k = Text -> <<"1", "x">> [] OTHER -> <<"False", "True">>

RECURSIVE ValuesOf(_)
ValuesOf(t) ==
  CASE t = Text -> {Scalar("str", "1"), Scalar("str", "a")}
    [] t = Integer -> {One}
    [] t = Plain("bool") -> {Scalar("bool", "False")}
    [] t = Plain("none") -> {NoValue}
    [] t.of = "class" ->
         LET fields == ClassFields[t.name]
             kind == IF t.name \in ModelNames THEN "model" ELSE "dataclass"
             vals == [n \in DOMAIN fields |-> ValuesOf(fields[n].annotation)]
         IN {Made(kind, t.name, [n \in DOMAIN fields |-> Item(Named(fields[n].name), v[n])]) :
               v \in {f \in [DOMAIN fields -> UNION {vals[n] : n \in DOMAIN fields}] :
                        \A n \in DOMAIN fields : f[n] \in vals[n]}}
    [] t.of = "list" /\ t.args # <<>> ->
         {Sequence("list", <<>>)} \cup {Sequence("list", <<v>>) : v \in ValuesOf(t.args[1])}
    [] t.of = "variadic" ->
         {Sequence("tuple", <<>>)} \cup {Sequence("tuple", <<v, v>>) : v \in ValuesOf(t.args[1])}
    [] t.of = "tuple" -> {Sequence("tuple", <<v, w>>) : v \in ValuesOf(t.args[1]), w \in ValuesOf(t.args[2])}
    [] t.of = "dict" ->
         {Made("dict", "", [n \in 1..2 |-> Item([kind |-> t.args[1].name, atom |-> KeysOf(t.args[1])[n]], v)]) :
            v \in ValuesOf(t.args[2])}
    [] t.of = "union" -> ValuesOf(t.args[1]) \cup ValuesOf(t.args[2])
    [] OTHER -> Loose

AllCases == UNION {{[returns |-> t, value |-> v] : v \in ValuesOf(t)} : t \in Types}
=============================================================================
