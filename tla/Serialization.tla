---------------------------- MODULE Serialization ----------------------------
(***************************************************************************)
(* What becomes of the arguments and the result of an activity between the *)
(* run that executes it and a run that replays it: serialization.py, the   *)
(* jsonb codec of db/connection.py, and their use in execute_activity.     *)
(*                                                                         *)
(* A Python value is a node: its kind, its class or what a scalar is       *)
(* written as, and its items.  Items have keys in dicts and instances; they*)
(* are in the order of what the keys are written as, so that two dicts are *)
(* equal when Python's are.  Keys that are written alike (1 and "1") do not*)
(* occur in one dict.  Operators recur over nodes; for TLC only.           *)
(***************************************************************************)
EXTENDS Naturals, Sequences, SequencesExt

CONSTANTS
  Models,   \* pydantic models
  Fields,   \* Fields[class]: its fields in order, each with its annotation
  Cases     \* the activities: what each is annotated to return, and returns

NoKey == [kind |-> "none", atom |-> "None"]
Scalar(kind, atom) == [kind |-> kind, atom |-> atom, items |-> <<>>]
NoValue == Scalar("none", "None")
Raised == Scalar("raised", "")
Item(key, val) == [key |-> key, val |-> val]
Named(name) == [kind |-> "str", atom |-> name]

\* An annotation: a plain type or class, or a constructor with its arguments.
Plain(name) == [of |-> "plain", name |-> name, args |-> <<>>]
Class(name) == [of |-> "class", name |-> name, args |-> <<>>]
Generic(of, args) == [of |-> of, name |-> "", args |-> args]
Absent == Generic("Any", <<>>)
IsNoneType(annotation) == annotation = Plain("none")

VARIABLES
  case,      \* the first activity: what it is annotated to return, and returns
  phase,     \* what the workflow has come to
  result,    \* payload["result"] of the COMPLETED event of the first activity
  input,     \* payload["input"] of the SCHEDULED event of the second
  replayed   \* what the first returned when it was replayed

vars == <<case, phase, result, input, replayed>>

-----------------------------------------------------------------------------
(***************************************************************************)
(* Conversion to JSON.                                                     *)
(***************************************************************************)
\* An exception in any item is the exception of all.
Node(kind, class, items) ==
  IF \E n \in DOMAIN items : "raised" \in {items[n].key.kind, items[n].val.kind}
  THEN Raised
  ELSE [kind |-> kind, atom |-> class, items |-> items]

Converted(v, kind, Key(_), Val(_)) ==
  Node(kind, "", [n \in DOMAIN v.items |-> Item(Key(v.items[n].key), Val(v.items[n].val))])

as_it_is(key) == key \* mutant: keys are left to json.dumps
StrKey(key) == Named(key.atom)
SameKey(key) == key

\* model_dump(mode="json") does to a model what this does to a dataclass.
RECURSIVE to_json_safe(_)
to_json_safe(v) ==
  CASE v.kind \in {"model", "dataclass"} -> Converted(v, "dict", SameKey, to_json_safe)
    [] v.kind \in {"list", "tuple"} -> Converted(v, "list", SameKey, to_json_safe)
    [] v.kind = "dict" -> Converted(v, "dict", StrKey, to_json_safe)
    [] OTHER -> v

\* How json.dumps writes a key.
JsonKey(key) == Named(CASE key.atom = "True" /\ key.kind = "bool" -> "true"
                        [] key.atom = "False" /\ key.kind = "bool" -> "false"
                        [] OTHER -> key.atom)

\* json.dumps, jsonb and json.loads: instances and objects of other types raise.
RECURSIVE Stored(_)
Stored(v) ==
  CASE v.kind \in {"model", "dataclass", "object"} -> Raised
    [] v.kind \in {"list", "tuple"} -> Converted(v, "list", SameKey, Stored)
    [] v.kind = "dict" -> Converted(v, "dict", JsonKey, Stored)
    [] OTHER -> v

\* The list of positional arguments.
_serialize_arguments(v) == to_json_safe([kind |-> "list", atom |-> "", items |-> <<Item(NoKey, v)>>])

-----------------------------------------------------------------------------
(***************************************************************************)
(* Restoration.                                                            *)
(***************************************************************************)
Annotation(class, name) ==
  LET at == {n \in DOMAIN Fields[class] : Fields[class][n].name = name} IN
  IF at = {} THEN Absent ELSE Fields[class][CHOOSE n \in at : TRUE].annotation

FieldNames(class) == {Fields[class][n].name : n \in DOMAIN Fields[class]}
Keys(v) == {v.items[n].key.atom : n \in DOMAIN v.items}
Numeral(atom) == atom \in {ToString(n) : n \in 0..9}

\* model_validate, external: unknown fields are ignored, missing ones an error;
\* a string of digits is taken for an int.  Fields are plain, lists or models.
RECURSIVE Validated(_, _)
model_validate(v, class) ==
  IF ~(FieldNames(class) \subseteq Keys(v)) THEN Raised
  ELSE LET known == SelectSeq(v.items, LAMBDA i : i.key.atom \in FieldNames(class)) IN
       Node("model", class, [n \in DOMAIN known |->
         Item(known[n].key, Validated(known[n].val, Annotation(class, known[n].key.atom)))])

Validated(v, annotation) ==
  CASE annotation.of = "plain" /\ v.kind = annotation.name -> v
    [] annotation = Plain("int") /\ v.kind = "str" /\ Numeral(v.atom) -> Scalar("int", v.atom)
    [] annotation.of = "list" /\ v.kind = "list" ->
         Converted(v, "list", SameKey, LAMBDA i : Validated(i, annotation.args[1]))
    [] annotation.of = "class" /\ v.kind = "dict" -> model_validate(v, annotation.name)
    [] OTHER -> Raised

\* int(key) raises for what is no number; bool(key) is true of every string but "".
_restore_dict_key(key, annotation) ==
  CASE annotation = Plain("int") -> [kind |-> IF Numeral(key.atom) THEN "int" ELSE "raised", atom |-> key.atom]
    [] annotation = Plain("bool") -> [kind |-> "bool", atom |-> IF key.atom = "" THEN "False" ELSE "True"]
    [] OTHER -> key

\* A later item replaces an earlier one with the same key.
Replaced(items) ==
  FoldLeft(LAMBDA before, i : Append(SelectSeq(before, LAMBDA j : j.key # i.key), i), <<>>, items)

\* An annotation without arguments has items of any type.
Argument(annotation, n) ==
  IF n <= Len(annotation.args) THEN annotation.args[n] ELSE Absent

matches_anything(v, annotation) == TRUE \* mutant
_value_matches_annotation(v, annotation) ==
  CASE annotation.of \in {"list", "dict"} -> v.kind = annotation.of
    [] annotation.of \in {"tuple", "variadic"} -> v.kind = "tuple"
    [] annotation.of = "class" -> v.kind \in {"model", "dataclass"} /\ v.atom = annotation.name
    [] annotation = Plain("int") -> v.kind \in {"int", "bool"}
    [] annotation.of = "plain" -> v.kind = annotation.name
    [] OTHER -> TRUE

RECURSIVE from_json_safe(_, _)

\* The first member, in the order of the annotation, whose restoration neither
\* raises nor is of another type; if none is, the last exception or the value.
_restore_union(v, members) ==
  LET restored == [n \in DOMAIN members |-> from_json_safe(v, members[n])]
      tried == {n \in DOMAIN members : ~IsNoneType(members[n])}
      raising == {n \in tried : restored[n] = Raised}
      matching == {n \in tried \ raising : _value_matches_annotation(restored[n], members[n])}
  IN IF v.kind = "none" /\ tried # DOMAIN members THEN v
     ELSE IF matching # {} THEN restored[CHOOSE n \in matching : \A m \in matching : n <= m]
     ELSE IF raising # {} THEN Raised
     ELSE v

\* Each item by its own annotation: the n-th argument, or the only one of tuple[T, ...].
_restore_tuple_items(v, annotation) ==
  Node("tuple", "", [n \in DOMAIN v.items |->
    Item(NoKey, from_json_safe(v.items[n].val, Argument(annotation, IF annotation.of = "variadic" THEN 1 ELSE n)))])

\* The constructor takes exactly the fields of the class.
_restore_dataclass(v, class) ==
  IF Keys(v) # FieldNames(class) THEN Raised
  ELSE Node("dataclass", class, [n \in DOMAIN v.items |->
         Item(v.items[n].key, from_json_safe(v.items[n].val, Annotation(class, v.items[n].key.atom)))])

from_json_safe(v, annotation) ==
  CASE annotation.of = "union" -> _restore_union(v, annotation.args)
    [] annotation.of = "class" /\ v.kind = "dict" ->
         IF annotation.name \in Models THEN model_validate(v, annotation.name)
         ELSE _restore_dataclass(v, annotation.name)
    [] annotation.of = "list" /\ v.kind = "list" ->
         Converted(v, "list", SameKey, LAMBDA i : from_json_safe(i, Argument(annotation, 1)))
    [] annotation.of = "dict" /\ v.kind = "dict" ->
         LET restored == Converted(v, "dict", LAMBDA key : _restore_dict_key(key, Argument(annotation, 1)),
                                   LAMBDA i : from_json_safe(i, Argument(annotation, 2)))
         IN [restored EXCEPT !.items = Replaced(@)]
    [] annotation.of \in {"tuple", "variadic"} /\ v.kind = "list" -> _restore_tuple_items(v, annotation)
    [] OTHER -> v

-----------------------------------------------------------------------------
(***************************************************************************)
(* A workflow (execute_activity): one activity returns a value, which is   *)
(* the argument of a second one; then another run replays both.            *)
(***************************************************************************)
Init ==
  /\ case \in Cases
  /\ phase = "executed"
  /\ result = NoValue /\ input = NoValue /\ replayed = NoValue

\* COMPLETED of the first, unless json.dumps raises and the workflow fails.
complete ==
  /\ phase = "executed"
  /\ result' = Stored(to_json_safe(case.value))
  /\ phase' = IF result' = Raised THEN "failed" ELSE "completed"
  /\ UNCHANGED <<case, input, replayed>>

\* SCHEDULED of the second; the first has returned the value itself.
schedule ==
  /\ phase = "completed"
  /\ input' = Stored(_serialize_arguments(case.value))
  /\ phase' = "scheduled"
  /\ UNCHANGED <<case, result, replayed>>

\* The first in another run, after a crash at either point.
replay ==
  /\ phase \in {"completed", "scheduled"}
  /\ replayed' = from_json_safe(result, case.returns)
  /\ phase' = CASE replayed' = Raised -> "failed" [] phase = "scheduled" -> "replayed" [] OTHER -> "restored"
  /\ UNCHANGED <<case, result, input>>

\* The second in that run: its arguments are compared with those recorded.
compare ==
  /\ phase = "replayed"
  /\ phase' = IF input = _serialize_arguments(replayed) THEN "restored" ELSE "diverged"
  /\ UNCHANGED <<case, result, input, replayed>>

Next == complete \/ schedule \/ replay \/ compare
Spec == Init /\ [][Next]_vars

-----------------------------------------------------------------------------
(***************************************************************************)
(* Properties.                                                             *)
(***************************************************************************)
Shape(annotation) ==
  CASE annotation.of \in {"list", "tuple", "variadic"} -> "array"
    [] annotation.of \in {"dict", "class"} -> "object"
    [] OTHER -> annotation.name

\* The JSON of a value of the second type is not restored as one of the first.
RECURSIVE Apart(_, _)
Apart(first, second) ==
  \/ Shape(first) # Shape(second)
  \/ /\ first.of = "class" /\ second.of = "class"
     /\ IF first.name \in Models
        THEN ~(FieldNames(first.name) \subseteq FieldNames(second.name))
        ELSE FieldNames(first.name) # FieldNames(second.name)
  \/ /\ first.of = "list" /\ second.of = "list"
     /\ first.args[1].of = "class" /\ Apart(first.args[1], second.args[1])

\* The types whose values JSON tells apart: each container is annotated down to its
\* items, no dict has bool keys and the members of a union are apart.
RECURSIVE Faithful(_)
Faithful(annotation) ==
  CASE annotation.of = "Any" -> FALSE
    [] annotation.of = "plain" -> annotation.name \notin {"list", "tuple", "dict"}
    [] annotation.of = "class" ->
         \A n \in DOMAIN Fields[annotation.name] : Faithful(Fields[annotation.name][n].annotation)
    [] OTHER ->
         /\ annotation.args # <<>>
         /\ \A n \in DOMAIN annotation.args : Faithful(annotation.args[n])
         /\ annotation.of = "dict" => annotation.args[1] # Plain("bool")
         /\ annotation.of = "union" =>
              \A m, n \in DOMAIN annotation.args : m < n => Apart(annotation.args[m], annotation.args[n])

\* A replayed activity returns what it returned when it was executed.
RestoredAsReturned ==
  (phase \in {"replayed", "restored", "diverged"} \/ (phase = "failed" /\ result # Raised)) =>
    (Faithful(case.returns) => replayed = case.value)

RECURSIVE MentionsModel(_)
MentionsModel(annotation) ==
  \/ annotation.of = "class" /\ annotation.name \in Models
  \/ \E n \in DOMAIN annotation.args : MentionsModel(annotation.args[n])

\* Also where the restored value is another (a list for a tuple, a dict for an
\* instance), it is the same JSON, unless keys become bool or a union with models
\* takes a value for that of another member.
RECURSIVE SameJson(_)
SameJson(annotation) ==
  \/ Faithful(annotation)
  \/ /\ \A n \in DOMAIN annotation.args : SameJson(annotation.args[n])
     /\ annotation.of = "dict" => annotation.args[1] # Plain("bool")
     /\ annotation.of = "union" => ~MentionsModel(annotation)

\* A replay is not taken for changed code because its arguments passed through JSON.
NoFalseDivergence == phase = "diverged" => ~SameJson(case.returns)
=============================================================================
