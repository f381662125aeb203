--------------------------- MODULE Serialization ---------------------------
(***************************************************************************)
(* What becomes of a value on its way through a cloud call                 *)
(* (runtime/serialization.py, interceptor.py): it is serialized as an      *)
(* argument, sent as JSON, and deserialized; a cloud that returns it as it *)
(* got it uses the same functions on the way back.                         *)
(*                                                                         *)
(* A Python value is <<kind, content>>: an atom's content is what it       *)
(* holds, a list's or a tuple's a sequence, a set's a set and a dict's a   *)
(* function on its keys.  JSON values are scalars, arrays and objects in   *)
(* the same form, and the keys of an object are text: serialize_value      *)
(* leaves a dictionary's keys as they are, and json.dumps (to_json of      *)
(* shared/protocol.py) writes those that are numbers, bools or None as     *)
(* text and raises on the others.                                          *)
(*                                                                         *)
(* An object of a module that is not on the list travels as its repr; one  *)
(* of a module that is goes through pickle, which raises on some of them   *)
(* (a lambda's module is builtins).  What can be pickled is taken to load  *)
(* at the other end, and a subclass counts as its base type.               *)
(***************************************************************************)
EXTENDS Naturals, Sequences, SequencesExt

CONSTANTS
    Values,  \* what calls may have for an argument, and all that is in it
    Depth,   \* how deep each of them is nested
    RecursionLimit,
    Text,    \* of every key of a dictionary the text JSON has for it, or NoText
    NoText,
    NoValue

VARIABLES
    original, \* the argument
    transit,  \* what is on the wire, or NoValue
    arrived,  \* what the cloud, and then the client, got
    hops      \* how many times the value has been deserialized

valueVars == <<original, transit, arrived, hops>>

Raised == <<"raised", "">>
Scalar(x) == <<"scalar", x>>
Keyed     == {"bytes", "complex", "ndarray", "pickle"}

\* The values in a value.
Parts(v) ==
    CASE v[1] \in {"list", "tuple", "dict"} -> {v[2][k] : k \in DOMAIN v[2]}
      [] v[1] = "set" -> v[2]
      [] OTHER -> {}

\* What serializing raises on: what pickle.dumps does not take, and a key JSON has no text for.
CanSend[v \in Values] ==
    /\ v[1] # "unpicklable"
    /\ v[1] = "dict" => \A k \in DOMAIN v[2] : Text[k] # NoText
    /\ \A w \in Parts(v) : CanSend[w]

Sendable == {v \in Values : CanSend[v]}

\* The texts that are the keys of f on the wire, and what is read under one of them: of the
\* keys with the same text the one that was added last, here any one of them.
Texts(f) == {Text[k] : k \in DOMAIN f}
Entry(f, text) == f[CHOOSE k \in DOMAIN f : Text[k] = text]

Tagged(tag, field, json) ==
    <<"object", [k \in {"__type__", field} |-> IF k = "__type__" THEN Scalar(tag) ELSE json]>>

\* Mutant: a dictionary goes without a tag.
SerializePlainDict(v, json) ==
    CASE v[1] = "scalar" -> v
      [] v[1] \in {"list", "tuple"} ->
            Tagged("list", "values", <<"array", [i \in DOMAIN v[2] |-> json[v[2][i]]]>>)
      [] v[1] = "dict" -> <<"object", [t \in Texts(v[2]) |-> json[Entry(v[2], t)]]>>
      [] v[1] = "set" ->
            LET order == SetToSeq(v[2])
            IN  Tagged("set", "values", <<"array", [i \in DOMAIN order |-> json[order[i]]]>>)
      [] v[1] \in Keyed -> Tagged(v[1], "data", Scalar(v[2]))
      [] v[1] = "opaque" -> Tagged("repr", "value", Scalar(v[2]))

\* serialize_value and json.dumps of what can be sent, given the JSON of what is in it.
SerializeValue(v, json) ==
    CASE v[1] = "scalar" -> v
      [] v[1] \in {"list", "tuple"} ->
            Tagged("list", "values", <<"array", [i \in DOMAIN v[2] |-> json[v[2][i]]]>>)
      [] v[1] = "dict" ->
            Tagged("dict", "items", <<"object", [t \in Texts(v[2]) |-> json[Entry(v[2], t)]]>>)
      [] v[1] = "set" ->
            LET order == SetToSeq(v[2])
            IN  Tagged("set", "values", <<"array", [i \in DOMAIN order |-> json[order[i]]]>>)
      [] v[1] \in Keyed -> Tagged(v[1], "data", Scalar(v[2]))
      [] v[1] = "opaque" -> Tagged("repr", "value", Scalar(v[2]))

Serialize[v \in Sendable] == SerializeValue(v, [w \in Parts(v) |-> Serialize[w]])

\* serialize_args of the positional arguments: a bare list of them.
SerializeArgs(vs) == <<"array", [i \in DOMAIN vs |-> Serialize[vs[i]]]>>

\* All the JSON there is.
Wire == {Serialize[v] : v \in Sendable} \cup {SerializeArgs(<<v>>) : v \in Sendable}

IsTagged(d) == d[1] = "object" /\ "__type__" \in DOMAIN d[2]

\* A bare list or dictionary is read as one that is tagged.
TagOf(d) ==
    IF IsTagged(d) THEN d[2]["__type__"]
    ELSE IF d[1] = "array" THEN Scalar("list") ELSE Scalar("dict")

\* The JSON in it that is deserialized.
Items(d) ==
    CASE d[1] = "scalar" -> <<>>
      [] d[1] # "scalar" /\ ~IsTagged(d) -> d[2]
      [] IsTagged(d) /\ TagOf(d) \in {Scalar("list"), Scalar("set")} -> d[2]["values"][2]
      [] IsTagged(d) /\ TagOf(d) = Scalar("dict") -> d[2]["items"][2]
      [] OTHER -> <<>>

Hashable(v) == v[1] \notin {"list", "dict", "set", "ndarray"}

\* A container whose elements raise raises.
Collected(kind, elements, content) == IF Raised \in elements THEN Raised ELSE <<kind, content>>

\* The items, each as what has become of it.
Each(d, value) == [k \in DOMAIN Items(d) |-> value[Items(d)[k]]]

\* deserialize_result, given what becomes of the items: JSON that carries a tag is what the
\* tag says, and stays as it is if the tag is none of those; a set of what cannot be hashed
\* raises.
DeserializeValue(d, value) ==
    LET each     == Each(d, value)
        elements == Range(each)
    IN  CASE d[1] = "scalar" -> d
          [] d[1] # "scalar" /\ TagOf(d) = Scalar("list") -> Collected("list", elements, each)
          [] d[1] # "scalar" /\ TagOf(d) = Scalar("dict") -> Collected("dict", elements, each)
          [] d[1] # "scalar" /\ TagOf(d) = Scalar("set") ->
                IF \A e \in elements : Hashable(e)
                THEN Collected("set", elements, elements) ELSE Raised
          [] d[1] # "scalar" /\ TagOf(d) \in {Scalar(k) : k \in Keyed} ->
                <<TagOf(d)[2], d[2]["data"][2]>>
          [] d[1] # "scalar" /\ TagOf(d) = Scalar("repr") -> Scalar(d[2]["value"][2])
          [] OTHER -> d

Deserialize[d \in Wire] ==
    DeserializeValue(d, [e \in {Items(d)[k] : k \in DOMAIN Items(d)} |-> Deserialize[e]])

ValueInit ==
    /\ original \in Values
    /\ transit = NoValue
    /\ arrived = NoValue
    /\ hops = 0

\* _async_execute serializes the arguments and sends them, or raises before it sends anything.
SendArgs ==
    /\ hops = 0 /\ transit = NoValue /\ arrived = NoValue
    /\ \/ original \in Sendable /\ transit' = SerializeArgs(<<original>>) /\ UNCHANGED arrived
       \/ original \notin Sendable /\ arrived' = Raised /\ UNCHANGED transit
    /\ UNCHANGED <<original, hops>>

\* The cloud has the list of arguments, and the client a value.
Receive ==
    /\ transit # NoValue
    /\ transit' = NoValue
    /\ hops' = hops + 1
    /\ arrived' = LET got == Deserialize[transit]
                  IN  IF hops = 0 /\ got # Raised THEN got[2][1] ELSE got
    /\ UNCHANGED original

\* The cloud returns its argument.
Return ==
    /\ hops = 1 /\ transit = NoValue /\ arrived # Raised
    /\ transit' = Serialize[arrived]
    /\ UNCHANGED <<original, arrived, hops>>

ValueDone == (hops = 2 \/ arrived = Raised) /\ UNCHANGED valueVars

ValueNext == SendArgs \/ Receive \/ Return \/ ValueDone

ValueSpec == ValueInit /\ [][ValueNext]_valueVars

-----------------------------------------------------------------------------
(* Properties                                                              *)

\* What a value that can be sent is expected to be afterwards, given that of what is in it:
\* tuples are lists, objects their repr, keys their text.
NormalValue(v, normal) ==
    CASE v[1] \in {"list", "tuple"} -> <<"list", [i \in DOMAIN v[2] |-> normal[v[2][i]]]>>
      [] v[1] = "dict" -> <<"dict", [t \in Texts(v[2]) |-> normal[Entry(v[2], t)]]>>
      [] v[1] = "set" -> <<"set", {normal[e] : e \in v[2]}>>
      [] v[1] = "opaque" -> Scalar(v[2])
      [] OTHER -> v

Normal[v \in Values] == NormalValue(v, [w \in Parts(v) |-> Normal[w]])

\* What is in a value and is still there afterwards.
Arriving(v) == IF v[1] = "dict" THEN {Entry(v[2], t) : t \in Texts(v[2])} ELSE Parts(v)

\* Whether no set in it has an element that is not hashable afterwards.
Settable[v \in Values] ==
    IF v[1] = "set" THEN \A e \in v[2] : Hashable(Normal[e]) ELSE \A w \in Arriving(v) : Settable[w]

\* What is in a value is a value, and less deep; none is so deep that serializing it raises.
ASSUME DepthAssumption ==
    /\ RecursionLimit \in Nat
    /\ \A v \in Values : /\ Depth[v] \in 0..RecursionLimit
                         /\ \A w \in Parts(v) : w \in Values /\ Depth[w] < Depth[v]

\* Text is its own text.
ASSUME TextAssumption ==
    /\ NoText \notin DOMAIN Text
    /\ \A k \in DOMAIN Text : Text[k] # NoText => Text[k] \in DOMAIN Text /\ Text[Text[k]] = Text[k]

\* Values have a kind and what goes with it, and what arrives is a value again.
ASSUME ValueAssumption ==
    \A v \in Values :
        /\ v = <<v[1], v[2]>>
        /\ v[1] \in {"scalar", "list", "tuple", "dict", "set", "opaque", "unpicklable"} \cup Keyed
        /\ v[1] \in {"list", "tuple"} => v[2] \in Seq(Values)
        /\ v[1] = "dict" => v[2] = [k \in DOMAIN v[2] |-> v[2][k]] /\ DOMAIN v[2] \subseteq DOMAIN Text
        /\ v[1] = "set" => IsFiniteSet(v[2])
        /\ CanSend[v] /\ Settable[v] => Normal[v] \in Values

\* A value arrives as what its conversion makes of it, however it is nested and also where its
\* dictionaries have keys the code uses for its own tags, or the call raises: of what is in a
\* value nothing is lost but the entries of keys whose text is that of another, nothing is
\* taken for a tag, and a second trip changes nothing any more.  It raises for what cannot be
\* pickled, for keys JSON has no text for, and for a set that has a tuple in it.
ValueArrives ==
    arrived # NoValue =>
        arrived = IF original \in Sendable /\ Settable[original] THEN Normal[original] ELSE Raised

\* A dictionary arrives with the keys it had, as the module says of calls: "serializes function
\* calls, and deserializes results transparently" (interceptor.py:4-5).
KeysArrive ==
    hops > 0 /\ arrived # Raised /\ original[1] = "dict" => DOMAIN arrived[2] = DOMAIN original[2]
=============================================================================
