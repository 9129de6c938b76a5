----------------------------- MODULE FareIdentity -----------------------------
(***************************************************************************)
(* build_fare_identity: which observations belong to one fare.             *)
(*                                                                         *)
(* A payload is the JSON an airline sent: objects have fields, anything    *)
(* else is a leaf.  The provider's configuration names the paths of the    *)
(* values that identify a fare; when a payload has none of them, the       *)
(* deeplink and the payload itself take their place.  The identity is a    *)
(* record here and a SHA-256 of its parts in the program; provider, route, *)
(* fare name and currency, which do not vary within this model, are left   *)
(* out.                                                                    *)
(***************************************************************************)
EXTENDS SequencesExt, Ordering

CONSTANTS
    None,  \* JSON null, or nothing at all
    Empty  \* the empty string

Object(fields) == [fields |-> fields]
Leaf(value) == [leaf |-> value]
IsObject(node) == "fields" \in DOMAIN node

(* One segment of a path: None when there is no object to look into. *)
Child(node, segment) ==
    IF IsObject(node) /\ segment \in DOMAIN node.fields THEN node.fields[segment] ELSE Leaf(None)

ExtractPayloadValue(payload, path) == FoldLeft(Child, payload, path)

HasValue(payload, path) == ExtractPayloadValue(payload, path) \notin {Leaf(None), Leaf(Empty)}

KeyParts(payload, paths) ==
    LET present == Ascending({i \in 1 .. Len(paths) : HasValue(payload, paths[i])})
    IN  [k \in 1 .. Len(present) |->
            [path |-> paths[present[k]], value |-> ExtractPayloadValue(payload, paths[present[k]])]]

(* Faulty variants: the payload is always a part, or never. *)
PayloadAlways(keys, deeplink, payload) == <<deeplink, payload>>
DeeplinkOnly(keys, deeplink, payload) == IF keys = << >> THEN <<deeplink>> ELSE << >>

Fallback(keys, deeplink, payload) == IF keys = << >> THEN <<deeplink, payload>> ELSE << >>

Identity(day, deeplink, payload, paths) ==
    LET keys == KeyParts(payload, paths)
    IN  [day |-> day, keys |-> keys, rest |-> Fallback(keys, deeplink, payload)]
=============================================================================
