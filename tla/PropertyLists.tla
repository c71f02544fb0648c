----------------------------- MODULE PropertyLists -----------------------------
(***************************************************************************)
(* Property lists.  ORXmlPlist reads one into an ORDictionary,             *)
(* ORXmlPlistString writes one, and values are looked up by their path.    *)
(*                                                                         *)
(* A value is [type, content]; Null stands for the null pointer of an      *)
(* entry that is of no type the reader knows.  A document is a sequence of *)
(* nodes.                                                                  *)
(***************************************************************************)
EXTENDS Integers, Sequences, SequencesExt, TLC

Null       == [type |-> "null"]
Integer(i) == [type |-> "integer", content |-> i]
Str(s)     == [type |-> "string", content |-> s]
Dict(map)  == [type |-> "dict", content |-> map]
Array(s)   == [type |-> "array", content |-> s]

(***************************************************************************)
(* Writing.  Every value is followed by the text of a line's end; nothing  *)
(* in a string is escaped, a real number keeps six digits.                 *)
(***************************************************************************)
Node(name, content) == [name |-> name, content |-> content]
Text    == Node("text", "")
Key(k)  == Node("key", k)

GetStringOfValue(val) == IF val.type = "real" THEN Min({val.content, 6}) ELSE val.content

RECURSIVE LoadDictValue(_)
LoadDictValue(val) ==
  CASE val.type = "dict" ->
         <<Node("dict", FoldLeft(LAMBDA text, k : text \o <<Key(k), Text>> \o LoadDictValue(val.content[k]),
                                 <<Text>>, SetToSeq(DOMAIN val.content))), Text>>
    [] val.type = "array" ->
         <<Node("array", FoldLeft(LAMBDA text, v : text \o LoadDictValue(v), <<Text>>, val.content)), Text>>
    [] val.type = "bool" -> <<Node(IF val.content THEN "true" ELSE "false", <<>>), Text>>
    [] OTHER -> <<Node(val.type, GetStringOfValue(val)), Text>>
LoadDictionaryAsString(dict) == <<Node("plist", <<Text>> \o LoadDictValue(dict))>>

(***************************************************************************)
(* Reading.  A node is only looked at while another comes after it: with   *)
(* no text between the nodes the last value of a list is not read.  A      *)
(* value of another type, or an array in an array, is a null pointer.      *)
(***************************************************************************)
First(nodes, from, P(_)) ==
  LET good == {i \in from .. Len(nodes) : P(nodes[i].name)}
  IN  IF good = {} THEN Len(nodes) ELSE Min(good)
IsKey(name)   == name = "key"
NotText(name) == name # "text"

RECURSIVE LoadDictionary(_), LoadArray(_), LoadValue(_)
LoadValue(node) ==
  CASE node.name = "dict"            -> Dict(LoadDictionary(node.content))
    [] node.name \in {"true", "false"} -> [type |-> "bool", content |-> node.name = "true"]
    [] node.name \in {"string", "integer", "real"} -> [type |-> node.name, content |-> node.content]
    [] OTHER                         -> Null
LoadDictionary(nodes) ==
  LET key  == First(nodes, 1, IsKey)
      val  == First(nodes, key + 1, NotText)
      rest == SubSeq(nodes, val + 1, Len(nodes))
  IN  IF key + 1 >= Len(nodes) THEN <<>>
      ELSE LoadDictionary(rest)
             @@ (nodes[key].content :>
                   IF nodes[val].name = "array" THEN Array(LoadArray(nodes[val].content))
                   ELSE LoadValue(nodes[val]))
LoadArray(nodes) ==
  LET val == First(nodes, 1, NotText)
  IN  IF val >= Len(nodes) THEN <<>>
      ELSE <<LoadValue(nodes[val])>> \o LoadArray(SubSeq(nodes, val + 1, Len(nodes)))

FindChildByName(name, nodes) ==
  SelectSeq(Front(nodes), LAMBDA child : child.name = name)
Loads(nodes) ==
  /\ nodes # <<>> /\ nodes[1].name = "plist" /\ nodes[1].content # <<>>
  /\ FindChildByName("dict", nodes[1].content) # <<>>
LoadXmlPlist(nodes) == LoadValue(FindChildByName("dict", nodes[1].content)[1])

(***************************************************************************)
(* Looking up.                                                             *)
(***************************************************************************)
RECURSIVE LookUp(_, _)
LookUp(dict, path) ==
  IF dict.type # "dict" \/ Head(path) \notin DOMAIN dict.content THEN Null
  ELSE IF Len(path) = 1 THEN dict.content[path[1]] ELSE LookUp(dict.content[path[1]], Tail(path))
IsA(val, type) == val.type = type

\* A copy of a dictionary with a null pointer in it ends the program.
RECURSIVE HasNull(_)
HasNull(val) == \/ val = Null
                \/ val.type \in {"dict", "array"} /\ \E i \in DOMAIN val.content : HasNull(val.content[i])
=============================================================================
