------------------------------ MODULE Dictionaries ------------------------------
(***************************************************************************)
(* What a run's header is used for.  ORHardwareDictionary turns its crates *)
(* and cards around, and each processor takes from it the data id of its   *)
(* records and the settings of its cards.                                  *)
(***************************************************************************)
EXTENDS PropertyLists

CONSTANTS
  Headers,      (* the documents that may come, each with what it says     *)
  ObjectPaths,  (* the data object path of each processor                  *)
  MaxHeaders,   (* bound                                                   *)
  ClassOf       (* the class of the cards each processor's records are of  *)

VARIABLES
  asDaemon,     (* fRunAsDaemon: the run control and the cards are not read *)
  phase,        (* how far the manager is with the document                *)
  document,     (* the last document, by its number                        *)
  header,       (* ORHeader's dictionary                                   *)
  loadedFrom,   (* the document the header was loaded from                 *)
  hardware,     (* fHardwareDict, numbered: a new object for each header   *)
  dataIds,      (* fDataId of each processor                               *)
  settings      (* fDecoderDictionary of each: the object, and its class   *)
dictVars == <<asDaemon, phase, document, header, loadedFrom, hardware, dataIds, settings>>

IllegalDataId   == 1
GetDataId(path) ==
  LET id == LookUp(header, <<"dataDescription">> \o path \o <<"dataId">>)
  IN  IF id = Null THEN IllegalDataId ELSE id.content

(***************************************************************************)
(* ORHardwareDictionary: class -> crate -> card, from the crates and their *)
(* cards.  One that lacks its number or its name fails the whole; a copy   *)
(* of a card with a null pointer in it ends the program.                   *)
(***************************************************************************)
Card(crate, card) ==
  LET Ok == IsA(LookUp(card, <<"Class Name">>), "string") /\ IsA(LookUp(card, <<"Card">>), "integer")
  IN  IF ~Ok THEN [is |-> "incomplete"]
      ELSE IF HasNull(card) THEN [is |-> "crash"]
      ELSE [is |-> "card", path |-> <<card.content["Class Name"].content, ToString(crate.content["CrateNumber"].content),
                                      ToString(card.content["Card"].content)>>, dict |-> card]
Cards(crate) ==
  LET cards == LookUp(crate, <<"Cards">>)
      Ok == /\ IsA(LookUp(crate, <<"CrateNumber">>), "integer") /\ IsA(LookUp(crate, <<"ClassName">>), "string")
            /\ IsA(LookUp(crate, <<"FirstSlot">>), "integer") /\ IsA(cards, "array")
      dicts == SelectSeq(cards.content, LAMBDA c : IsA(c, "dict"))
  IN  IF Ok THEN [i \in DOMAIN dicts |-> Card(crate, dicts[i])] ELSE <<[is |-> "incomplete"]>>

Insert(tree, c) ==
  LET LoadEntry(map, key, val) == (key :> val) @@ map
      Sub(map, key) == IF key \in DOMAIN map THEN map[key].content ELSE <<>>
      crates == Sub(tree, c.path[1])
  IN  LoadEntry(tree, c.path[1],
        Dict(LoadEntry(crates, c.path[2],
          Dict(LoadEntry(Sub(crates, c.path[2]), c.path[3], c.dict)))))

LoadCratesAndCards(dict) ==
  LET crates == LookUp(dict, <<"ObjectInfo", "Crates">>)
      all    == IF IsA(crates, "array")
                THEN FlattenSeq([i \in DOMAIN crates.content |-> IF IsA(crates.content[i], "dict")
                                                           THEN Cards(crates.content[i]) ELSE <<>>])
                ELSE <<[is |-> "incomplete"]>>
      bad    == SelectSeq(all, LAMBDA c : c.is # "card")
  IN  IF bad # <<>> THEN [is |-> bad[1].is]
      ELSE [is |-> "loaded", tree |-> Dict(FoldLeft(Insert, <<>>, all))]

(***************************************************************************)
(* A header comes: ORHeaderProcessor, then ORRunContext::LoadHeader, then  *)
(* SetDataId and SetDecoderDictionary of each processor.                   *)
(***************************************************************************)
NoHardware == [n |-> hardware.n + 1, is |-> "none"]
Init ==
  /\ asDaemon \in BOOLEAN /\ phase = "arrived"
  /\ document \in DOMAIN Headers
  /\ header = Null /\ loadedFrom = 0
  /\ hardware = [n |-> 0, is |-> "none"]
  /\ dataIds = [p \in DOMAIN ObjectPaths |-> IllegalDataId]
  /\ settings = [p \in DOMAIN ObjectPaths |-> [n |-> 0, dict |-> Null]]

Arrive(doc) ==
  /\ phase = "idle" /\ hardware.n < MaxHeaders
  /\ phase' = "arrived" /\ document' = doc
  /\ UNCHANGED <<asDaemon, header, loadedFrom, hardware, dataIds, settings>>

LoadHeaderString ==
  /\ phase = "arrived"
  /\ IF Loads(Headers[document].nodes)
     THEN /\ header' = LoadXmlPlist(Headers[document].nodes)
          /\ loadedFrom' = document /\ phase' = "header"
     ELSE phase' = "idle" /\ UNCHANGED <<header, loadedFrom>>
  /\ UNCHANGED <<asDaemon, document, hardware, dataIds, settings>>

\* The run control is the first there is in the data chain, or in older headers at the top.  What is
\* taken for the chain, a dictionary of it, or an entry of the run control is used unseen.
RunEntries == {"Class Name", "RunNumber", "quickStart", "runType", "startTime"}
RunControl ==
  LET chain  == LookUp(header, <<"ObjectInfo", "DataChain">>)
      asked  == IF chain = Null THEN <<header>> ELSE chain.content
      Of(i)  == LookUp(asked[i], <<"Run Control">>)
      found  == {i \in DOMAIN asked : Of(i) # Null}
      unseen == {i \in DOMAIN asked : ~IsA(asked[i], "dict") /\ \A j \in found : i < j}
  IN  IF (chain # Null /\ ~IsA(chain, "array")) \/ unseen # {} THEN "crashed"
      ELSE IF found = {} THEN "stopped"
      ELSE IF \E e \in RunEntries : LookUp(Of(Min(found)), <<e>>) = Null THEN "crashed" ELSE "context"
LoadHeader ==
  LET tree == LoadCratesAndCards(header)
  IN  /\ phase = "header"
      /\ IF asDaemon THEN phase' = "context" /\ UNCHANGED hardware
         ELSE /\ phase' = IF tree.is = "crash" THEN "crashed" ELSE RunControl
              /\ hardware' = IF tree.is = "loaded" THEN tree @@ [n |-> hardware.n + 1] ELSE NoHardware
      /\ UNCHANGED <<asDaemon, document, header, loadedFrom, dataIds, settings>>

SetDataId ==
  /\ phase = "context" /\ phase' = "ids"
  /\ dataIds' = [p \in DOMAIN dataIds |-> LET id == GetDataId(ObjectPaths[p])
                                          IN  IF id = IllegalDataId THEN dataIds[p] ELSE id]
  /\ UNCHANGED <<asDaemon, document, header, loadedFrom, hardware, settings>>

\* Without a hardware dictionary nothing is set: what the decoder was given
\* for the header before stays, and points into an object that was deleted.
GetDecoderDictionary(class) == LookUp(hardware.tree, <<class>>)
SetDecoderDictionary ==
  /\ phase = "ids" /\ phase' = "idle"
  /\ settings' = IF hardware.is = "none" THEN settings
                 ELSE [p \in DOMAIN settings |-> [n |-> hardware.n, dict |-> GetDecoderDictionary(ClassOf[p])]]
  /\ UNCHANGED <<asDaemon, document, header, loadedFrom, hardware, dataIds>>

Next == \/ \E doc \in DOMAIN Headers : Arrive(doc)
        \/ LoadHeaderString \/ LoadHeader \/ SetDataId \/ SetDecoderDictionary
Spec == Init /\ [][Next]_dictVars
-----------------------------------------------------------------------------
(***************************************************************************)
(* What a decoder reads of its card.                                       *)
(***************************************************************************)
CardThenCrate(dict, crate, card) ==  \* Mutant: the card's number first
  LookUp(dict, <<ToString(card), ToString(crate)>>)
GetRecordDictWithCrateAndCard(dict, crate, card) == LookUp(dict, <<ToString(crate), ToString(card)>>)
GetValueFromKey(p, key, crate, card) ==
  LET dict == GetRecordDictWithCrateAndCard(settings[p].dict, crate, card)
  IN  IF dict = Null THEN Null ELSE LookUp(dict, <<key>>)
GetIntValueFromKey(p, key, crate, card) ==
  LET val == GetValueFromKey(p, key, crate, card) IN IF IsA(val, "integer") THEN val.content ELSE 0
GetIntValueFromKeyArray(p, key, crate, card, index) ==
  LET array == GetValueFromKey(p, key, crate, card)
  IN  IF ~IsA(array, "array") \/ index >= Len(array.content) THEN 0
      ELSE IF IsA(array.content[index + 1], "integer") THEN array.content[index + 1].content ELSE 0

(***************************************************************************)
(* The header is what one document says, whatever came before it and       *)
(* whatever did not load after it: every entry is there, but for values of *)
(* types the reader does not know (arrays in arrays among them) and the    *)
(* digits of a real number a program of this package wrote.                *)
(***************************************************************************)
RECURSIVE AsRead(_)
AsRead(val) ==
  CASE val.type = "dict"  -> Dict([k \in DOMAIN val.content |-> AsRead(val.content[k])])
    [] val.type = "array" -> Array([i \in DOMAIN val.content |-> IF IsA(val.content[i], "array") THEN Null ELSE AsRead(val.content[i])])
    [] val.type = "real"  -> [type |-> "real", content |-> GetStringOfValue(val)]
    [] val.type \in {"string", "integer", "bool"} -> [type |-> val.type, content |-> val.content]
    [] OTHER -> Null
HeaderIsDocument == header # Null => header = AsRead(Headers[loadedFrom].says)

(***************************************************************************)
(* A decoder that was given this header's hardware dictionary reads, for a *)
(* crate and a card, the settings of that card and of no other, and zero   *)
(* where there is no such card.  The last card of the same numbers counts. *)
(***************************************************************************)
CardsOf(crates, p, crate, card) ==
  {<<i, j>> \in (DOMAIN crates) \X (1 .. 9) :
     /\ IsA(crates[i], "dict") /\ crates[i].content["CrateNumber"].content = crate
     /\ j \in DOMAIN crates[i].content["Cards"].content
     /\ LET c == crates[i].content["Cards"].content[j]
        IN  IsA(c, "dict") /\ c.content["Class Name"].content = ClassOf[p] /\ c.content["Card"].content = card}
Later(a, b) == a[1] > b[1] \/ (a[1] = b[1] /\ a[2] > b[2])
Setting(crates, p, key, crate, card) ==
  LET at   == CardsOf(crates, p, crate, card)
      last == CHOOSE a \in at : \A b \in at : ~Later(b, a)
  IN  IF at = {} THEN Null
      ELSE LookUp(crates[last[1]].content["Cards"].content[last[2]], <<key>>)
CardsFound ==
  LET crates == LookUp(Headers[loadedFrom].says, <<"ObjectInfo", "Crates">>).content IN
  \A p \in DOMAIN settings :
    phase = "idle" /\ hardware.is = "loaded" /\ settings[p].n = hardware.n =>
      \A crate, card \in 0 .. 2 :
        LET gain == Setting(crates, p, "gain", crate, card)
            thresholds == Setting(crates, p, "thresholds", crate, card)
        IN  /\ GetIntValueFromKey(p, "gain", crate, card) = (IF IsA(gain, "integer") THEN gain.content ELSE 0)
            /\ \A i \in 0 .. 2 :
                 GetIntValueFromKeyArray(p, "thresholds", crate, card, i) =
                   (IF IsA(thresholds, "array") /\ i < Len(thresholds.content) THEN thresholds.content[i + 1].content ELSE 0)

(***************************************************************************)
(* Two processors take the records of one data id only when the header     *)
(* does not describe the data of one of them (it then keeps the id an      *)
(* earlier header gave it).                                                *)
(***************************************************************************)
Described(p) ==
  ~IsA(LookUp(Headers[loadedFrom].says, <<"dataDescription">> \o ObjectPaths[p] \o <<"dataId">>), "null")
OneOwner ==
  phase = "idle" =>
    \A p, q \in DOMAIN dataIds :
      p # q /\ dataIds[p] = dataIds[q] => dataIds[p] = IllegalDataId \/ ~Described(p) \/ ~Described(q)

\* What the program looks up, header, ids and settings, is what the header at hand says.
SettingsFound == HeaderIsDocument /\ CardsFound /\ OneOwner
=============================================================================
