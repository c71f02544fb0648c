----------------------------- MODULE MCHeaders -----------------------------
(***************************************************************************)
(* Headers for TLC: what one says and how it was written, some of which do *)
(* not load, lack a card's number, or have values the reader does not know. *)
(***************************************************************************)
EXTENDS PropertyLists
MCPaths == "qdc" :> <<"ORQDC", "Energy">> @@ "tdc" :> <<"ORTDC", "Time">>
MCClasses == "qdc" :> "ORQDC" @@ "tdc" :> "ORTDC"
DataOf(device, data, id) == device :> Dict(data :> Dict("dataId" :> Integer(id)))
QDCData(id) == DataOf("ORQDC", "Energy", id)
TDCData(id) == DataOf("ORTDC", "Time", id)
SettingsOf(class, slot, gain) == Dict([Card |-> Integer(slot), gain |-> Integer(gain),
                                   thresholds |-> Array(<<Integer(gain + 1), Integer(gain + 2)>>)]
                                  @@ ("Class Name" :> Str(class)))
With(card, key, val) == Dict((key :> val) @@ card.content)
CrateWith(number, cards) == Dict([CrateNumber |-> Integer(number), ClassName |-> Str("ORCrate"),
                                FirstSlot |-> Integer(0), Cards |-> Array(cards)])
Started == [RunNumber |-> Integer(7), runType |-> Integer(0), startTime |-> [type |-> "real", content |-> 9]]
           @@ ("Class Name" :> Str("ORRunModel"))
Running == Dict("Run Control" :> Dict([quickStart |-> [type |-> "bool", content |-> FALSE]] @@ Started))
ChainOf == <<Dict([x |-> Integer(0)]), Running>>
HeaderWith(ids, crates, chain) ==
  Dict([dataDescription |-> Dict(ids), ObjectInfo |-> Dict([Crates |-> Array(crates), DataChain |-> chain])])
HeaderOf(ids, crates) == HeaderWith(ids, crates, Array(ChainOf))
Both == QDCData(10) @@ TDCData(20)
Odd == <<[type |-> "date", content |-> "today"], Array(<<Array(<<Integer(1)>>), Integer(2)>>), Array(<<>>),
         Dict(<<>>), [type |-> "bool", content |-> TRUE]>>
QDC(slot, gain) == SettingsOf("ORQDC", slot, gain)
TDC(slot, gain) == SettingsOf("ORTDC", slot, gain)
Crates ==
  <<<<>>,
    <<CrateWith(0, <<QDC(1, 3), QDC(2, 5)>>), CrateWith(1, <<TDC(1, 7), QDC(1, 9)>>)>>,
    <<Str("x"), CrateWith(1, <<TDC(0, 4), TDC(0, 6), Odd[1]>>)>>,
    <<CrateWith(0, <<QDC(1, 3), Dict([Card |-> Integer(2)])>>)>>,
    <<Dict([CrateNumber |-> Integer(2)])>>>>
Ids == <<Both, QDCData(20) @@ TDCData(10), QDCData(20), TDCData(10)>>
Said ==
  [i \in DOMAIN Crates |-> HeaderOf(Ids[1], Crates[i])]
  \o [j \in 1 .. 3 |-> HeaderOf(Ids[j + 1], Crates[2])]
  \o [i \in DOMAIN Odd |-> HeaderOf(Both, <<CrateWith(0, <<With(QDC(1, 3), "odd", Odd[i])>>)>>)]
  \o <<Dict([dataDescription |-> Dict(Both)]), Running>>
  \* no run control, one without an entry, something else before it
  \o <<HeaderWith(Both, <<>>, Array(<<Dict([x |-> Integer(0)])>>)),
       HeaderWith(Both, <<>>, Array(<<Dict("Run Control" :> Dict(Started))>>)),
       HeaderWith(Both, <<>>, Array(<<Odd[1]>> \o ChainOf))>>
\* The last two do not load: markup in a string, no text after the dictionary.
MCHeaders == [i \in 1 .. Len(Said) + 2 |->
  IF i <= Len(Said) THEN [nodes |-> LoadDictionaryAsString(Said[i]), says |-> Said[i]]
  ELSE IF i = Len(Said) + 1 THEN [nodes |-> <<>>, says |-> Str("a < b")]
  ELSE [nodes |-> <<Node("plist", <<Node("dict", <<>>)>>)>>, says |-> Dict(<<>>)]]
=============================================================================
