------------------------------- MODULE Requests --------------------------------
(***************************************************************************)
(* OROrcaRequestProcessor: a request comes as a property list in a record; *)
(* a handler of the type it names is made once and kept, takes the inputs, *)
(* computes, and the answer goes back over the socket: a word with the     *)
(* data id and the length, then the property list, or an error in its      *)
(* place.                                                                  *)
(*                                                                         *)
(* Requests are known by their number; a variable of a handler is known by *)
(* the request it was loaded from and by what has become of it since.      *)
(***************************************************************************)
EXTENDS Integers, Sequences, FiniteSets, Functions

CONSTANTS
  Offers,      (* the requests Orca may send                              *)
  MaxRequests  (* bound                                                   *)

VARIABLES
  at,          (* where ExecuteAll is                                     *)
  requests,    (* the requests so far; the last one is being handled      *)
  decoder,     (* the decoder's tag and type: the requests they are from  *)
  handlers,    (* fReqProcessorMap: the variables of each handler         *)
  answer,      (* the answer being written                                *)
  used,        (* what ExecuteProcess found in the variables              *)
  connected,   (* the socket takes what is written                        *)
  stream       (* what the peer has been sent                             *)
reqVars == <<at, requests, decoder, handlers, answer, used, connected, stream>>

(***************************************************************************)
(* The handlers: the inputs each registers with SetInput, with their       *)
(* types, in the order of the map that keeps them.                         *)
(***************************************************************************)
InputsOf ==
  [ORDebugRequestProcessor |->
     <<<<"DebugDouble", "real">>, <<"DebugDoubleArray", "reals">>, <<"DebugInt", "int">>,
       <<"DebugIntArray", "ints">>, <<"DebugString", "string">>, <<"DebugStringArray", "strings">>>>,
   OROrcaRequestFitProcessor |->
     <<<<"FitFunction", "string">>, <<"FitLowerBound", "int">>, <<"FitOptions", "string">>,
       <<"FitParameters", "reals">>, <<"FitUpperBound", "int">>, <<"FitYValues", "reals">>>>,
   OROrcaRequestFFTProcessor |->
     <<<<"FFTOptions", "string">>, <<"Waveform", "reals">>>>]
Types         == DOMAIN InputsOf
Names(type)   == {p[1] : p \in Range(InputsOf[type])}
Wanted(type, name) == (CHOOSE p \in Range(InputsOf[type]) : p[1] = name)[2]
ElementOf     == [reals |-> "real", ints |-> "int", strings |-> "string"]

\* A request gives every input as its handler wants it, but for the odd ones.
Given(q, name) == IF name \in DOMAIN q.odd THEN q.odd[name] ELSE Wanted(q.type, name)

n       == Len(requests)
request == requests[n]
Unset   == [from |-> 0, state |-> "empty"]

Init ==
  /\ at = "idle"
  /\ requests = <<>>
  /\ decoder = [tag |-> 0, type |-> 0]
  /\ handlers = <<>>
  /\ answer = [n |-> 0, tag |-> 0, type |-> 0, ok |-> FALSE]
  /\ used = <<>>
  /\ connected \in BOOLEAN
  /\ stream = <<>>

(***************************************************************************)
(* ParseDataRecord: what could be read before it fails is kept, so is what *)
(* it did not get to of the request before.                                *)
(***************************************************************************)
Parts == <<"xml", "tag", "type", "option", "inputs">>
Read(q, part) == q.readable = "all" \/ \E i, j \in 1 .. 5 :
                   Parts[i] = part /\ Parts[j] = q.readable /\ i < j
\* Mutant: the tag is taken over only from a request that can be read to its end.
ParseWholeRecord(q) ==
  /\ at = "idle" /\ n < MaxRequests
  /\ requests' = Append(requests, q)
  /\ decoder' = IF q.readable = "all" THEN [tag |-> n + 1, type |-> n + 1] ELSE decoder
  /\ at' = IF q.readable = "all" THEN "handler" ELSE "error"
  /\ UNCHANGED <<handlers, answer, used, connected, stream>>
ParseDataRecord(q) ==
  /\ at = "idle" /\ n < MaxRequests
  /\ requests' = Append(requests, q)
  /\ decoder' = [tag  |-> IF Read(q, "tag") THEN n + 1 ELSE decoder.tag,
                 type |-> IF Read(q, "type") THEN n + 1 ELSE decoder.type]
  /\ at' = IF q.readable = "all" THEN "handler" ELSE "error"
  /\ UNCHANGED <<handlers, answer, used, connected, stream>>

LoadRequestHandler ==
  /\ at = "handler"
  /\ IF request.type \in Types
     THEN /\ handlers' = [type \in DOMAIN handlers \cup {request.type} |->
               IF type \in DOMAIN handlers THEN handlers[type] ELSE [name \in Names(type) |-> Unset]]
          /\ at' = "inputs"
     ELSE at' = "error" /\ UNCHANGED handlers
  /\ UNCHANGED <<requests, decoder, answer, used, connected, stream>>

(***************************************************************************)
(* LoadInput: a value of another type is not taken, nor is an array        *)
(* without values; a single value where an array is wanted empties it.     *)
(* LoadInputs does not ask; it stops at an input that is missing, or of a  *)
(* type no input has.                                                      *)
(***************************************************************************)
\* Mutant: an input is loaded only once.
LoadInputOnce(old, want, given) ==
  IF old.from = 0 /\ given = want THEN [from |-> n, state |-> "asSent"] ELSE old
LoadInput(old, want, given) ==
  CASE given = want -> [from |-> n, state |-> "asSent"]
    [] want \in DOMAIN ElementOf /\ given = ElementOf[want] -> [from |-> n, state |-> "empty"]
    [] OTHER -> old

Unusable == {"missing", "bool", "dict"}
Input(i)    == InputsOf[request.type][i][1]
Bad         == {i \in DOMAIN InputsOf[request.type] : Given(request, Input(i)) \in Unusable}
Taken(name) == \E i \in DOMAIN InputsOf[request.type] : Input(i) = name /\ \A j \in Bad : i < j
Loaded(name, old) ==
  IF Taken(name) THEN LoadInput(old, Wanted(request.type, name), Given(request, name)) ELSE old
LoadInputs ==
  /\ at = "inputs"
  /\ handlers' = [handlers EXCEPT ![request.type] = [name \in DOMAIN @ |-> Loaded(name, @[name])]]
  /\ at' = IF Bad = {} THEN "execute" ELSE "error"
  /\ UNCHANGED <<requests, decoder, answer, used, connected, stream>>

(***************************************************************************)
(* ExecuteProcess of the three handlers.  The fit pads its values, narrows *)
(* or exchanges its bounds and adds to its options, the transform applies its window in place; a fit that   *)
(* succeeds forgets its parameters, one that fails early does not.         *)
(***************************************************************************)
vals            == handlers[request.type]
GoodFormula(v)  == v.from # 0 /\ requests[v.from].formula
FitFails        == vals.FitYValues.state = "empty" \/ ~GoodFormula(vals.FitFunction)
Changed(v)      == [v EXCEPT !.state = "changed"]
Bounds          == {<<vals.FitLowerBound, vals.FitUpperBound>>, <<vals.FitLowerBound, Changed(vals.FitUpperBound)>>,
                    <<Changed(vals.FitLowerBound), Changed(vals.FitUpperBound)>>}
FitLeaves       == {[vals EXCEPT !.FitYValues = c[1], !.FitLowerBound = c[2][1], !.FitUpperBound = c[2][2],
                                 !.FitOptions = Changed(@), !.FitParameters = Unset] :
                      c \in {vals.FitYValues, Changed(vals.FitYValues)} \X Bounds}
FFTLeaves       == IF vals.Waveform.state = "empty" THEN {vals}
                   ELSE {vals, [vals EXCEPT !.Waveform = Changed(@), !.FFTOptions = Changed(@)]}
Leaves ==
  CASE request.type = "OROrcaRequestFitProcessor" -> FitLeaves
    [] request.type = "OROrcaRequestFFTProcessor" -> FFTLeaves
    [] OTHER -> {vals}

ExecuteProcess ==
  /\ at = "execute"
  /\ used' = vals
  /\ IF request.type = "OROrcaRequestFitProcessor" /\ FitFails
     THEN at' = "error" /\ UNCHANGED handlers
     ELSE /\ at' = "outputs"
          /\ \E left \in Leaves : handlers' = [handlers EXCEPT ![request.type] = left]
  /\ UNCHANGED <<requests, decoder, answer, connected, stream>>

(***************************************************************************)
(* LoadOutputs and SendErrorToOrca: two writes.  An answer that cannot be  *)
(* written becomes an error that is tried again; of an error that cannot   *)
(* be written no more is heard.                                            *)
(***************************************************************************)
Compose(ok) == [n |-> n, tag |-> decoder.tag, type |-> decoder.type, ok |-> ok]
Send(item)  == stream' = IF connected THEN Append(stream, item) ELSE stream

WriteWord(ok) ==
  /\ at = (IF ok THEN "outputs" ELSE "error")
  /\ answer' = Compose(ok)
  /\ Send([item |-> "word", n |-> n])
  /\ at' = IF connected THEN "body" ELSE IF ok THEN "error" ELSE "idle"
  /\ UNCHANGED <<requests, decoder, handlers, used, connected>>

WriteBody ==
  /\ at = "body"
  /\ Send([item |-> "body", n |-> n, answer |-> answer, used |-> IF answer.ok THEN used ELSE <<>>])
  /\ at' = IF answer.ok /\ ~connected THEN "error" ELSE "idle"
  /\ UNCHANGED <<requests, decoder, handlers, answer, used, connected>>

\* The peer is gone: from then on every write fails.
Disconnect ==
  /\ connected /\ connected' = FALSE
  /\ UNCHANGED <<at, requests, decoder, handlers, answer, used, stream>>

Next ==
  \/ \E q \in Offers : ParseDataRecord(q)
  \/ LoadRequestHandler \/ LoadInputs \/ ExecuteProcess
  \/ \E ok \in BOOLEAN : WriteWord(ok)
  \/ WriteBody \/ Disconnect

Spec == Init /\ [][Next]_reqVars
-----------------------------------------------------------------------------
Bodies == {s \in Range(stream) : s.item = "body"}

(***************************************************************************)
(* The peer can follow the stream: a body comes after its word and each    *)
(* request has one answer, in the order of the requests, until the         *)
(* connection goes; only then may a word be the last thing sent.  An       *)
(* answer carries the tag and the type of its request, as far as they      *)
(* could be read: a result always, an error unless the record did not get  *)
(* that far (it then carries those of an earlier request).                 *)
(***************************************************************************)
OneAnswerEach ==
  /\ \A i \in DOMAIN stream :
       /\ stream[i].n = (i + 1) \div 2
       /\ stream[i].item = IF i % 2 = 1 THEN "word" ELSE "body"
  /\ connected /\ at = "idle" => Len(stream) = 2 * n
TagAnswered(a) ==
  LET q == requests[a.n]
  IN  /\ Read(q, "tag") => a.tag = a.n
      /\ Read(q, "type") => a.type = a.n
      /\ a.ok => q.readable = "all" /\ q.type \in Types
AnswersMatch == OneAnswerEach /\ \A b \in Bodies : TagAnswered(b.answer)

(***************************************************************************)
(* A result is computed from the inputs of its own request, as they were   *)
(* sent, whatever the handler did before; an input that was sent but not   *)
(* taken (of another type, or an empty array) is that of the last request  *)
(* of the type that gave it, or none.                                      *)
(***************************************************************************)
Gave(m, type, name) ==
  /\ requests[m].type = type /\ requests[m].readable = "all"
  /\ Given(requests[m], name) \in {Wanted(type, name)} \cup
       (IF Wanted(type, name) \in DOMAIN ElementOf THEN {ElementOf[Wanted(type, name)]} ELSE {})
OwnInputs(k, values) ==
  LET t == requests[k].type
  IN  \A name \in DOMAIN values :
        /\ Given(requests[k], name) = Wanted(t, name) =>
             values[name] = [from |-> k, state |-> "asSent"]
        /\ values[name].from \in {0} \cup {m \in 1 .. k : Gave(m, t, name)}
        /\ \A m \in 1 .. k : Gave(m, t, name) /\ values[name].from # 0 =>
             m <= values[name].from \/ \E j \in Names(t) : Given(requests[m], j) \in Unusable
ResultsFromOwnInputs == \A b \in Bodies : b.answer.ok => OwnInputs(b.n, b.used)
================================================================================
