-------------------------------- MODULE Marshaling -------------------------------
(***************************************************************************)
(* The two ways to marshalRONValue: conversions of documents with typed    *)
(* vocabularies (Vocabulary), and an Encoder of Go values (Encoder).       *)
(*                                                                         *)
(* A program of the model goes one of the ways; the two share no state, so *)
(* that its states are those of either and no mixture of both.             *)
(***************************************************************************)
EXTENDS Vocabulary

CONSTANTS
  Programs, Heap, FloatRenderers, MaxLimit,   \* the constants of Encoder
  MaxEncodes        \* bound of the model: the calls of Encode

VARIABLES
  encoding,                        \* whether the program has an Encoder
  values, settings, stream, calls  \* the Encoder

Go == INSTANCE Encoder WITH opts <- settings, MaxCalls <- MaxEncodes

encoderVars == <<values, settings, stream, calls>>

InitEither ==
  \/ encoding = FALSE /\ Init
     /\ values = {} /\ settings = Go!MarshalOptions("compact", "", 0, "none")
     /\ stream = << >> /\ calls = << >>
  \/ encoding = TRUE /\ Go!Init
     /\ OptionsInit /\ held = Null /\ answers = << >>

Converting == ~encoding /\ Next /\ UNCHANGED <<encoding, encoderVars>>

Encoding == encoding /\ Go!Next /\ UNCHANGED <<encoding, vars>>

NextEither == Converting \/ Encoding

SpecEither == InitEither /\ [][NextEither]_<<vars, encoding, encoderVars>>

--------------------------------------------------------------------------------
\* What the Encoder does with a value, a mode and a writer (Encoder.tla): the
\* stream holds the documents of the calls that reached the writer, and nil is
\* answered only for one that is there as a whole (marshal.go, Encode).
StreamExact == encoding => Go!StreamExact

\* However the runtime orders maps, a value has one document in a mode, and what
\* it says one canonical document (marshal.go, marshalMapValue and the writers).
OneDocument == encoding => Go!OneDocument

\* What is refused, overflows or panics in Encode has its cause in the value, the
\* limit or the renderer (marshal.go, marshalRONValue and validateMarshaledDepth).
EncodingExplained == encoding => Go!AnswersExplained

\* Canonical documents of Encode are those of RFC 8785: the order of keys, the
\* layout of numbers and the strings that are refused (canonical_ron.go).
EncodedCanonical == encoding => Go!CanonicalExact
================================================================================
