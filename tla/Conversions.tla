------------------------------- MODULE Conversions -------------------------------
(***************************************************************************)
(* The two conversions of the package: ToJSONInto of RON text, lexeme by   *)
(* lexeme (ToJSON), and FromJSON of a JSON value with its text read again, *)
(* character by character (RonText).                                       *)
(*                                                                         *)
(* A program of the model makes one of the calls; the two share no state,  *)
(* so that its states are those of either and no mixture of both.          *)
(***************************************************************************)
EXTENDS ToJSON

CONSTANTS Char, MaxAlone, MaxPaired, MaxInner   \* the constants of RonText

VARIABLES
  fromJSON,                                 \* which of the calls is made
  value, mode, wide, text, reading, step    \* RonText, step for its phase

RonText == INSTANCE RonText WITH phase <- step

textVars == <<value, mode, wide, text, reading, step>>

InitEither ==
  \/ /\ fromJSON = FALSE /\ InitCall
     /\ value = <<"literal", <<"0">>>> /\ mode = "compact" /\ wide = 0
     /\ text = << >> /\ reading = RonText!Fail /\ step = "json"
  \/ /\ fromJSON = TRUE /\ RonText!Init
     /\ src = << >> /\ limit = 0 /\ Unread /\ canonical = FALSE /\ answer = << >>

CallToJSON == ~fromJSON /\ ToJSONInto /\ UNCHANGED <<fromJSON, textVars>>

CallFromJSON == fromJSON /\ RonText!Next /\ UNCHANGED <<fromJSON, allVars>>

NextEither == CallToJSON \/ CallFromJSON

eitherVars == <<allVars, fromJSON, textVars>>

\* The one goroutine of ToJSONInto runs on until the call returns.
SpecEither == InitEither /\ [][NextEither]_eitherVars /\ WF_allVars(CallToJSON)

--------------------------------------------------------------------------------
\* Every value FromJSON writes is read as what it was, but for the strings whose
\* quotes run into their neighbours (render.go:332, parse.go).
RoundTrips == RonText!RoundTrips

\* Every text ToJSONInto is given is answered, in every mode.
AlwaysAnswered == <>(fromJSON \/ Returned)
================================================================================
