---------------------------- MODULE VocabularyOptions ----------------------------
(***************************************************************************)
(* The options that concern typed vocabularies: EnableVocabularies         *)
(* (vocabulary.go), UseCustomVocabulary (vocabulary_custom.go) and         *)
(* MaxNestingDepth (convert.go), applied in the order they are given.      *)
(*                                                                         *)
(* A custom vocabulary is [uri, tags, parse, render]: parse is what its    *)
(* Parse does with a payload ("none" without one, "app" makes a value of   *)
(* the application, "json" returns the payload, "refuse" an error) and     *)
(* render which application values its Render claims ("none", "own",       *)
(* "any").  An empty uri and tags without their # are legal.               *)
(***************************************************************************)
EXTENDS Integers, Sequences, FiniteSets, Functions

CONSTANTS
  BuiltInUris,   \* the vocabularies of the package
  BuiltInTags,   \* and their tags
  Vocabularies,  \* the custom vocabularies of the model
  Enabled,       \* the uris it gives to EnableVocabularies
  Limits,        \* the depths it gives to MaxNestingDepth
  MaxOptions     \* bound of the model: the options of a call

VARIABLES
  given,   \* the options so far
  opts     \* optionState

NoOptions ==
  [uris |-> {},             \* vocabularies
   custom |-> << >>,        \* customVocabularies
   order |-> << >>,         \* customVocabularyOrder
   tags |-> << >>,          \* customTags
   limit |-> 0]             \* maxNestingDepth

\* normalizeCustomTag; a bare tag is a name behind an empty prefix.
NormalizeCustomTag(tag) == IF SubSeq(tag, 1, 1) = "#" THEN tag ELSE "#" \o tag

Names(vocabulary) == {NormalizeCustomTag(tag) : tag \in vocabulary.tags}

EnableVocabularies(uri) ==
  IF uri \in BuiltInUris THEN opts ELSE [opts EXCEPT !.uris = @ \cup {uri}]

\* Mutant: a tag stays with the vocabulary that listed it first.
PointedOnce(vocabulary) ==
  [tag \in DOMAIN opts.tags \cup Names(vocabulary) |->
     IF tag \in DOMAIN opts.tags THEN opts.tags[tag] ELSE vocabulary.uri]

\* The tags of the vocabulary point to its uri.
Pointed(vocabulary) ==
  [tag \in DOMAIN opts.tags \cup Names(vocabulary) |->
     IF tag \in Names(vocabulary) THEN vocabulary.uri ELSE opts.tags[tag]]

\* The vocabulary without its tags: an empty uri registers nothing.
Registered(vocabulary) ==
  IF vocabulary.uri = "" THEN opts
  ELSE [opts EXCEPT
          !.uris = @ \cup {vocabulary.uri},
          !.custom = [uri \in DOMAIN @ \cup {vocabulary.uri} |->
                        IF uri = vocabulary.uri THEN vocabulary ELSE @[uri]],
          !.order = IF vocabulary.uri \in DOMAIN opts.custom THEN @
                    ELSE Append(@, vocabulary.uri)]

UseCustomVocabulary(vocabulary) ==
  [Registered(vocabulary) EXCEPT !.tags = Pointed(vocabulary)]

MaxNestingDepth(limit) == [opts EXCEPT !.limit = limit]

OptionsInit == given = << >> /\ opts = NoOptions

Give(option, result) == given' = Append(given, option) /\ opts' = result

GiveOption ==
  /\ Len(given) < MaxOptions
  /\ \/ \E uri \in Enabled :
          Give([op |-> "enable", uri |-> uri], EnableVocabularies(uri))
     \/ \E vocabulary \in Vocabularies :
          Give([op |-> "use", vocabulary |-> vocabulary], UseCustomVocabulary(vocabulary))
     \/ \E limit \in Limits :
          Give([op |-> "depth", limit |-> limit], MaxNestingDepth(limit))

OptionsSpec == OptionsInit /\ [][GiveOption]_<<given, opts>>

--------------------------------------------------------------------------------
\* supportsVocabulary and validateVocabularies.
SupportsVocabulary(uri) == uri \in BuiltInUris \/ uri \in DOMAIN opts.custom

ValidateVocabularies == \A uri \in opts.uris : SupportsVocabulary(uri)

\* The tags of the package are enabled by default and nothing disables them.
IsTag(key) == key \in BuiltInTags \/ key \in DOMAIN opts.tags

\* parseCustomPayload: the vocabulary behind a tag, or none.
Handler(tag) ==
  IF opts.tags[tag] \in DOMAIN opts.custom THEN opts.custom[opts.tags[tag]].parse ELSE "none"

\* customRenderersList: the first in the order of registration that claims the value.
Renderers(v) ==
  SelectSeq(opts.order, LAMBDA uri :
    \/ opts.custom[uri].render = "any"
    \/ opts.custom[uri].render = "own" /\ v.uri = uri)

--------------------------------------------------------------------------------
\* ValidateVocabularyProfile: profile says which vocabularies are required.
ProfileRejected(profile) == \E uri \in DOMAIN profile : profile[uri] /\ ~SupportsVocabulary(uri)

\* What the options say, read backwards from what was given.
Uses == {i \in DOMAIN given : given[i].op = "use"}
LastOf(S) == CHOOSE i \in S : \A j \in S : j <= i
Listing(tag) == {i \in Uses : tag \in Names(given[i].vocabulary)}
Registering(uri) == {i \in Uses : given[i].vocabulary.uri = uri}

\* A tag belongs to the vocabulary that listed it last, and is read by the last
\* registration of that vocabulary, whether that one lists the tag or not.
ServedByLast ==
  \A tag \in UNION {Names(v) : v \in Vocabularies} :
    IF Listing(tag) = {} THEN tag \notin DOMAIN opts.tags
    ELSE LET uri == given[LastOf(Listing(tag))].vocabulary.uri
         IN  /\ opts.tags[tag] = uri
             /\ uri # "" => opts.custom[uri] = given[LastOf(Registering(uri))].vocabulary

\* Options are rejected for a vocabulary that nobody brought, in whatever order
\* the options came (docs/vocabulary-custom.md); a profile that requires it is
\* rejected under the same options.  Nobody can bring the one without a uri.
UnknownRejected ==
  LET unknown == {uri \in Enabled \ BuiltInUris : uri = "" \/ Registering(uri) = {}}
      enabled == {given[i].uri : i \in {j \in DOMAIN given : given[j].op = "enable"}}
  IN  /\ ValidateVocabularies <=> enabled \cap unknown = {}
      /\ ProfileRejected([uri \in Enabled |-> uri \in enabled]) <=> ~ValidateVocabularies

\* What the options amount to is what they say, in any order.
OptionsExact == ServedByLast /\ UnknownRejected
================================================================================
