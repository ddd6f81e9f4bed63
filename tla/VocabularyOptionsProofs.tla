------------------------- MODULE VocabularyOptionsProofs -------------------------
(***************************************************************************)
(* The options amount to what they say, whatever vocabularies there are    *)
(* and however many options a call is given.                               *)
(***************************************************************************)
EXTENDS VocabularyOptions, WellFoundedInduction, TLAPS

Option ==
  [op : {"enable"}, uri : Enabled]
    \cup [op : {"use"}, vocabulary : Vocabularies]
    \cup [op : {"depth"}, limit : Limits]

Tags == UNION {Names(v) : v \in Vocabularies}
Uris == {v.uri : v \in Vocabularies}
EnabledSoFar == {given[i].uri : i \in {j \in DOMAIN given : given[j].op = "enable"}}

\* The state of the options, read from what was given.
Accumulated ==
  /\ given \in Seq(Option)
  /\ opts = [uris |-> opts.uris, custom |-> opts.custom, order |-> opts.order,
             tags |-> opts.tags, limit |-> opts.limit]
  /\ opts.uris = DOMAIN opts.custom \cup (EnabledSoFar \ BuiltInUris)
  /\ opts.custom = [uri \in {u \in Uris \ {""} : Registering(u) # {}} |->
                      given[LastOf(Registering(uri))].vocabulary]
  /\ opts.tags = [tag \in {t \in Tags : Listing(t) # {}} |->
                    given[LastOf(Listing(tag))].vocabulary.uri]

-------------------------------------------------------------------------------
\* A set of positions that is not empty has a last one.
LEMMA LastFound ==
  ASSUME NEW n \in Nat, NEW S, S \subseteq 1..n, S # {}
  PROVE  LastOf(S) \in S /\ \A j \in S : j <= LastOf(S)
<1> DEFINE T == {k \in Nat : n - k \in S}
<1>1. T \subseteq Nat /\ T # {}
  <2>1. PICK i \in S : i \in 1..n
    OBVIOUS
  <2>2. n - i \in Nat /\ n - (n - i) = i
    BY <2>1
  <2> QED
    BY <2>2
<1>2. IsWellFoundedOn(OpToRel(<, Nat), Nat)
  BY NatLessThanWellFounded
<1>3. PICK m \in T : \A k \in T : ~(<<k, m>> \in OpToRel(<, Nat))
  <2> HIDE DEF T
  <2> QED
    BY <1>1, <1>2, WFMin
<1>4. PICK i \in S : m = n - i /\ i \in Nat /\ m \in Nat
  <2>1. n - m \in S /\ n - m \in 1..n /\ m \in Nat
    BY <1>3
  <2>2. m = n - (n - m) /\ n - m \in Nat
    BY <2>1
  <2> QED
    BY <2>1, <2>2
<1>5. ASSUME NEW j \in S PROVE j <= i
  <2>1. j \in Nat /\ n - j \in Nat /\ n - (n - j) = j
    <3>1. j \in 1..n
      OBVIOUS
    <3> QED
      BY <3>1
  <2>1a. n - j \in T
    BY <2>1
  <2>2. ~(n - j < m)
    BY <1>3, <1>4, <2>1, <2>1a DEF OpToRel
  <2> QED
    BY <1>4, <2>1, <2>2
<1> QED
  BY <1>4, <1>5 DEF LastOf

\* The position that comes last is the last one; without it nothing changes.
LEMMA LastAdded ==
  ASSUME NEW n \in Nat, NEW S, S \subseteq 1..n
  PROVE  LastOf(S \cup {n + 1}) = n + 1
<1> DEFINE R == S \cup {n + 1}
<1>1. R \subseteq 1..(n + 1) /\ R # {} /\ n + 1 \in R
  OBVIOUS
<1> HIDE DEF R
<1>2. n + 1 \in Nat
  OBVIOUS
<1>3. LastOf(R) \in R /\ \A j \in R : j <= LastOf(R)
  BY <1>1, <1>2, LastFound
<1>4. LastOf(R) \in 1..(n + 1) /\ n + 1 <= LastOf(R)
  BY <1>1, <1>3
<1>5. LastOf(R) = n + 1
  BY <1>4
<1> QED
  BY <1>5 DEF R

\* One option more.
LEMMA Appended ==
  ASSUME given \in Seq(Option), NEW option \in Option, given' = Append(given, option)
  PROVE  /\ given' \in Seq(Option)
         /\ Len(given) \in Nat
         /\ DOMAIN given = 1..Len(given)
         /\ DOMAIN given' = 1..(Len(given) + 1)
         /\ given'[Len(given) + 1] = option
         /\ \A i \in DOMAIN given : given'[i] = given[i]
OBVIOUS

\* An option that uses no vocabulary leaves the uses.
LEMMA NotUsed ==
  ASSUME given \in Seq(Option), NEW option \in Option, given' = Append(given, option),
         option.op # "use"
  PROVE  /\ \A t : Listing(t)' = Listing(t)
         /\ \A u : Registering(u)' = Registering(u)
<1>1. Uses' = Uses
  BY Appended DEF Uses
<1>2. \A i \in Uses : given'[i] = given[i]
  BY Appended DEF Uses
<1> QED
  BY <1>1, <1>2 DEF Listing, Registering

\* One that does is from then on the last use of what it lists and registers.
LEMMA Used ==
  ASSUME given \in Seq(Option), NEW v \in Vocabularies,
         given' = Append(given, [op |-> "use", vocabulary |-> v])
  PROVE  LET n == Len(given) IN
         /\ \A t : Listing(t)' = IF t \in Names(v) THEN Listing(t) \cup {n + 1}
                                 ELSE Listing(t)
         /\ \A u : Registering(u)' = IF u = v.uri THEN Registering(u) \cup {n + 1}
                                     ELSE Registering(u)
<1> DEFINE option == [op |-> "use", vocabulary |-> v]
<1>1. option \in Option
  BY DEF Option
<1>2. /\ Len(given) \in Nat
      /\ DOMAIN given = 1..Len(given)
      /\ DOMAIN given' = 1..(Len(given) + 1)
      /\ given'[Len(given) + 1] = option
      /\ \A i \in DOMAIN given : given'[i] = given[i]
  BY <1>1, Appended
<1>3. Uses' = Uses \cup {Len(given) + 1} /\ Uses \subseteq DOMAIN given
  BY <1>2 DEF Uses
<1>4. given'[Len(given) + 1].vocabulary = v /\ \A i \in Uses : given'[i] = given[i]
  BY <1>2, <1>3
<1> HIDE DEF option
<1> QED
  BY <1>3, <1>4 DEF Listing, Registering

-------------------------------------------------------------------------------
\* The positions that list a tag or register a uri are of the past.
LEMMA Past ==
  ASSUME given \in Seq(Option)
  PROVE  /\ \A t : Listing(t) \subseteq 1..Len(given)
         /\ \A u : Registering(u) \subseteq 1..Len(given)
         /\ Len(given) \in Nat
         /\ \A i \in Uses : given[i].vocabulary \in Vocabularies
<1>1. DOMAIN given = 1..Len(given) /\ \A i \in 1..Len(given) : given[i] \in Option
  OBVIOUS
<1>2. \A i \in Uses : given[i].vocabulary \in Vocabularies
  BY <1>1 DEF Uses, Option
<1> QED
  BY <1>1, <1>2 DEF Listing, Registering, Uses

LEMMA InitAccumulated ==
  OptionsInit => Accumulated
<1> SUFFICES ASSUME OptionsInit PROVE Accumulated
  OBVIOUS
<1>1. given = << >> /\ opts = NoOptions
  BY DEF OptionsInit
<1>2. DOMAIN given = {} /\ given \in Seq(Option)
  BY <1>1
<1>3. (\A t : Listing(t) = {}) /\ (\A u : Registering(u) = {}) /\ EnabledSoFar = {}
  BY <1>2 DEF Listing, Registering, Uses, EnabledSoFar
<1>4. DOMAIN opts.custom = {} /\ DOMAIN opts.tags = {}
  BY <1>1 DEF NoOptions
<1>5. /\ opts.custom = [uri \in {} |-> given[LastOf(Registering(uri))].vocabulary]
      /\ opts.tags = [tag \in {} |-> given[LastOf(Listing(tag))].vocabulary.uri]
  BY <1>1 DEF NoOptions
<1> QED
  BY <1>1, <1>2, <1>3, <1>4, <1>5 DEF Accumulated, NoOptions

\* An option that uses no vocabulary leaves what is registered and listed.
LEMMA NotUsedKeeps ==
  ASSUME Accumulated, NEW option \in Option, given' = Append(given, option),
         option.op # "use", opts'.custom = opts.custom, opts'.tags = opts.tags
  PROVE  /\ given' \in Seq(Option)
         /\ opts'.custom = [uri \in {u \in Uris \ {""} : Registering(u)' # {}} |->
                              given'[LastOf(Registering(uri)')].vocabulary]
         /\ opts'.tags = [tag \in {t \in Tags : Listing(t)' # {}} |->
                            given'[LastOf(Listing(tag)')].vocabulary.uri]
<1>1. /\ given \in Seq(Option)
      /\ opts.custom = [uri \in {u \in Uris \ {""} : Registering(u) # {}} |->
                          given[LastOf(Registering(uri))].vocabulary]
      /\ opts.tags = [tag \in {t \in Tags : Listing(t) # {}} |->
                        given[LastOf(Listing(tag))].vocabulary.uri]
  BY DEF Accumulated
<1>2. /\ \A t : Listing(t)' = Listing(t)
      /\ \A u : Registering(u)' = Registering(u)
  BY <1>1, NotUsed
<1>3. /\ given' \in Seq(Option) /\ DOMAIN given = 1..Len(given)
      /\ \A i \in DOMAIN given : given'[i] = given[i]
  BY <1>1, Appended
<1>4. ASSUME NEW t, Listing(t) # {} PROVE given'[LastOf(Listing(t))] = given[LastOf(Listing(t))]
  BY <1>1, <1>3, <1>4, Past, LastFound
<1>5. ASSUME NEW u, Registering(u) # {}
      PROVE  given'[LastOf(Registering(u))] = given[LastOf(Registering(u))]
  BY <1>1, <1>3, <1>5, Past, LastFound
<1> QED
  BY <1>1, <1>2, <1>3, <1>4, <1>5

LEMMA EnableStep ==
  ASSUME Accumulated, NEW uri \in Enabled,
         given' = Append(given, [op |-> "enable", uri |-> uri]),
         opts' = EnableVocabularies(uri)
  PROVE  Accumulated'
<1> DEFINE option == [op |-> "enable", uri |-> uri]
<1>1. option \in Option /\ option.op = "enable" /\ option.uri = uri
  BY DEF Option
<1>2. given \in Seq(Option) /\ opts.uris = DOMAIN opts.custom \cup (EnabledSoFar \ BuiltInUris)
  BY DEF Accumulated
<1>3. /\ opts' = [uris |-> opts'.uris, custom |-> opts'.custom, order |-> opts'.order,
                  tags |-> opts'.tags, limit |-> opts'.limit]
      /\ opts'.uris = IF uri \in BuiltInUris THEN opts.uris ELSE opts.uris \cup {uri}
      /\ opts'.custom = opts.custom /\ opts'.tags = opts.tags
  BY DEF Accumulated, EnableVocabularies
<1>4. /\ DOMAIN given = 1..Len(given) /\ Len(given) \in Nat
      /\ DOMAIN given' = 1..(Len(given) + 1)
      /\ given'[Len(given) + 1] = option
      /\ \A i \in DOMAIN given : given'[i] = given[i]
  BY <1>1, <1>2, Appended
<1> HIDE DEF option
<1>5. EnabledSoFar' = EnabledSoFar \cup {uri}
  <2>1. DOMAIN given' = DOMAIN given \cup {Len(given) + 1}
    BY <1>4
  <2> QED
    BY <1>1, <1>4, <2>1 DEF EnabledSoFar
<1>6. opts'.uris = DOMAIN opts'.custom \cup (EnabledSoFar' \ BuiltInUris)
  BY <1>2, <1>3, <1>5
<1> QED
  BY <1>1, <1>3, <1>6, NotUsedKeeps DEF Accumulated, option

LEMMA DepthStep ==
  ASSUME Accumulated, NEW limit \in Limits,
         given' = Append(given, [op |-> "depth", limit |-> limit]),
         opts' = MaxNestingDepth(limit)
  PROVE  Accumulated'
<1> DEFINE option == [op |-> "depth", limit |-> limit]
<1>1. option \in Option /\ option.op = "depth"
  BY DEF Option
<1>2. given \in Seq(Option) /\ opts.uris = DOMAIN opts.custom \cup (EnabledSoFar \ BuiltInUris)
  BY DEF Accumulated
<1>3. /\ opts' = [uris |-> opts'.uris, custom |-> opts'.custom, order |-> opts'.order,
                  tags |-> opts'.tags, limit |-> opts'.limit]
      /\ opts'.uris = opts.uris /\ opts'.custom = opts.custom /\ opts'.tags = opts.tags
  BY DEF Accumulated, MaxNestingDepth
<1>4. /\ DOMAIN given = 1..Len(given) /\ Len(given) \in Nat
      /\ DOMAIN given' = 1..(Len(given) + 1)
      /\ given'[Len(given) + 1] = option
      /\ \A i \in DOMAIN given : given'[i] = given[i]
  BY <1>1, <1>2, Appended
<1> HIDE DEF option
<1>5. EnabledSoFar' = EnabledSoFar
  <2>1. DOMAIN given' = DOMAIN given \cup {Len(given) + 1}
    BY <1>4
  <2> QED
    BY <1>1, <1>4, <2>1 DEF EnabledSoFar
<1> QED
  BY <1>1, <1>2, <1>3, <1>5, NotUsedKeeps DEF Accumulated, option

\* The vocabulary is registered under its uri, unless that is empty, and its
\* tags point to it, whoever they pointed to before.
LEMMA UseStep ==
  ASSUME Accumulated, NEW v \in Vocabularies,
         given' = Append(given, [op |-> "use", vocabulary |-> v]),
         opts' = UseCustomVocabulary(v)
  PROVE  Accumulated'
<1> DEFINE option == [op |-> "use", vocabulary |-> v]
           last == Len(given) + 1
<1>1. option \in Option /\ option.op = "use" /\ option.vocabulary = v
  BY DEF Option
<1>2. /\ given \in Seq(Option)
      /\ opts.uris = DOMAIN opts.custom \cup (EnabledSoFar \ BuiltInUris)
      /\ opts.custom = [uri \in {u \in Uris \ {""} : Registering(u) # {}} |->
                          given[LastOf(Registering(uri))].vocabulary]
      /\ opts.tags = [tag \in {t \in Tags : Listing(t) # {}} |->
                        given[LastOf(Listing(tag))].vocabulary.uri]
  BY DEF Accumulated
<1>3. /\ opts' = [uris |-> opts'.uris, custom |-> opts'.custom, order |-> opts'.order,
                  tags |-> opts'.tags, limit |-> opts'.limit]
      /\ opts'.uris = IF v.uri = "" THEN opts.uris ELSE opts.uris \cup {v.uri}
      /\ opts'.custom = IF v.uri = "" THEN opts.custom
                        ELSE [uri \in DOMAIN opts.custom \cup {v.uri} |->
                                IF uri = v.uri THEN v ELSE opts.custom[uri]]
      /\ opts'.tags = Pointed(v)
  <2>1. opts = [uris |-> opts.uris, custom |-> opts.custom, order |-> opts.order,
                tags |-> opts.tags, limit |-> opts.limit]
    BY DEF Accumulated
  <2>2. CASE v.uri = ""
    BY <2>1, <2>2 DEF UseCustomVocabulary, Registered
  <2>3. CASE v.uri # ""
    BY <2>1, <2>3 DEF UseCustomVocabulary, Registered
  <2> QED
    BY <2>2, <2>3
<1>4. /\ given' \in Seq(Option)
      /\ DOMAIN given = 1..Len(given) /\ Len(given) \in Nat
      /\ DOMAIN given' = 1..last
      /\ given'[last] = option
      /\ \A i \in DOMAIN given : given'[i] = given[i]
  BY <1>1, <1>2, Appended
<1>5. /\ \A t : Listing(t)' = IF t \in Names(v) THEN Listing(t) \cup {last} ELSE Listing(t)
      /\ \A u : Registering(u)' = IF u = v.uri THEN Registering(u) \cup {last}
                                  ELSE Registering(u)
  BY <1>2, Used
<1>6. /\ \A t : Listing(t) \subseteq 1..Len(given)
      /\ \A u : Registering(u) \subseteq 1..Len(given)
  BY <1>2, Past
<1> HIDE DEF option
<1>7. EnabledSoFar' = EnabledSoFar
  <2>1. DOMAIN given' = DOMAIN given \cup {last}
    BY <1>4
  <2> QED
    BY <1>1, <1>4, <2>1 DEF EnabledSoFar
<1>8. opts'.uris = DOMAIN opts'.custom \cup (EnabledSoFar' \ BuiltInUris)
  BY <1>2, <1>3, <1>7
<1> HIDE DEF last
\* A tag that the vocabulary lists is its own, any other stays as it was.
<1>9. /\ \A t : t \in Names(v) => given'[LastOf(Listing(t)')] = option
      /\ \A t : t \notin Names(v) /\ Listing(t) # {} =>
                  given'[LastOf(Listing(t)')] = given[LastOf(Listing(t))]
  <2>1. ASSUME NEW t, t \in Names(v) PROVE given'[LastOf(Listing(t)')] = option
    <3>1. Listing(t)' = Listing(t) \cup {last}
      BY <1>5, <2>1
    <3>2. LastOf(Listing(t) \cup {last}) = last
      BY <1>4, <1>6, LastAdded DEF last
    <3> QED
      BY <1>4, <3>1, <3>2
  <2>2. ASSUME NEW t, t \notin Names(v), Listing(t) # {}
        PROVE  given'[LastOf(Listing(t)')] = given[LastOf(Listing(t))]
    <3>1. Listing(t)' = Listing(t)
      BY <1>5, <2>2
    <3>2. LastOf(Listing(t)) \in DOMAIN given
      BY <1>4, <1>6, <2>2, LastFound
    <3> QED
      BY <1>4, <3>1, <3>2
  <2> QED
    BY <2>1, <2>2
<1>10. opts'.tags = [tag \in {t \in Tags : Listing(t)' # {}} |->
                       given'[LastOf(Listing(tag)')].vocabulary.uri]
  <2>1. {t \in Tags : Listing(t)' # {}} = {t \in Tags : Listing(t) # {}} \cup Names(v)
    BY <1>5 DEF Tags
  <2>2. ASSUME NEW t \in {s \in Tags : Listing(s) # {}} \cup Names(v)
        PROVE  Pointed(v)[t] = given'[LastOf(Listing(t)')].vocabulary.uri
    <3>1. CASE t \in Names(v)
      BY <1>1, <1>9, <3>1 DEF Pointed
    <3>2. CASE t \notin Names(v)
      <4>1. t \in Tags /\ Listing(t) # {}
        BY <3>2
      <4>2. Pointed(v)[t] = opts.tags[t]
        BY <1>2, <3>2, <4>1 DEF Pointed
      <4>3. opts.tags[t] = given[LastOf(Listing(t))].vocabulary.uri
        BY <1>2, <4>1
      <4>4. given'[LastOf(Listing(t)')] = given[LastOf(Listing(t))]
        BY <1>9, <3>2, <4>1
      <4> QED
        BY <4>2, <4>3, <4>4
    <3> QED
      BY <3>1, <3>2
  <2>3. DOMAIN Pointed(v) = {t \in Tags : Listing(t) # {}} \cup Names(v)
    BY <1>2 DEF Pointed
  <2>4. Pointed(v) = [t \in DOMAIN Pointed(v) |-> Pointed(v)[t]]
    BY DEF Pointed
  <2> QED
    BY <1>3, <2>1, <2>2, <2>3, <2>4
\* So it is with the uris, but the empty one.
<1>11. /\ given'[LastOf(Registering(v.uri)')] = option
       /\ \A u : u # v.uri /\ Registering(u) # {} =>
                   given'[LastOf(Registering(u)')] = given[LastOf(Registering(u))]
  <2>1. given'[LastOf(Registering(v.uri)')] = option
    <3>1. Registering(v.uri)' = Registering(v.uri) \cup {last}
      BY <1>5
    <3>2. LastOf(Registering(v.uri) \cup {last}) = last
      BY <1>4, <1>6, LastAdded DEF last
    <3> QED
      BY <1>4, <3>1, <3>2
  <2>2. ASSUME NEW u, u # v.uri, Registering(u) # {}
        PROVE  given'[LastOf(Registering(u)')] = given[LastOf(Registering(u))]
    <3>1. Registering(u)' = Registering(u)
      BY <1>5, <2>2
    <3>2. LastOf(Registering(u)) \in DOMAIN given
      BY <1>4, <1>6, <2>2, LastFound
    <3> QED
      BY <1>4, <3>1, <3>2
  <2> QED
    BY <2>1, <2>2
<1>12. opts'.custom = [uri \in {u \in Uris \ {""} : Registering(u)' # {}} |->
                         given'[LastOf(Registering(uri)')].vocabulary]
  <2> DEFINE before == {u \in Uris \ {""} : Registering(u) # {}}
             after == {u \in Uris \ {""} : Registering(u)' # {}}
  <2>1. CASE v.uri = ""
    <3>1. after = before
      BY <1>5, <2>1
    <3>2. \A u \in before : given'[LastOf(Registering(u)')] = given[LastOf(Registering(u))]
      BY <1>11, <2>1
    <3>3. opts'.custom = [uri \in before |-> given[LastOf(Registering(uri))].vocabulary]
      BY <1>2, <1>3, <2>1
    <3> QED
      BY <3>1, <3>2, <3>3
  <2>2. CASE v.uri # ""
    <3>1. after = before \cup {v.uri}
      BY <1>5, <2>2 DEF Uris
    <3>2. opts'.custom = [uri \in before \cup {v.uri} |->
                            IF uri = v.uri THEN v ELSE opts.custom[uri]]
      BY <1>2, <1>3, <2>2
    <3>3. ASSUME NEW u \in before \cup {v.uri}
          PROVE  (IF u = v.uri THEN v ELSE opts.custom[u])
                   = given'[LastOf(Registering(u)')].vocabulary
      <4>1. CASE u = v.uri
        BY <1>1, <1>11, <4>1
      <4>2. CASE u # v.uri
        <5>1. u \in before
          BY <4>2
        <5>2. opts.custom[u] = given[LastOf(Registering(u))].vocabulary
          BY <1>2, <5>1
        <5>3. given'[LastOf(Registering(u)')] = given[LastOf(Registering(u))]
          BY <1>11, <4>2, <5>1
        <5> QED
          BY <4>2, <5>2, <5>3
      <4> QED
        BY <4>1, <4>2
    <3>4. opts'.custom = [u \in before \cup {v.uri} |->
                            given'[LastOf(Registering(u)')].vocabulary]
      <4> HIDE DEF before
      <4> QED
        BY <3>2, <3>3
    <3> HIDE DEF before
    <3> QED
      BY <3>1, <3>4
  <2> QED
    BY <2>1, <2>2
<1> QED
  BY <1>3, <1>4, <1>8, <1>10, <1>12 DEF Accumulated

LEMMA StepAccumulated ==
  Accumulated /\ [GiveOption]_<<given, opts>> => Accumulated'
<1> SUFFICES ASSUME Accumulated, [GiveOption]_<<given, opts>> PROVE Accumulated'
  OBVIOUS
<1>1. CASE UNCHANGED <<given, opts>>
  <2>1. EnabledSoFar' = EnabledSoFar /\ Uses' = Uses
    BY <1>1 DEF EnabledSoFar, Uses
  <2>2. (\A t : Listing(t)' = Listing(t)) /\ (\A u : Registering(u)' = Registering(u))
    BY <1>1, <2>1 DEF Registering, Listing
  <2> QED
    BY <1>1, <2>1, <2>2 DEF Accumulated
<1>2. CASE GiveOption
  <2>1. ASSUME NEW uri \in Enabled,
               Give([op |-> "enable", uri |-> uri], EnableVocabularies(uri))
        PROVE  Accumulated'
    BY <2>1, EnableStep DEF Give
  <2>2. ASSUME NEW v \in Vocabularies,
               Give([op |-> "use", vocabulary |-> v], UseCustomVocabulary(v))
        PROVE  Accumulated'
    BY <2>2, UseStep DEF Give
  <2>3. ASSUME NEW limit \in Limits,
               Give([op |-> "depth", limit |-> limit], MaxNestingDepth(limit))
        PROVE  Accumulated'
    BY <2>3, DepthStep DEF Give
  <2> QED
    BY <1>2, <2>1, <2>2, <2>3 DEF GiveOption
<1> QED
  BY <1>1, <1>2

-------------------------------------------------------------------------------
LEMMA AccumulatedExact ==
  Accumulated => OptionsExact
<1> SUFFICES ASSUME Accumulated PROVE OptionsExact
  OBVIOUS
<1>1. /\ given \in Seq(Option)
      /\ opts.uris = DOMAIN opts.custom \cup (EnabledSoFar \ BuiltInUris)
      /\ opts.custom = [uri \in {u \in Uris \ {""} : Registering(u) # {}} |->
                          given[LastOf(Registering(uri))].vocabulary]
      /\ opts.tags = [tag \in {t \in Tags : Listing(t) # {}} |->
                        given[LastOf(Listing(tag))].vocabulary.uri]
  BY DEF Accumulated
<1>2. /\ \A t : Listing(t) \subseteq Uses
      /\ \A i \in Uses : given[i].vocabulary \in Vocabularies
      /\ \A i \in Uses : i \in Registering(given[i].vocabulary.uri)
  BY <1>1, Past DEF Listing, Registering
<1>3. ServedByLast
  <2> SUFFICES ASSUME NEW t \in Tags
               PROVE  IF Listing(t) = {} THEN t \notin DOMAIN opts.tags
                      ELSE LET uri == given[LastOf(Listing(t))].vocabulary.uri
                           IN  /\ opts.tags[t] = uri
                               /\ uri # "" => opts.custom[uri] =
                                                given[LastOf(Registering(uri))].vocabulary
    BY DEF ServedByLast, Tags
  <2>1. CASE Listing(t) = {}
    BY <1>1, <2>1
  <2>2. CASE Listing(t) # {}
    <3> DEFINE i == LastOf(Listing(t))
               uri == given[i].vocabulary.uri
    <3>1. i \in Listing(t)
      BY <1>1, <2>2, Past, LastFound
    <3>2. i \in Uses /\ given[i].vocabulary \in Vocabularies /\ i \in Registering(uri)
      BY <1>2, <3>1
    <3>3. uri \in Uris
      BY <3>2 DEF Uris
    <3>4. opts.tags[t] = uri
      BY <1>1, <2>2
    <3>5. uri # "" => opts.custom[uri] = given[LastOf(Registering(uri))].vocabulary
      BY <1>1, <3>2, <3>3
    <3> QED
      BY <2>2, <3>4, <3>5
  <2> QED
    BY <2>1, <2>2
<1>4. EnabledSoFar \subseteq Enabled
  <2>1. DOMAIN given = 1..Len(given) /\ \A i \in 1..Len(given) : given[i] \in Option
    <3>1. given \in Seq(Option)
      BY <1>1
    <3> QED
      BY <3>1
  <2>2. \A i \in DOMAIN given : given[i].op = "enable" => given[i].uri \in Enabled
    BY <2>1 DEF Option
  <2> QED
    BY <2>2 DEF EnabledSoFar
<1>5. ASSUME NEW uri PROVE Registering(uri) # {} => uri \in Uris
  BY <1>2 DEF Registering, Uris
<1> DEFINE unknown == {uri \in Enabled \ BuiltInUris : uri = "" \/ Registering(uri) = {}}
<1>6. ASSUME NEW uri \in Enabled
      PROVE  uri \in unknown <=> ~SupportsVocabulary(uri)
  BY <1>1, <1>5 DEF SupportsVocabulary
<1>7. ValidateVocabularies <=> EnabledSoFar \cap unknown = {}
  BY <1>1, <1>4, <1>6 DEF ValidateVocabularies, SupportsVocabulary
<1>8. ProfileRejected([uri \in Enabled |-> uri \in EnabledSoFar]) <=> ~ValidateVocabularies
  <2>1. ProfileRejected([uri \in Enabled |-> uri \in EnabledSoFar])
          <=> \E uri \in Enabled : uri \in EnabledSoFar /\ ~SupportsVocabulary(uri)
    BY DEF ProfileRejected
  <2> QED
    BY <1>4, <1>6, <1>7, <2>1
<1>9. UnknownRejected
  BY <1>7, <1>8 DEF UnknownRejected, EnabledSoFar
<1> QED
  BY <1>3, <1>9 DEF OptionsExact

\* Whatever options a call is given, in whatever order: a tag is read by the
\* last registration of the vocabulary that listed it last, and the call is
\* rejected exactly for a vocabulary that was enabled and that nobody brought.
THEOREM Exact ==
  OptionsSpec => []OptionsExact
<1>1. OptionsSpec => []Accumulated
  BY InitAccumulated, StepAccumulated, PTL DEF OptionsSpec
<1> QED
  BY <1>1, AccumulatedExact, PTL
================================================================================
