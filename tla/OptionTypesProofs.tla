------------------------- MODULE OptionTypesProofs --------------------------
(***************************************************************************)
(* The two properties of OptionTypes hold for any set of options, any      *)
(* numbers and any width of integers.  The invariant follows one option's  *)
(* value from border to border.                                            *)
(***************************************************************************)
EXTENDS OptionTypes, TLAPS

(* What a user can set and cannot get.                                     *)
Unobtainable(o) ==
  /\ wish[o] # Leave
  /\ \/ declared[o].def.type = "d" /\ wish[o] = Word
     \/ declared[o].def.type = "x" /\ ~FitsInt64(wish[o])

DeclaredInv ==
  /\ stage \in {"list", "configure", "create", "new", "running",
               "refused"}
  /\ \A o \in Option : declared[o].def \in Defaults

ManifestInv ==
  stage # "list" => \A o \in Option : manifest[o] = OptionFrom(declared[o])

(* The loader has sent the wishes, each in a form its parameter allows.    *)
SentInv ==
  stage = "create" =>
    /\ DOMAIN options \subseteq Option
    /\ \A o \in Option \ DOMAIN options : wish[o] = Leave
    /\ \A o \in DOMAIN options :
         \/ wish[o] = Leave /\ options[o] \in Unedited(o)
         \/ options[o].v = wish[o] /\ options[o] \in Edits(o)

(* What reaches the bridge becomes a value of the declared type that is    *)
(* the one wanted, or of another type for a wish that cannot be granted.   *)
Arrives(o) ==
  LET g == JsonToGvariant(options[o])
  IN /\ g # NoVariant
     /\ \/ g = Wanted(o)
        \/ g.type # declared[o].def.type /\ Unobtainable(o)

CoercedInv ==
  stage = "new" =>
    /\ DOMAIN options \subseteq Option
    /\ \A o \in Option \ DOMAIN options : wish[o] = Leave
    /\ \A o \in DOMAIN options : Arrives(o)

IInv ==
  /\ DeclaredInv
  /\ ManifestInv
  /\ SentInv
  /\ CoercedInv
  /\ SettingsAreHonoured
  /\ GoodSettingsAccepted

-----------------------------------------------------------------------------
(* A default has one of the three types, and a value that suits it.        *)
LEMMA DefaultForms ==
  ASSUME NEW g \in Defaults
  PROVE  \/ g = GVariant("s", g.v) /\ g.type = "s" /\ g.v \in Number \cup {Word}
         \/ g = GVariant("x", g.v) /\ g.type = "x" /\ FitsInt64(g.v)
         \/ g = GVariant("d", g.v) /\ g.type = "d" /\ g.v \in Number
BY DEF Defaults, GVariant

(* The parts of the values the borders take apart.                         *)
LEMMA Parts ==
  ASSUME NEW a, NEW v
  PROVE  /\ Json(a, v).form = a /\ Json(a, v).v = v
         /\ GVariant(a, v).type = a /\ GVariant(a, v).v = v
BY DEF Json, GVariant

(* What each form of JSON value becomes.                                   *)
LEMMA FromJson ==
  ASSUME NEW v
  PROVE  /\ JsonToGvariant(Json("string", v)) = GVariant("s", v)
         /\ FitsInt64(v) => JsonToGvariant(Json("int", v)) = GVariant("x", v)
         /\ ~FitsInt64(v) => JsonToGvariant(Json("int", v)) = GVariant("d", v)
         /\ JsonToGvariant(Json("float", v)) = GVariant("d", v)
<1>1. JsonToGvariant(Json("string", v)) = GVariant("s", v)
  BY Parts DEF JsonToGvariant
<1>2. JsonToGvariant(Json("float", v)) = GVariant("d", v)
  BY Parts DEF JsonToGvariant
<1>3. FitsInt64(v) => JsonToGvariant(Json("int", v)) = GVariant("x", v)
  BY Parts DEF JsonToGvariant
<1>4. ~FitsInt64(v) => JsonToGvariant(Json("int", v)) = GVariant("d", v)
  BY Parts DEF JsonToGvariant
<1> QED BY <1>1, <1>2, <1>3, <1>4

(* A default sent back in any of its forms arrives as it was declared.     *)
LEMMA UneditedArrives ==
  ASSUME NEW o \in Option, NEW json,
         declared[o].def \in Defaults,
         manifest[o] = OptionFrom(declared[o]),
         json \in Unedited(o)
  PROVE  JsonToGvariant(Coerced(o, json)) = declared[o].def
<1> DEFINE g == declared[o].def
<1>1. CASE g = GVariant("s", g.v) /\ g.type = "s"
  <2>1. manifest[o].kind # "Float" /\ manifest[o].default = Json("string", g.v)
    BY <1>1 DEF OptionFrom, OptionKind, IntTypes, GvariantToJson
  <2>2. json = Json("string", g.v)
    BY <2>1, Parts DEF Unedited
  <2>3. Coerced(o, json) = json
    BY <2>1 DEF Coerced
  <2> QED BY <1>1, <2>2, <2>3, FromJson
<1>2. CASE g = GVariant("x", g.v) /\ g.type = "x" /\ FitsInt64(g.v)
  <2>1. manifest[o].kind = "Int" /\ manifest[o].default = Json("int", g.v)
    BY <1>2 DEF OptionFrom, OptionKind, IntTypes, GvariantToJson
  <2>2. json = Json("int", g.v)
    BY <2>1 DEF Unedited, ParameterKind
  <2>3. Coerced(o, json) = json
    BY <2>1 DEF Coerced
  <2> QED BY <1>2, <2>2, <2>3, FromJson
<1>3. CASE g = GVariant("d", g.v) /\ g.type = "d" /\ g.v \in Number
  <2>1. manifest[o].kind = "Float" /\ manifest[o].default = Json("float", g.v)
    BY <1>3 DEF OptionFrom, OptionKind, IntTypes, GvariantToJson
  <2>2. json = Json("float", g.v) \/ json = Json("string", g.v)
    BY <2>1, Parts DEF Unedited
  <2>3. Coerced(o, json) = Json("float", g.v)
    BY <1>3, <2>1, <2>2, Parts DEF Coerced, ParsesAsFloat
  <2> QED BY <1>3, <2>3, FromJson
<1> QED BY <1>1, <1>2, <1>3, DefaultForms

(* A value the user set arrives as wanted, or cannot be granted.           *)
LEMMA EditArrives ==
  ASSUME NEW o \in Option, NEW json,
         declared[o].def \in Defaults,
         manifest[o] = OptionFrom(declared[o]),
         json \in Edits(o)
  PROVE  LET type == declared[o].def.type
             g == JsonToGvariant(Coerced(o, json))
         IN /\ json.v \in Number \cup {Word}
            /\ g.type # "none"
            /\ \/ g = GVariant(type, json.v)
               \/ /\ g.type # type
                  /\ \/ type = "d" /\ json.v = Word
                     \/ type = "x" /\ ~FitsInt64(json.v)
<1> DEFINE type == declared[o].def.type
           g == JsonToGvariant(Coerced(o, json))
<1>1. CASE type = "s"
  <2>1. manifest[o].kind \in {"String", "Enum"}
    BY <1>1 DEF OptionFrom, OptionKind, IntTypes
  <2>2. PICK v \in Number \cup {Word} : json = Json("string", v)
    BY <2>1 DEF Edits, ParameterKind
  <2>3. Coerced(o, json) = json
    BY <2>1 DEF Coerced
  <2>4. g = GVariant("s", v) /\ g.type = "s" /\ json.v = v
    BY <2>2, <2>3, FromJson, Parts
  <2> QED BY <1>1, <2>4
<1>2. CASE type = "x"
  <2>1. manifest[o].kind = "Int"
    BY <1>2 DEF OptionFrom, OptionKind, IntTypes
  <2>2. PICK n \in Whole : json = Json("int", n)
    BY <2>1 DEF Edits, ParameterKind
  <2>3. Coerced(o, json) = json /\ json.v = n /\ n \in Number
    BY <2>1, <2>2, Parts DEF Coerced, Whole
  <2>4. CASE FitsInt64(n)
    <3>1. g = GVariant("x", n) /\ g.type = "x"
      BY <2>2, <2>3, <2>4, FromJson, Parts
    <3> QED BY <1>2, <2>3, <3>1
  <2>5. CASE ~FitsInt64(n)
    <3>1. g.type = "d"
      BY <2>2, <2>3, <2>5, FromJson, Parts
    <3> QED BY <1>2, <2>3, <2>5, <3>1
  <2> QED BY <2>4, <2>5
<1>3. CASE type = "d"
  <2>1. manifest[o].kind = "Float"
    BY <1>3 DEF OptionFrom, OptionKind, IntTypes
  <2>2. PICK v \in Number \cup {Word} : json = Json("string", v)
    BY <2>1 DEF Edits, ParameterKind
  <2>3. json.v = v
    BY <2>2, Parts
  <2>4. CASE v \in Number
    <3>1. Coerced(o, json) = Json("float", v)
      BY <2>1, <2>2, <2>4, Parts DEF Coerced, ParsesAsFloat
    <3>2. g = GVariant("d", v) /\ g.type = "d"
      BY <3>1, FromJson, Parts
    <3> QED BY <1>3, <2>3, <3>2
  <2>5. CASE v = Word
    <3>1. Coerced(o, json) = json
      BY <2>3, <2>5, WordAssumption DEF Coerced, ParsesAsFloat
    <3>2. g.type = "s"
      BY <2>2, <3>1, FromJson, Parts
    <3> QED BY <1>3, <2>3, <2>5, <3>2
  <2> QED BY <2>4, <2>5
<1> QED BY <1>1, <1>2, <1>3, DefaultForms

-----------------------------------------------------------------------------
(* Nothing is set, nothing runs and nothing is refused at the start.       *)
LEMMA InitInv == Init => IInv
<1> SUFFICES ASSUME Init PROVE IInv
  OBVIOUS
<1>1. DeclaredInv
  BY DEF Init, DeclaredInv
<1> QED BY <1>1 DEF Init, IInv, ManifestInv, SentInv, CoercedInv,
        SettingsAreHonoured, GoodSettingsAccepted

(* Each step hands on what the next border relies on.                      *)
LEMMA NextInv == IInv /\ [Next]_vars => IInv'
<1> SUFFICES ASSUME IInv, [Next]_vars PROVE IInv'
  OBVIOUS
<1> USE DEF IInv
<1>1. CASE ListDecoders
  <2>1. DeclaredInv' /\ ManifestInv'
    BY <1>1 DEF ListDecoders, DeclaredInv, ManifestInv
  <2> QED BY <1>1, <2>1 DEF ListDecoders, SentInv, CoercedInv,
          SettingsAreHonoured, GoodSettingsAccepted
<1>2. CASE Configure
  <2>1. DeclaredInv' /\ ManifestInv'
    BY <1>2 DEF Configure, DeclaredInv, ManifestInv
  <2>2. PICK sent \in SUBSET Option : \E edited \in SUBSET sent :
          /\ DOMAIN options' = sent
          /\ \A o \in edited : options'[o] \in Edits(o)
          /\ \A o \in sent \ edited : options'[o] \in Unedited(o)
          /\ wish' = [o \in Option |->
                        IF o \in edited THEN options'[o].v ELSE Leave]
    BY <1>2 DEF Configure
  <2>5. PICK edited \in SUBSET sent :
          /\ DOMAIN options' = sent
          /\ \A o \in edited : options'[o] \in Edits(o)
          /\ \A o \in sent \ edited : options'[o] \in Unedited(o)
          /\ wish' = [o \in Option |->
                        IF o \in edited THEN options'[o].v ELSE Leave]
    BY <2>2
  <2>3. \A o \in Option : Edits(o)' = Edits(o) /\ Unedited(o)' = Unedited(o)
    BY <1>2 DEF Configure, Edits, Unedited
  <2>4. SentInv'
    BY <2>5, <2>3 DEF SentInv
  <2> QED BY <1>2, <2>1, <2>4 DEF Configure, CoercedInv,
          SettingsAreHonoured, GoodSettingsAccepted
<1>3. CASE CreateInstance
  <2>1. DeclaredInv' /\ ManifestInv' /\ SentInv'
    BY <1>3 DEF CreateInstance, DeclaredInv, ManifestInv, SentInv
  <2>2. /\ DOMAIN options \subseteq Option
        /\ DOMAIN options' = DOMAIN options
        /\ \A o \in DOMAIN options : options'[o] = Coerced(o, options[o])
        /\ \A o \in Option \ DOMAIN options : wish[o] = Leave
        /\ wish' = wish /\ declared' = declared
    BY <1>3 DEF CreateInstance, CoerceFloatOptions, SentInv
  <2>3. ASSUME NEW o \in DOMAIN options
        PROVE  Arrives(o)'
    <3>1. /\ o \in Option
          /\ declared[o].def \in Defaults
          /\ manifest[o] = OptionFrom(declared[o])
      BY <1>3, <2>2 DEF CreateInstance, DeclaredInv, ManifestInv
    <3> DEFINE g == JsonToGvariant(Coerced(o, options[o]))
    <3>2. CASE wish[o] = Leave /\ options[o] \in Unedited(o)
      <4>1. g = declared[o].def
        BY <3>1, <3>2, UneditedArrives
      <4>2. g.type # "none"
        BY <3>1, <4>1, DefaultForms
      <4>3. g # NoVariant /\ g = Wanted(o)
        BY <3>2, <4>1, <4>2, Parts DEF NoVariant, Wanted
      <4> QED BY <2>2, <4>3 DEF Arrives, Wanted
    <3>3. CASE options[o].v = wish[o] /\ options[o] \in Edits(o)
      <4>1. /\ wish[o] \in Number \cup {Word}
            /\ g.type # "none"
            /\ \/ g = GVariant(declared[o].def.type, wish[o])
               \/ /\ g.type # declared[o].def.type
                  /\ \/ declared[o].def.type = "d" /\ wish[o] = Word
                     \/ declared[o].def.type = "x" /\ ~FitsInt64(wish[o])
        BY <3>1, <3>3, EditArrives
      <4>2. wish[o] # Leave /\ g # NoVariant
        BY <4>1, LeaveAssumption, Parts DEF NoVariant
      <4>3. \/ g = Wanted(o)
            \/ g.type # declared[o].def.type /\ Unobtainable(o)
        BY <4>1, <4>2 DEF Wanted, Unobtainable
      <4> QED BY <2>2, <4>2, <4>3 DEF Arrives, Wanted, Unobtainable
    <3> QED BY <1>3, <3>2, <3>3 DEF CreateInstance, SentInv
  <2>4. CoercedInv'
    BY <2>2, <2>3 DEF CoercedInv
  <2> QED BY <1>3, <2>1, <2>4 DEF CreateInstance,
          SettingsAreHonoured, GoodSettingsAccepted
<1>4. CASE CreateSession
  <2>1. DeclaredInv' /\ ManifestInv' /\ SentInv' /\ CoercedInv'
    BY <1>4 DEF CreateSession, DeclaredInv, ManifestInv, SentInv, CoercedInv
  <2> DEFINE table == BuildOptionsHash(options)
             values == InstanceOptions(table)
  <2>2. /\ DOMAIN table = DOMAIN options
        /\ DOMAIN options \subseteq Option
        /\ \A o \in DOMAIN options :
             Arrives(o) /\ table[o] = JsonToGvariant(options[o])
        /\ \A o \in Option \ DOMAIN options : wish[o] = Leave
    BY <1>4 DEF CreateSession, CoercedInv, Arrives, BuildOptionsHash
  <2>3. \A o \in Option :
          \/ values[o] = Wanted(o)
          \/ values[o].type # declared[o].def.type /\ Unobtainable(o)
    BY <2>2 DEF InstanceOptions, Arrives, Wanted
  <2>4. wish' = wish /\ declared' = declared
    BY <1>4 DEF CreateSession
  <2>5. CASE TypesMatch(values) /\ stage' = "running" /\ running' = values
    <3>1. \A o \in Option : running'[o] = Wanted(o)
      BY <2>3, <2>5 DEF TypesMatch
    <3>2. SettingsAreHonoured'
      BY <2>4, <3>1 DEF SettingsAreHonoured, Wanted
    <3> QED BY <2>1, <2>5, <3>2 DEF GoodSettingsAccepted
  <2>6. CASE ~TypesMatch(values) /\ stage' = "refused"
    <3>1. PICK o \in Option : values[o].type # declared[o].def.type
      BY <2>6 DEF TypesMatch
    <3>2. values[o] # Wanted(o)
      <4>1. declared[o].def = GVariant(declared[o].def.type, declared[o].def.v)
        BY DefaultForms DEF DeclaredInv
      <4> QED BY <3>1, <4>1, Parts DEF Wanted
    <3>3. Unobtainable(o)
      BY <2>3, <3>2
    <3>4. GoodSettingsAccepted'
      BY <2>4, <3>3 DEF GoodSettingsAccepted, Unobtainable
    <3> QED BY <2>1, <2>6, <3>4 DEF SettingsAreHonoured
  <2> QED BY <1>4, <2>5, <2>6 DEF CreateSession
<1>5. CASE UNCHANGED vars
  <2>1. /\ \A o \in Option :
             /\ Edits(o)' = Edits(o) /\ Unedited(o)' = Unedited(o)
             /\ Wanted(o)' = Wanted(o) /\ Arrives(o)' = Arrives(o)
        /\ UNCHANGED <<stage, declared, manifest, wish, options, running>>
    BY <1>5 DEF vars, Edits, Unedited, Wanted, Arrives, Unobtainable
  <2> QED BY <2>1 DEF DeclaredInv, ManifestInv, SentInv, CoercedInv,
          SettingsAreHonoured, GoodSettingsAccepted
<1> QED BY <1>1, <1>2, <1>3, <1>4, <1>5 DEF Next

-----------------------------------------------------------------------------
(* The invariant holds throughout.                                         *)
THEOREM OptionsInvariance == Spec => []IInv
BY InitInv, NextInv, PTL DEF Spec

(* What runs is what the user set, or the decoder declared, for any        *)
(* options (srd.rs:617-674, registry.rs:180-199).                          *)
THEOREM OptionsHonoured == Spec => []SettingsAreHonoured
<1>1. IInv => SettingsAreHonoured
  BY DEF IInv
<1> QED BY OptionsInvariance, <1>1, PTL

(* An instance is refused only over a wish that no library value stands    *)
(* for (registry.rs:174-179).                                              *)
THEOREM OptionsAccepted == Spec => []GoodSettingsAccepted
<1>1. IInv => GoodSettingsAccepted
  BY DEF IInv
<1> QED BY OptionsInvariance, <1>1, PTL
=============================================================================
