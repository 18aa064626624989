---------------------------- MODULE OptionTypes -----------------------------
(***************************************************************************)
(* An option's way from a decoder's declaration through the bridge's and   *)
(* the shim's manifest to the user, and its value's way back through JSON  *)
(* to the library.  The type is derived anew at every border (GVariant,    *)
(* JSON, parameter kind, JSON, GVariant), and the library refuses a whole  *)
(* instance for one option whose type is not its default's.                *)
(*                                                                         *)
(* A value is its type and what it stands for: a number, or, for texts,    *)
(* the number the text parses as, or Word for a text that is no finite     *)
(* number.  Whole numbers are even, so that there are others too.  Texts   *)
(* hold no NUL, and option names are those of the manifest.                *)
(***************************************************************************)
EXTENDS Naturals

CONSTANTS
  Option,     \* names of the decoder's options
  Number,     \* numbers options may stand for, counted in halves
  Int64Max,   \* the greatest number of Number an i64 can hold
  Word,       \* a text that is not a finite number
  Leave       \* the user's wish to leave an option alone

ASSUME NumberAssumption == Number \subseteq Nat /\ Int64Max \in Nat
ASSUME WordAssumption == Word \notin Number
ASSUME LeaveAssumption == Leave \notin Number \cup {Word}

VARIABLES
  stage,     \* what happens next
  declared,  \* by option: its default, and whether it lists its values
  manifest,  \* by option: IPC kind and JSON default
  wish,      \* by option: what the user wants
  options,   \* the option overrides as JSON, in the config and the request
  running    \* by option: what the decoder sees once it runs

vars == <<stage, declared, manifest, wish, options, running>>

Whole == {n \in Number : n % 2 = 0}
FitsInt64(n) == n \in Whole /\ n <= Int64Max

GVariant(type, v) == [type |-> type, v |-> v]
Json(form, v) == [form |-> form, v |-> v]
JsonNull == Json("null", Word)

(* The defaults of libsigrokdecode's decoders are Python strings, integers *)
(* and floats.                                                             *)
Defaults ==
  {GVariant("s", v) : v \in Number \cup {Word}}
    \cup {GVariant("x", n) : n \in {m \in Number : FitsInt64(m)}}
    \cup {GVariant("d", n) : n \in Number}

Init ==
  /\ stage = "list"
  /\ declared \in [Option -> [def : Defaults, choices : BOOLEAN]]
  /\ manifest = <<>>
  /\ wish = <<>>
  /\ options = <<>>
  /\ running = <<>>

-----------------------------------------------------------------------------
(* The bridge and the shim describe the options.                           *)

IntTypes == {"x", "i", "t", "u", "n", "q", "y"}

OptionKind(type, hasChoices) ==
  CASE type = "s" -> IF hasChoices THEN "Enum" ELSE "String"
    [] type \in IntTypes -> "Int"
    [] type = "d" -> "Float"
    [] type = "b" -> "Bool"
    [] OTHER -> "String"

GvariantToJson(g) ==
  CASE g.type = "s" -> Json("string", g.v)
    [] g.type \in {"x", "i", "n", "t"} -> Json("int", g.v)
    [] g.type = "d" -> Json("float", g.v)
    [] g.type = "b" -> Json("bool", g.v)
    [] OTHER -> JsonNull

OptionFrom(decl) ==
  [kind |-> OptionKind(decl.def.type, decl.choices),
   default |-> GvariantToJson(decl.def)]

(* The kinds of wavecrux_decoder.h, which has none for floats.             *)
ParameterKind(kind) ==
  CASE kind = "Bool" -> "boolean"
    [] kind = "Int" -> "integer"
    [] kind = "Float" -> "string"
    [] kind = "Enum" -> "enumeration"
    [] kind = "String" -> "string"

ListDecoders ==
  /\ stage = "list"
  /\ manifest' = [o \in Option |-> OptionFrom(declared[o])]
  /\ stage' = "configure"
  /\ UNCHANGED <<declared, wish, options, running>>

-----------------------------------------------------------------------------
(* The loader, with its user.                                              *)

(* Integers are typed as integers, of any size; everything else as text,   *)
(* an enumeration's choice included.                                       *)
Edits(o) ==
  IF ParameterKind(manifest[o].kind) = "integer"
  THEN {Json("int", n) : n \in Whole}
  ELSE {Json("string", v) : v \in Number \cup {Word}}

(* What is left alone is not sent, or sent as it was advertised; a string  *)
(* parameter also as a text.                                               *)
Unedited(o) ==
  {manifest[o].default}
    \cup IF ParameterKind(manifest[o].kind) = "string"
         THEN {Json("string", manifest[o].default.v)}
         ELSE {}

Configure ==
  /\ stage = "configure"
  /\ \E sent \in SUBSET Option :
       \E edited \in SUBSET sent :
         /\ options' \in [sent -> UNION {Edits(o) \cup Unedited(o) :
                                           o \in Option}]
         /\ \A o \in edited : options'[o] \in Edits(o)
         /\ \A o \in sent \ edited : options'[o] \in Unedited(o)
         /\ wish' = [o \in Option |->
                       IF o \in edited THEN options'[o].v ELSE Leave]
  /\ stage' = "create"
  /\ UNCHANGED <<declared, manifest, running>>

-----------------------------------------------------------------------------
(* create_instance in the shim, create_session in the bridge.              *)

ParsesAsFloat(json) == json.form = "string" /\ json.v \in Number

(* Mutant: every option whose text is a number becomes one.                *)
CoerceEveryNumber(opts) ==
  [o \in DOMAIN opts |->
    IF ParsesAsFloat(opts[o]) THEN Json("float", opts[o].v) ELSE opts[o]]

Coerced(o, json) ==
  IF manifest[o].kind = "Float" /\ ParsesAsFloat(json)
  THEN Json("float", json.v)
  ELSE json

CoerceFloatOptions(opts) == [o \in DOMAIN opts |-> Coerced(o, opts[o])]

CreateInstance ==
  /\ stage = "create"
  /\ options' = CoerceFloatOptions(options)
  /\ stage' = "new"
  /\ UNCHANGED <<declared, manifest, wish, running>>

NoVariant == GVariant("none", Word)

(* Mutant: a number that is no i64 is left out.                            *)
JsonToGvariantIntsOnly(json) ==
  CASE json.form = "string" -> GVariant("s", json.v)
    [] json.form = "bool" -> GVariant("b", json.v)
    [] json.form = "int" /\ FitsInt64(json.v) -> GVariant("x", json.v)
    [] OTHER -> NoVariant

JsonToGvariant(json) ==
  CASE json.form = "string" -> GVariant("s", json.v)
    [] json.form = "bool" -> GVariant("b", json.v)
    [] json.form = "int" /\ FitsInt64(json.v) -> GVariant("x", json.v)
    [] json.form = "int" /\ ~FitsInt64(json.v) -> GVariant("d", json.v)
    [] json.form = "float" -> GVariant("d", json.v)
    [] OTHER -> NoVariant

BuildOptionsHash(opts) ==
  [o \in {p \in DOMAIN opts : JsonToGvariant(opts[p]) # NoVariant} |->
    JsonToGvariant(opts[o])]

(* The library takes a default for what is not in the table and refuses    *)
(* the instance over one value of another type.                            *)
InstanceOptions(table) ==
  [o \in Option |-> IF o \in DOMAIN table THEN table[o] ELSE declared[o].def]

TypesMatch(values) == \A o \in Option : values[o].type = declared[o].def.type

CreateSession ==
  /\ stage = "new"
  /\ LET values == InstanceOptions(BuildOptionsHash(options))
     IN \/ TypesMatch(values) /\ stage' = "running" /\ running' = values
        \/ ~TypesMatch(values) /\ stage' = "refused" /\ UNCHANGED running
  /\ UNCHANGED <<declared, manifest, wish, options>>

Next ==
  \/ ListDecoders
  \/ Configure
  \/ CreateInstance
  \/ CreateSession

Spec == Init /\ [][Next]_vars

-----------------------------------------------------------------------------
(* Properties.                                                             *)

Wanted(o) ==
  IF wish[o] = Leave THEN declared[o].def
                     ELSE GVariant(declared[o].def.type, wish[o])

(* An instance that runs sees each option as the user set it, or as its    *)
(* decoder declared it if it was left alone, in the declared type: no      *)
(* conversion on the way replaces a value by another (srd.rs:617-674,      *)
(* registry.rs:180-199).                                                   *)
SettingsAreHonoured ==
  stage = "running" => \A o \in Option : running[o] = Wanted(o)

(* Only what cannot be honoured is refused: a float option that is no      *)
(* number, or an integer beyond an i64; never an option left alone, in     *)
(* whichever form the loader sends it back (registry.rs:174-179).          *)
GoodSettingsAccepted ==
  stage = "refused" =>
    \E o \in Option :
      /\ wish[o] # Leave
      /\ \/ declared[o].def.type = "d" /\ wish[o] = Word
         \/ declared[o].def.type = "x" /\ ~FitsInt64(wish[o])
=============================================================================
