----------------------------- MODULE ArgsProofs -----------------------------
(***************************************************************************)
(* The arguments of a command, for any names, strings, defaults and lines: *)
(* the parser accepts exactly the well-formed strings, and a command that  *)
(* the client sends has a value for every argument its runbook requires.   *)
(***************************************************************************)
EXTENDS CommandArgs, SequenceTheorems, FiniteSetTheorems,
        WellFoundedInduction, TLAPS

Def(t) == [name |-> t.name, required |-> t.required]

(* Nothing is consumed before a line is typed, nor bound before the client *)
(* has checked it.                                                         *)
BoundLate ==
  /\ stage \in {"parsing", "rejected", "loaded"} => consumed = 0
  /\ stage \notin {"sent", "rendered"} => bound = <<>>

ArgsInv == TypeOK /\ BoundLate

(* While the string is read, the parser's set, its flag and its variadic   *)
(* say what they are for of the tokens before.                             *)
Tracks ==
  stage = "parsing" =>
    /\ names = {tokens[j].name : j \in DOMAIN tokens}
    /\ seenOptional <=> \E j \in DOMAIN tokens :
                          tokens[j].kind = "positional" /\ ~tokens[j].required
    /\ spec.variadic # {} <=> \E j \in DOMAIN tokens : tokens[j].kind = "variadic"

ExactInv == TypeOK /\ Tracks /\ ParserIsExact

(* Every argument of the string is in the spec.                            *)
InSpec(s, t) ==
  /\ t.kind = "positional" => \E i \in DOMAIN s.positional : s.positional[i] = Def(t)
  /\ t.kind = "variadic" => Def(t) \in s.variadic
  /\ t.kind = "option" => Def(t) \in s.options
  /\ t.kind = "flag" => ~t.required
  /\ t.kind # "invalid"

SpecComplete ==
  stage # "rejected" => \A j \in DOMAIN tokens : InSpec(spec, tokens[j])

RequiredInv == TypeOK /\ SpecComplete /\ RequiredAreBound

-----------------------------------------------------------------------------
(* A non-empty set of numbers below a bound has a greatest element, which  *)
(* is what Greatest chooses.                                               *)
LEMMA GreatestElement ==
  ASSUME NEW m \in Nat, NEW S, S \subseteq 1..m, S # {}
  PROVE  Greatest(S) \in S
<1> DEFINE D == {m - x : x \in S}
<1>1. D \subseteq Nat /\ D # {}
  <2>1. \A x \in S : x \in Nat /\ x <= m /\ m - x \in Nat
    OBVIOUS
  <2>2. PICK x \in S : TRUE
    OBVIOUS
  <2>3. m - x \in D
    BY <2>2
  <2> QED BY <2>1, <2>3
<1>2. PICK d \in D : \A e \in D : <<e, d>> \notin OpToRel(<, Nat)
  BY <1>1, WFMin, NatLessThanWellFounded
<1>3. PICK x \in S : d = m - x
  OBVIOUS
<1>4. \A y \in S : y <= x
  <2> TAKE y \in S
  <2>1. m - y \in D /\ m - y \in Nat /\ d \in Nat
    BY <1>1
  <2>2. ~(m - y < d)
    BY <2>1, <1>2 DEF OpToRel
  <2> QED BY <2>1, <2>2, <1>3
<1> QED BY <1>4 DEF Greatest

(* The number of words after the pairs.                                    *)
LEMMA WordCountType ==
  ASSUME TypeOK
  PROVE  /\ Len(argv) \in Nat /\ consumed \in Nat /\ consumed <= Len(argv)
         /\ WordCount \in Nat /\ consumed + WordCount = Len(argv)
<1>1. Len(argv) \in Nat /\ consumed \in 0..Len(argv)
  BY DEF TypeOK
<1> QED BY <1>1 DEF WordCount

LEMMA SpecType ==
  ASSUME TypeOK
  PROVE  /\ spec.positional \in Seq(ArgDef) /\ Len(spec.positional) \in Nat
         /\ DOMAIN spec.positional = 1..Len(spec.positional)
         /\ spec.options \subseteq ArgDef
         /\ \A v \in spec.variadic : v \in ArgDef
         /\ \A i \in DOMAIN spec.positional : spec.positional[i] \in ArgDef
<1>1. spec \in ArgSpec
  BY DEF TypeOK
<1>2. /\ spec.positional \in Seq(ArgDef) /\ spec.options \subseteq ArgDef
      /\ spec.variadic \in {{}} \cup {{d} : d \in ArgDef}
  BY <1>1 DEF ArgSpec
<1> QED BY <1>2

(* parse_args binds names of arguments to places of the line.              *)
LEMMA ParseArgsType ==
  ASSUME TypeOK
  PROVE  /\ DOMAIN ParseArgs \subseteq ArgName
         /\ \A n \in DOMAIN ParseArgs : ParseArgs[n] \in Seq(1..Len(argv))
<1> USE WordCountType, SpecType
<1>1. DOMAIN ParseArgs \subseteq ArgName
  BY DEF ParseArgs
<1>2. ASSUME NEW n \in DOMAIN ParseArgs
      PROVE  ParseArgs[n] \in Seq(1..Len(argv))
  <2>1. CASE n \in Named
    <3>1. Pairs(n) \subseteq 1..consumed /\ Pairs(n) # {}
      BY <2>1 DEF Named, Pairs
    <3>2. Greatest(Pairs(n)) \in 1..consumed
      BY <3>1, GreatestElement
    <3>3. Greatest(Pairs(n)) \in 1..Len(argv)
      BY <3>2
    <3>4. ParseArgs[n] = <<Greatest(Pairs(n))>>
      BY <1>2, <2>1 DEF ParseArgs
    <3> HIDE DEF Pairs
    <3> QED BY ONLY <3>3, <3>4
  <2>2. CASE n \notin Named /\ TakesRest(n)
    <3>1. WordCount > Len(spec.positional)
      BY <2>2 DEF TakesRest
    <3> DEFINE r == WordCount - Len(spec.positional)
    <3>2. r \in Nat
      BY <3>1
    <3>3. \A k \in 1..r : consumed + Len(spec.positional) + k \in 1..Len(argv)
      BY <3>1
    <3>4. Rest \in [1..r -> 1..Len(argv)]
      BY <3>3 DEF Rest
    <3>5. Rest \in Seq(1..Len(argv))
      BY <3>2, <3>4, SeqDef
    <3>6. ParseArgs[n] = Rest
      BY <1>2, <2>2 DEF ParseArgs
    <3> QED BY <3>5, <3>6
  <2>3. CASE n \notin Named /\ ~TakesRest(n) /\ WordsOf(n) # {}
    <3>1. WordsOf(n) \subseteq 1..WordCount
      BY DEF WordsOf
    <3>2. Greatest(WordsOf(n)) \in 1..WordCount
      BY <2>3, <3>1, GreatestElement
    <3>3. consumed + Greatest(WordsOf(n)) \in 1..Len(argv)
      BY <3>2
    <3>4. ParseArgs[n] = <<consumed + Greatest(WordsOf(n))>>
      BY <1>2, <2>3 DEF ParseArgs
    <3> QED BY <3>3, <3>4
  <2>4. CASE n \notin Named /\ ~TakesRest(n) /\ WordsOf(n) = {}
    <3>1. ParseArgs[n] = <<>>
      BY <1>2, <2>4 DEF ParseArgs
    <3> QED BY <3>1, EmptySeq
  <2> QED BY <2>1, <2>2, <2>3, <2>4
<1> QED BY <1>1, <1>2

(* What is put into a text are words.                                      *)
LEMMA InterpolateType ==
  ASSUME TypeOK, NEW p \in Placeholders, NEW env \in EnvTexts
  PROVE  ExpandEnv(p, env) \in Words /\ Interpolate(p, env) \in Seq(Words)
<1> DEFINE q == ExpandEnv(p, env)
<1>1. q \in Words
  BY DEF ExpandEnv, Placeholders, EnvTexts, Words
<1>2. CASE q.word = "var" /\ q.name \in DOMAIN bound
  <2>1. bound[q.name] \in Seq(1..Len(argv)) /\ argv \in Seq(Words)
    BY <1>2 DEF TypeOK
  <2>2. Plain \in Words
    BY DEF Words
  <2>3. Typed(bound[q.name]) \in Seq(Words)
    <3> DEFINE v == bound[q.name]
    <3> HIDE DEF v
    <3>1. v \in Seq(1..Len(argv))
      BY <2>1 DEF v
    <3>2. DOMAIN v = 1..Len(v) /\ Len(v) \in Nat
          /\ \A k \in DOMAIN v : v[k] \in 1..Len(argv)
      BY <3>1
    <3>3. \A k \in DOMAIN v : argv[v[k]] \in Words
      BY <3>2, <2>1
    <3>4. Typed(v) \in [1..Len(v) -> Words]
      BY <3>2, <3>3 DEF Typed
    <3>5. Typed(v) \in Seq(Words)
      BY <3>2, <3>4, SeqDef
    <3> QED BY <3>5 DEF v
  <2>4. TextOf(bound[q.name]) \in Seq(Words)
    BY <2>2, <2>3 DEF TextOf
  <2> QED BY <1>1, <1>2, <2>4 DEF Interpolate, ExpandVar
<1>3. CASE ~(q.word = "var" /\ q.name \in DOMAIN bound)
  BY <1>1, <1>3 DEF Interpolate, ExpandVar
<1> QED BY <1>1, <1>2, <1>3

-----------------------------------------------------------------------------
(* Types.                                                                  *)

LEMMA ArgsInit == Init => ArgsInv
<1> SUFFICES ASSUME Init PROVE ArgsInv
  OBVIOUS
<1>1. spec \in ArgSpec
  <2>1. <<>> \in Seq(ArgDef)
    BY EmptySeq
  <2> QED BY <2>1 DEF Init, EmptySpec, ArgSpec
<1>2. Len(<<>>) = 0 /\ DOMAIN <<>> = {} /\ <<>> \in Seq(Token) /\ <<>> \in Seq(Words)
  BY EmptySeq
<1>3. Plain \in Words
  BY DEF Words
<1>4. /\ stage \in Stages /\ tokens \in Seq(Token) /\ names \subseteq ArgName
      /\ seenOptional \in BOOLEAN /\ defaults \subseteq ArgName
  BY <1>2 DEF Init, Stages
<1>5. /\ argv \in Seq(Words) /\ consumed \in 0..Len(argv)
      /\ DOMAIN bound \subseteq ArgName
      /\ \A n \in DOMAIN bound : bound[n] \in Seq(1..Len(argv))
      /\ part \in Words /\ rendered \in Seq(Words)
  BY <1>2, <1>3 DEF Init
<1>6. BoundLate
  BY DEF Init, BoundLate
<1> QED BY <1>1, <1>4, <1>5, <1>6 DEF ArgsInv, TypeOK

(* The spec stays one when an argument is declared.                        *)
LEMMA DeclareType ==
  ASSUME TypeOK, NEW t \in Token
  PROVE  Declare(t) \in ArgSpec
<1> DEFINE d == [name |-> t.name, required |-> t.required]
<1>1. spec \in ArgSpec /\ t.name \in ArgName /\ d \in ArgDef
  BY DEF TypeOK, Token, ArgDef
<1>2. Append(spec.positional, d) \in Seq(ArgDef)
  BY <1>1, AppendProperties DEF ArgSpec
<1>3. spec.options \cup {d} \subseteq ArgDef /\ spec.flags \cup {t.name} \subseteq ArgName
  BY <1>1 DEF ArgSpec
<1> HIDE DEF d
<1>4. /\ [spec EXCEPT !.positional = Append(@, d)] \in ArgSpec
      /\ [spec EXCEPT !.variadic = {d}] \in ArgSpec
      /\ [spec EXCEPT !.options = @ \cup {d}] \in ArgSpec
      /\ [spec EXCEPT !.flags = @ \cup {t.name}] \in ArgSpec
  BY <1>1, <1>2, <1>3 DEF ArgSpec
<1> QED BY <1>4 DEF Declare, d

LEMMA ReadTokenType ==
  ASSUME ArgsInv, NEW t \in Token, ReadToken(t)
  PROVE  ArgsInv'
<1> USE DEF ArgsInv, TypeOK, ReadToken, userVars, daemonVars
<1>1. tokens' \in Seq(Token)
  BY AppendProperties
<1>2. spec' \in ArgSpec /\ names' \subseteq ArgName /\ seenOptional' \in BOOLEAN
  <2>1. t.name \in ArgName /\ t.required \in BOOLEAN
    BY DEF Token
  <2> QED BY <2>1, DeclareType
<1>3. stage' \in Stages /\ stage' \notin {"sent", "rendered"} /\ bound = <<>>
  BY DEF Stages, BoundLate
<1> QED BY <1>1, <1>2, <1>3 DEF BoundLate

LEMMA LoadType ==
  ASSUME ArgsInv, NEW given \in DefaultSets, Load(given)
  PROVE  ArgsInv'
BY InputAssumption
   DEF ArgsInv, TypeOK, BoundLate, Load, Stages, parserVars, userVars, daemonVars

LEMMA LoadStructType ==
  ASSUME ArgsInv, NEW positional \in NameLists, NEW named \in SUBSET ArgName,
         NEW given \in DefaultSets, LoadStruct(positional, named, given)
  PROVE  ArgsInv'
<1>1. PICK k \in Nat : positional \in [1..k -> ArgName]
  BY BoundAssumption DEF NameLists
<1> DEFINE p == [i \in DOMAIN positional |->
                   [name |-> positional[i], required |-> TRUE]]
           o == {[name |-> n, required |-> FALSE] : n \in named}
<1>2. p \in Seq(ArgDef)
  <2>1. p \in [1..k -> ArgDef]
    BY <1>1 DEF ArgDef
  <2> QED BY <2>1, SeqDef
<1>3. o \subseteq ArgDef
  <2>1. \A n \in named : [name |-> n, required |-> FALSE] \in ArgDef
    BY DEF ArgDef
  <2> QED BY <2>1
<1>4. spec' = [EmptySpec EXCEPT !.positional = p, !.options = o]
  BY DEF LoadStruct
<1> HIDE DEF p, o
<1>5. spec' \in ArgSpec
  BY <1>2, <1>3, <1>4 DEF EmptySpec, ArgSpec
<1> QED BY <1>5, InputAssumption
        DEF ArgsInv, TypeOK, BoundLate, LoadStruct, Stages, userVars, daemonVars

LEMMA TypeLineType ==
  ASSUME ArgsInv, NEW w \in Lines, TypeLine(w)
  PROVE  ArgsInv'
<1>1. w \in Seq(Words) /\ Len(w) \in Nat
  BY InputAssumption
<1>2. argv' = w /\ consumed' \in 0..Len(w)
  <2>1. CASE \E pairs \in 0..Len(w) : Splits(w, pairs) /\ consumed' = 2 * pairs
    BY <1>1, <2>1 DEF TypeLine, Splits
  <2>2. CASE UNCHANGED consumed
    BY <1>1, <2>2 DEF TypeLine, ArgsInv, BoundLate
  <2> QED BY <2>1, <2>2 DEF TypeLine
<1>3. bound' = <<>>
  BY DEF TypeLine, ArgsInv, BoundLate
<1> QED BY <1>1, <1>2, <1>3
        DEF TypeLine, ArgsInv, TypeOK, BoundLate, Stages, parserVars, daemonVars

LEMMA RunType == ArgsInv /\ Run => ArgsInv'
<1> SUFFICES ASSUME ArgsInv, Run PROVE ArgsInv'
  OBVIOUS
<1>1. DOMAIN bound' \subseteq ArgName
      /\ \A n \in DOMAIN bound' : bound'[n] \in Seq(1..Len(argv))
  BY ParseArgsType DEF Run, ArgsInv, TypeOK
<1> QED BY <1>1 DEF Run, ArgsInv, TypeOK, BoundLate, Stages, parserVars, daemonVars

LEMMA RenderType ==
  ASSUME ArgsInv, NEW p \in Placeholders, NEW env \in EnvTexts, Render(p, env)
  PROVE  ArgsInv'
<1>1. part' \in Words /\ rendered' \in Seq(Words)
  BY InterpolateType DEF Render, ArgsInv
<1> QED BY <1>1 DEF Render, ArgsInv, TypeOK, BoundLate, Stages, parserVars, userVars

LEMMA ArgsStep == ArgsInv /\ [Next]_vars => ArgsInv'
<1> SUFFICES ASSUME ArgsInv, [Next]_vars PROVE ArgsInv'
  OBVIOUS
<1>1. CASE UNCHANGED vars
  BY <1>1 DEF ArgsInv, TypeOK, BoundLate, vars
<1> QED BY <1>1, ReadTokenType, LoadType, LoadStructType, TypeLineType, RunType,
           RenderType DEF Next

(* Every word an argument is bound to is one of the typed line, whatever   *)
(* the definition of the command and the line.  parse_args, interpolate.   *)
THEOREM ArgsTypeOK == Spec => []TypeOK
<1>1. ArgsInv => TypeOK
  BY DEF ArgsInv
<1> QED BY ArgsInit, ArgsStep, <1>1, PTL DEF Spec

-----------------------------------------------------------------------------
(* The parser.                                                             *)

(* What a further token may be for the string to stay well formed.         *)
MayFollow(s, t) ==
  /\ t.kind # "invalid"
  /\ \A j \in DOMAIN s : s[j].name # t.name
  /\ t.kind \in {"positional", "variadic"} => \A j \in DOMAIN s : s[j].kind # "variadic"
  /\ t.kind = "positional" /\ t.required =>
       \A j \in DOMAIN s : ~(s[j].kind = "positional" /\ ~s[j].required)

LEMMA AppendPlaces ==
  ASSUME NEW s \in Seq(Token), NEW t \in Token
  PROVE  /\ Len(s) \in Nat /\ DOMAIN s = 1..Len(s)
         /\ DOMAIN Append(s, t) = 1..(Len(s) + 1)
         /\ \A j \in DOMAIN s : Append(s, t)[j] = s[j]
         /\ Append(s, t)[Len(s) + 1] = t
BY AppendProperties, LenProperties

LEMMA AppendWellFormed ==
  ASSUME NEW s \in Seq(Token), NEW t \in Token
  PROVE  WellFormed(Append(s, t)) <=> WellFormed(s) /\ MayFollow(s, t)
<1> DEFINE a == Append(s, t)
           n == Len(s) + 1
<1>1. /\ Len(s) \in Nat /\ DOMAIN s = 1..Len(s) /\ DOMAIN a = 1..n
      /\ \A j \in DOMAIN s : a[j] = s[j]
      /\ a[n] = t /\ n \in Nat
  BY AppendPlaces
<1> HIDE DEF a
<1>2. /\ n \in DOMAIN a
      /\ \A j \in DOMAIN s : j \in DOMAIN a /\ j < n /\ j # n
      /\ \A j \in DOMAIN a : j = n \/ j \in DOMAIN s
      /\ \A j \in DOMAIN a : ~(n < j)
  BY <1>1
<1> HIDE DEF n
<1>3. ASSUME WellFormed(a) PROVE WellFormed(s) /\ MayFollow(s, t)
  <2>1. WellFormed(s)
    BY <1>1, <1>2, <1>3 DEF WellFormed
  <2>2. t.kind # "invalid" /\ \A j \in DOMAIN s : s[j].name # t.name
    BY <1>1, <1>2, <1>3 DEF WellFormed
  <2>3. \A j \in DOMAIN s : s[j].kind = "variadic" =>
                               t.kind \notin {"positional", "variadic"}
    BY <1>1, <1>2, <1>3 DEF WellFormed
  <2>4. \A j \in DOMAIN s : s[j].kind = "positional" /\ ~s[j].required
                             /\ t.kind = "positional" => ~t.required
    BY <1>1, <1>2, <1>3 DEF WellFormed
  <2> QED BY <2>1, <2>2, <2>3, <2>4 DEF MayFollow
<1>4. ASSUME WellFormed(s), MayFollow(s, t) PROVE WellFormed(a)
  <2>1. \A i \in DOMAIN a : a[i].kind # "invalid"
    BY <1>1, <1>2, <1>4 DEF WellFormed, MayFollow
  <2>2. \A i, j \in DOMAIN a : a[i].name = a[j].name => i = j
    BY <1>1, <1>2, <1>4 DEF WellFormed, MayFollow
  <2>3. \A i, j \in DOMAIN a :
          i < j /\ a[i].kind = "variadic" => a[j].kind \notin {"positional", "variadic"}
    BY <1>1, <1>2, <1>4 DEF WellFormed, MayFollow
  <2>4. \A i, j \in DOMAIN a :
          /\ i < j
          /\ a[i].kind = "positional" /\ ~a[i].required
          /\ a[j].kind = "positional"
          => ~a[j].required
    BY <1>1, <1>2, <1>4 DEF WellFormed, MayFollow
  <2> QED BY <2>1, <2>2, <2>3, <2>4 DEF WellFormed
<1> QED BY <1>3, <1>4 DEF a

LEMMA ExactInit == Init => ExactInv
<1> SUFFICES ASSUME Init PROVE ExactInv
  OBVIOUS
<1>1. TypeOK
  BY ArgsInit DEF ArgsInv
<1>2. tokens = <<>> /\ DOMAIN <<>> = {} /\ stage = "parsing"
  BY DEF Init
<1>3. Tracks
  BY <1>2 DEF Tracks, Init, EmptySpec
<1>4. ParserIsExact
  BY <1>2 DEF ParserIsExact, WellFormed
<1> QED BY <1>1, <1>3, <1>4 DEF ExactInv

LEMMA ReadTokenExact ==
  ASSUME ExactInv, NEW t \in Token, ReadToken(t)
  PROVE  Tracks' /\ ParserIsExact'
<1>1. /\ tokens \in Seq(Token) /\ tokens' = Append(tokens, t) /\ stage = "parsing"
      /\ WellFormed(tokens)
  BY DEF ReadToken, ExactInv, TypeOK, ParserIsExact
<1>2. Rejects(t) <=> ~MayFollow(tokens, t)
  <2>1. t.name \in names <=> \E j \in DOMAIN tokens : tokens[j].name = t.name
    BY <1>1 DEF ExactInv, Tracks
  <2>2. spec.variadic # {} <=> \E j \in DOMAIN tokens : tokens[j].kind = "variadic"
    BY <1>1 DEF ExactInv, Tracks
  <2>3. seenOptional <=> \E j \in DOMAIN tokens :
                           tokens[j].kind = "positional" /\ ~tokens[j].required
    BY <1>1 DEF ExactInv, Tracks
  <2> QED BY <2>1, <2>2, <2>3 DEF Rejects, MayFollow
<1>3. ParserIsExact'
  <2>1. WellFormed(tokens') <=> ~Rejects(t)
    BY <1>1, <1>2, AppendWellFormed
  <2>2. (stage = "rejected")' <=> Rejects(t)
    BY <1>1 DEF ReadToken
  <2> QED BY <2>1, <2>2 DEF ParserIsExact
<1>4. CASE Rejects(t)
  BY <1>3, <1>4 DEF ReadToken, Tracks
<1>5. CASE ~Rejects(t)
  <2>1. /\ DOMAIN tokens = 1..Len(tokens) /\ Len(tokens) \in Nat
        /\ DOMAIN tokens' = 1..(Len(tokens) + 1)
        /\ \A j \in DOMAIN tokens : tokens'[j] = tokens[j]
        /\ tokens'[Len(tokens) + 1] = t
    BY <1>1, AppendPlaces
  <2>2. DOMAIN tokens' = DOMAIN tokens \cup {Len(tokens) + 1}
    BY <2>1
  <2>3. names' = {tokens'[j].name : j \in DOMAIN tokens'}
    <3>1. names = {tokens[j].name : j \in DOMAIN tokens} /\ names' = names \cup {t.name}
      BY <1>1, <1>5 DEF ReadToken, ExactInv, Tracks
    <3> QED BY <3>1, <2>1, <2>2
  <2>4. seenOptional' <=> \E j \in DOMAIN tokens' :
                            tokens'[j].kind = "positional" /\ ~tokens'[j].required
    <3>1. seenOptional <=> \E j \in DOMAIN tokens :
                             tokens[j].kind = "positional" /\ ~tokens[j].required
      BY <1>1 DEF ExactInv, Tracks
    <3>2. seenOptional' <=> seenOptional \/ (t.kind = "positional" /\ ~t.required)
      BY <1>5 DEF ReadToken
    <3> QED BY <3>1, <3>2, <2>1, <2>2
  <2>5. spec'.variadic # {} <=> \E j \in DOMAIN tokens' : tokens'[j].kind = "variadic"
    <3>1. spec.variadic # {} <=> \E j \in DOMAIN tokens : tokens[j].kind = "variadic"
      BY <1>1 DEF ExactInv, Tracks
    <3>2. spec'.variadic # {} <=> spec.variadic # {} \/ t.kind = "variadic"
      <4>1. spec \in ArgSpec /\ spec' = Declare(t)
        BY <1>5 DEF ReadToken, ExactInv, TypeOK
      <4> QED BY <4>1 DEF Declare, ArgSpec
    <3> QED BY <3>1, <3>2, <2>1, <2>2
  <2> QED BY <1>3, <2>3, <2>4, <2>5 DEF Tracks
<1> QED BY <1>4, <1>5

LEMMA ExactStep == ArgsInv /\ ExactInv /\ [Next]_vars => ExactInv'
<1> SUFFICES ASSUME ArgsInv, ExactInv, [Next]_vars PROVE ExactInv'
  OBVIOUS
<1>1. TypeOK'
  BY ArgsStep DEF ArgsInv
<1>2. CASE \E t \in Token : ReadToken(t)
  BY <1>1, <1>2, ReadTokenExact DEF ExactInv
<1>3. CASE UNCHANGED vars
  BY <1>1, <1>3 DEF ExactInv, Tracks, ParserIsExact, vars
<1>4. ASSUME stage \notin {"rejected"}, tokens' = tokens,
             stage' \notin {"parsing", "rejected"}
      PROVE  ExactInv'
  BY <1>1, <1>4 DEF ExactInv, Tracks, ParserIsExact
<1>5. CASE \E given \in DefaultSets : Load(given)
  BY <1>4, <1>5 DEF Load, parserVars
<1>6. CASE \E positional \in NameLists, named \in SUBSET ArgName, given \in DefaultSets :
             LoadStruct(positional, named, given)
  BY <1>4, <1>6 DEF LoadStruct
<1>7. CASE \E w \in Lines : TypeLine(w)
  BY <1>4, <1>7 DEF TypeLine, parserVars
<1>8. CASE Run
  BY <1>4, <1>8 DEF Run, parserVars
<1>9. CASE \E p \in Placeholders, env \in EnvTexts : Render(p, env)
  BY <1>4, <1>9 DEF Render, parserVars
<1> QED BY <1>2, <1>3, <1>5, <1>6, <1>7, <1>8, <1>9 DEF Next

(* parse_arg_spec refuses exactly the strings that are not well formed,    *)
(* for strings of any length over any names.                               *)
THEOREM ArgsParserIsExact == Spec => []ParserIsExact
<1>1. ExactInv => ParserIsExact
  BY DEF ExactInv
<1> QED BY ArgsInit, ArgsStep, ExactInit, ExactStep, <1>1, PTL DEF Spec

-----------------------------------------------------------------------------
(* What is required is bound.                                              *)

LEMMA RequiredInit == Init => SpecComplete /\ RequiredAreBound
<1> SUFFICES ASSUME Init PROVE SpecComplete /\ RequiredAreBound
  OBVIOUS
<1>1. tokens = <<>> /\ DOMAIN <<>> = {} /\ stage = "parsing"
  BY DEF Init
<1> QED BY <1>1 DEF SpecComplete, RequiredAreBound

(* What was in the spec stays in it, and what a token declares is added.   *)
LEMMA ReadTokenComplete ==
  ASSUME TypeOK, SpecComplete, NEW t \in Token, t.kind = "flag" => ~t.required,
         ReadToken(t)
  PROVE  SpecComplete'
<1>1. CASE Rejects(t)
  BY <1>1 DEF ReadToken, SpecComplete
<1>2. CASE ~Rejects(t)
  <2>1. /\ tokens \in Seq(Token) /\ tokens' = Append(tokens, t)
        /\ spec' = Declare(t) /\ spec \in ArgSpec /\ stage = "parsing"
    BY <1>2 DEF ReadToken, TypeOK
  <2>2. /\ Len(tokens) \in Nat /\ DOMAIN tokens = 1..Len(tokens)
        /\ DOMAIN tokens' = 1..(Len(tokens) + 1)
        /\ \A j \in DOMAIN tokens : tokens'[j] = tokens[j]
        /\ tokens'[Len(tokens) + 1] = t
    BY <2>1, AppendPlaces
  <2>3. /\ spec.positional \in Seq(ArgDef) /\ Def(t) \in ArgDef
    BY <2>1 DEF ArgSpec, Def, Token, ArgDef
  <2>4. /\ \A i \in DOMAIN spec.positional :
             /\ i \in DOMAIN Append(spec.positional, Def(t))
             /\ Append(spec.positional, Def(t))[i] = spec.positional[i]
        /\ Len(spec.positional) + 1 \in DOMAIN Append(spec.positional, Def(t))
        /\ Append(spec.positional, Def(t))[Len(spec.positional) + 1] = Def(t)
    BY <2>3, AppendProperties, LenProperties
  <2>5. /\ t.kind = "positional" => spec' = [spec EXCEPT !.positional = Append(@, Def(t))]
        /\ t.kind = "variadic" => spec' = [spec EXCEPT !.variadic = {Def(t)}]
        /\ t.kind = "option" => spec' = [spec EXCEPT !.options = @ \cup {Def(t)}]
        /\ t.kind \notin {"positional", "variadic", "option"} =>
             spec' = [spec EXCEPT !.flags = @ \cup {t.name}]
    BY <2>1 DEF Declare, Def
  <2>6. /\ \A i \in DOMAIN spec.positional : \E k \in DOMAIN spec'.positional :
             spec'.positional[k] = spec.positional[i]
        /\ spec.options \subseteq spec'.options
        /\ t.kind # "variadic" => spec'.variadic = spec.variadic
    BY <2>1, <2>4, <2>5 DEF ArgSpec
  <2>7. \A j \in DOMAIN tokens : InSpec(spec', tokens[j])
    <3> TAKE j \in DOMAIN tokens
    <3>1. InSpec(spec, tokens[j])
      BY <2>1 DEF SpecComplete
    <3>2. t.kind = "variadic" => tokens[j].kind # "variadic"
      <4>1. t.kind = "variadic" => spec.variadic = {}
        BY <1>2 DEF Rejects
      <4> QED BY <4>1, <3>1 DEF InSpec
    <3> QED BY <3>1, <3>2, <2>6 DEF InSpec
  <2>8. InSpec(spec', t)
    <3>1. t.kind # "invalid"
      BY <1>2 DEF Rejects
    <3>2. t.kind = "positional" =>
            \E i \in DOMAIN spec'.positional : spec'.positional[i] = Def(t)
      BY <2>1, <2>4, <2>5 DEF ArgSpec
    <3>3. /\ t.kind = "variadic" => Def(t) \in spec'.variadic
          /\ t.kind = "option" => Def(t) \in spec'.options
      BY <2>1, <2>5 DEF ArgSpec
    <3> QED BY <3>1, <3>2, <3>3 DEF InSpec
  <2> QED BY <2>2, <2>7, <2>8 DEF SpecComplete
<1> QED BY <1>1, <1>2

(* A line that validates binds what is required.                           *)
LEMMA ValidatesBinds ==
  ASSUME TypeOK, SpecComplete, stage = "typed", Validates, bound' = ParseArgs,
         UNCHANGED <<tokens, spec>>
  PROVE  RequiredAreBound'
<1> USE WordCountType, SpecType
<1>1. ASSUME NEW n \in ArgName, Given(n) \/ WordsOf(n) # {} \/ TakesRest(n)
      PROVE  n \in DOMAIN bound'
  BY <1>1 DEF ParseArgs
<1>2. ASSUME NEW i \in DOMAIN spec.positional, spec.positional[i].required
      PROVE  spec.positional[i].name \in DOMAIN bound'
  <2>1. spec.positional[i].name \in ArgName /\ i \in Nat
    BY DEF ArgDef
  <2>2. i <= WordCount \/ Given(spec.positional[i].name)
    BY <1>2, <2>1 DEF Validates, MissingPositional
  <2>3. i <= WordCount => WordsOf(spec.positional[i].name) # {}
    BY DEF WordsOf
  <2> QED BY <1>1, <2>1, <2>2, <2>3
<1>3. ASSUME NEW j \in DOMAIN tokens, tokens[j].required
      PROVE  tokens[j].name \in DOMAIN bound'
  <2>1. tokens[j] \in Token /\ InSpec(spec, tokens[j])
    BY DEF TypeOK, SpecComplete
  <2>2. tokens[j].name \in ArgName
        /\ Def(tokens[j]).name = tokens[j].name /\ Def(tokens[j]).required
    BY <1>3, <2>1 DEF Token, Def
  <2>3. CASE tokens[j].kind = "positional"
    BY <1>2, <2>1, <2>2, <2>3 DEF InSpec
  <2>4. CASE tokens[j].kind = "option"
    BY <1>1, <2>1, <2>2, <2>4 DEF InSpec, Validates, MissingOption
  <2>5. CASE tokens[j].kind = "variadic"
    <3>1. Def(tokens[j]) \in spec.variadic
      BY <2>1, <2>5 DEF InSpec
    <3>2. ~(WordCount <= Len(spec.positional)) \/ Given(tokens[j].name)
      BY <3>1, <2>2 DEF Validates, MissingVariadic
    <3>3. ~(WordCount <= Len(spec.positional)) => TakesRest(tokens[j].name)
      BY <3>1, <2>2 DEF TakesRest
    <3> QED BY <1>1, <2>2, <3>2, <3>3
  <2>6. tokens[j].kind \in {"positional", "option", "variadic"}
    BY <1>3, <2>1 DEF Token, Kinds, InSpec
  <2> QED BY <2>3, <2>4, <2>5, <2>6
<1> QED BY <1>2, <1>3 DEF RequiredAreBound

LEMMA RequiredStep == RequiredInv /\ Next => SpecComplete' /\ RequiredAreBound'
<1> SUFFICES ASSUME RequiredInv, Next PROVE SpecComplete' /\ RequiredAreBound'
  OBVIOUS
<1> USE DEF RequiredInv
<1>1. ASSUME NEW t \in Token, t.kind = "flag" => ~t.required, ReadToken(t)
      PROVE  SpecComplete' /\ RequiredAreBound'
  BY <1>1, ReadTokenComplete DEF ReadToken, RequiredAreBound
<1>2. ASSUME stage # "rejected", UNCHANGED <<tokens, spec>>
      PROVE  SpecComplete'
  BY <1>2 DEF SpecComplete
<1>3. CASE \E given \in DefaultSets : Load(given)
  BY <1>2, <1>3 DEF Load, parserVars, RequiredAreBound
<1>4. CASE \E positional \in NameLists, named \in SUBSET ArgName, given \in DefaultSets :
             LoadStruct(positional, named, given)
  <2>1. tokens' = <<>> /\ DOMAIN <<>> = {} /\ stage' = "loaded"
    BY <1>4 DEF LoadStruct
  <2> QED BY <2>1 DEF SpecComplete, RequiredAreBound
<1>5. CASE \E w \in Lines : TypeLine(w)
  BY <1>2, <1>5 DEF TypeLine, parserVars, RequiredAreBound
<1>6. CASE Run
  <2>1. CASE Validates /\ bound' = ParseArgs
    BY <1>2, <1>6, <2>1, ValidatesBinds DEF Run, parserVars
  <2>2. CASE stage' = "refused"
    BY <1>2, <1>6, <2>2 DEF Run, parserVars, RequiredAreBound
  <2> QED BY <1>6, <2>1, <2>2 DEF Run
<1>7. CASE \E p \in Placeholders, env \in EnvTexts : Render(p, env)
  BY <1>2, <1>7 DEF Render, parserVars, userVars, RequiredAreBound
<1> QED BY <1>1, <1>3, <1>4, <1>5, <1>6, <1>7 DEF Next

(* validate_args and parse_args agree, for any definition, line and set of *)
(* defaults: whatever is required has a value in the command that is sent. *)
THEOREM ArgsRequiredAreBound == Spec => []RequiredAreBound
<1>1. RequiredInv /\ UNCHANGED vars => SpecComplete' /\ RequiredAreBound'
  BY DEF RequiredInv, SpecComplete, RequiredAreBound, vars, WordCount
<1>2. TypeOK /\ SpecComplete /\ RequiredAreBound /\ [Next]_vars
        => SpecComplete' /\ RequiredAreBound'
  BY RequiredStep, <1>1 DEF RequiredInv
<1> QED BY ArgsTypeOK, RequiredInit, <1>2, PTL DEF Spec

-----------------------------------------------------------------------------
(* What is refused, is refused for a cause.                                *)

(* The positional definitions are those of the positional tokens, in their *)
(* order, and the others come from tokens of their kind.  (A definition in *)
(* the older format has no tokens.)                                        *)
SpecSound ==
  stage # "rejected" /\ (stage = "parsing" \/ tokens # <<>>) =>
    /\ Len(spec.positional) = Cardinality(PositionalTokens)
    /\ \A i \in DOMAIN spec.positional :
         \E j \in PositionalTokens : Rank(j) = i /\ spec.positional[i] = Def(tokens[j])
    /\ \A v \in spec.variadic :
         \E j \in DOMAIN tokens : tokens[j].kind = "variadic" /\ v = Def(tokens[j])
    /\ \A o \in spec.options :
         \E j \in DOMAIN tokens : tokens[j].kind = "option" /\ o = Def(tokens[j])

LEMMA PositionalFinite ==
  ASSUME TypeOK
  PROVE  /\ IsFiniteSet(PositionalTokens) /\ Cardinality(PositionalTokens) \in Nat
         /\ \A j \in DOMAIN tokens : Rank(j) \in Nat
<1>1. DOMAIN tokens = 1..Len(tokens) /\ Len(tokens) \in Nat
  BY LenProperties DEF TypeOK
<1>2. IsFiniteSet(DOMAIN tokens)
  BY <1>1, FS_Interval
<1>3. PositionalTokens \subseteq DOMAIN tokens
  BY DEF PositionalTokens
<1>4. IsFiniteSet(PositionalTokens)
  BY <1>2, <1>3, FS_Subset
<1>5. \A j \in DOMAIN tokens : Rank(j) \in Nat
  <2> TAKE j \in DOMAIN tokens
  <2>1. {i \in PositionalTokens : i <= j} \subseteq PositionalTokens
    OBVIOUS
  <2> QED BY <1>4, <2>1, FS_Subset, FS_CardinalityType DEF Rank
<1> QED BY <1>4, <1>5, FS_CardinalityType

(* A further token leaves the ranks of those before it, and a positional   *)
(* one has the next rank.                                                  *)
LEMMA RankAppend ==
  ASSUME TypeOK, NEW t \in Token, tokens' = Append(tokens, t)
  PROVE  /\ PositionalTokens \subseteq PositionalTokens'
         /\ \A j \in PositionalTokens : Rank(j)' = Rank(j)
         /\ t.kind = "positional" =>
              /\ Cardinality(PositionalTokens') = Cardinality(PositionalTokens) + 1
              /\ \E j \in PositionalTokens' :
                   tokens'[j] = t /\ Rank(j)' = Cardinality(PositionalTokens) + 1
         /\ t.kind # "positional" => PositionalTokens' = PositionalTokens
<1> DEFINE n == Len(tokens) + 1
<1>1. /\ Len(tokens) \in Nat /\ DOMAIN tokens = 1..Len(tokens)
      /\ DOMAIN tokens' = 1..n
      /\ \A j \in DOMAIN tokens : tokens'[j] = tokens[j]
      /\ tokens'[n] = t
  BY AppendPlaces DEF TypeOK
<1>2. /\ DOMAIN tokens' = DOMAIN tokens \cup {n} /\ n \notin DOMAIN tokens /\ n \in Nat
      /\ \A j \in DOMAIN tokens : ~(n <= j) /\ j <= n
  BY <1>1
<1> HIDE DEF n
<1>3. /\ t.kind = "positional" => PositionalTokens' = PositionalTokens \cup {n}
      /\ t.kind # "positional" => PositionalTokens' = PositionalTokens
      /\ n \notin PositionalTokens /\ PositionalTokens \subseteq DOMAIN tokens
  BY <1>1, <1>2 DEF PositionalTokens
<1>4. \A j \in PositionalTokens : Rank(j)' = Rank(j)
  <2> TAKE j \in PositionalTokens
  <2>1. {i \in PositionalTokens' : i <= j} = {i \in PositionalTokens : i <= j}
    BY <1>2, <1>3
  <2>2. Rank(j)' = Cardinality({i \in PositionalTokens' : i <= j})
    BY DEF Rank
  <2> QED BY <2>1, <2>2 DEF Rank
<1>5. ASSUME t.kind = "positional"
      PROVE  /\ Cardinality(PositionalTokens') = Cardinality(PositionalTokens) + 1
             /\ \E j \in PositionalTokens' :
                  tokens'[j] = t /\ Rank(j)' = Cardinality(PositionalTokens) + 1
  <2>1. Cardinality(PositionalTokens') = Cardinality(PositionalTokens) + 1
    BY <1>3, <1>5, PositionalFinite, FS_AddElement
  <2>2. PICK k \in PositionalTokens' : k = n
    BY <1>3, <1>5
  <2>3. {i \in PositionalTokens' : i <= k} = PositionalTokens'
    BY <1>2, <1>3, <1>5, <2>2
  <2>4. Rank(k)' = Cardinality({i \in PositionalTokens' : i <= k})
    BY DEF Rank
  <2>5. Rank(k)' = Cardinality(PositionalTokens) + 1
    BY <2>1, <2>3, <2>4
  <2> QED BY <1>1, <2>1, <2>2, <2>5
<1> QED BY <1>3, <1>4, <1>5

LEMMA ReadTokenSound ==
  ASSUME TypeOK, SpecSound, NEW t \in Token, ReadToken(t)
  PROVE  SpecSound'
<1>1. CASE Rejects(t)
  BY <1>1 DEF ReadToken, SpecSound
<1>2. CASE ~Rejects(t)
  <2>1. /\ tokens \in Seq(Token) /\ tokens' = Append(tokens, t)
        /\ spec' = Declare(t) /\ spec \in ArgSpec /\ stage = "parsing"
    BY <1>2 DEF ReadToken, TypeOK
  <2>2. /\ \A j \in DOMAIN tokens : j \in DOMAIN tokens' /\ tokens'[j] = tokens[j]
        /\ \E j \in DOMAIN tokens' : tokens'[j] = t
        /\ \A j \in PositionalTokens : j \in DOMAIN tokens
    <3>1. /\ Len(tokens) \in Nat /\ DOMAIN tokens = 1..Len(tokens)
          /\ DOMAIN tokens' = 1..(Len(tokens) + 1)
          /\ \A j \in DOMAIN tokens : tokens'[j] = tokens[j]
          /\ tokens'[Len(tokens) + 1] = t
      BY <2>1, AppendPlaces
    <3>2. /\ \A j \in DOMAIN tokens : j \in DOMAIN tokens'
          /\ Len(tokens) + 1 \in DOMAIN tokens'
      BY <3>1
    <3> QED BY <3>1, <3>2 DEF PositionalTokens
  <2> DEFINE p == spec.positional
             q == spec'.positional
  <2>3. p \in Seq(ArgDef) /\ Def(t) \in ArgDef /\ Len(p) \in Nat
    BY <2>1 DEF ArgSpec, Def, Token, ArgDef
  <2>4. /\ t.kind = "positional" => spec' = [spec EXCEPT !.positional = Append(@, Def(t))]
        /\ t.kind = "variadic" => spec' = [spec EXCEPT !.variadic = {Def(t)}]
        /\ t.kind = "option" => spec' = [spec EXCEPT !.options = @ \cup {Def(t)}]
        /\ t.kind \notin {"positional", "variadic", "option"} =>
             spec' = [spec EXCEPT !.flags = @ \cup {t.name}]
    BY <2>1 DEF Declare, Def
  <2>5. /\ Len(p) = Cardinality(PositionalTokens)
        /\ \A i \in DOMAIN p : \E j \in PositionalTokens : Rank(j) = i /\ p[i] = Def(tokens[j])
    BY <2>1 DEF SpecSound
  <2>6. /\ Len(q) = Cardinality(PositionalTokens')
        /\ \A i \in DOMAIN q : \E j \in PositionalTokens' :
             Rank(j)' = i /\ q[i] = Def(tokens'[j])
    <3>1. ASSUME NEW i \in DOMAIN p
          PROVE  \E j \in PositionalTokens' : Rank(j)' = i /\ p[i] = Def(tokens'[j])
      <4>1. PICK j \in PositionalTokens : Rank(j) = i /\ p[i] = Def(tokens[j])
        BY <2>5
      <4>2. j \in PositionalTokens' /\ Rank(j)' = Rank(j) /\ tokens'[j] = tokens[j]
        BY <2>1, <2>2, RankAppend
      <4> QED BY <4>1, <4>2
    <3>2. CASE t.kind = "positional"
      <4>1. q = Append(p, Def(t))
        BY <2>1, <2>4, <3>2 DEF ArgSpec
      <4>2. /\ Len(q) = Len(p) + 1 /\ DOMAIN q = 1..(Len(p) + 1) /\ DOMAIN p = 1..Len(p)
            /\ \A i \in DOMAIN p : q[i] = p[i]
            /\ q[Len(p) + 1] = Def(t)
        BY <2>3, <4>1, AppendProperties, LenProperties
      <4>3. \E j \in PositionalTokens' : Rank(j)' = Len(p) + 1 /\ Def(tokens'[j]) = Def(t)
        BY <2>1, <2>5, <3>2, RankAppend
      <4>4. \A i \in DOMAIN q : i \in DOMAIN p \/ i = Len(p) + 1
        BY <2>3, <4>2
      <4>5. Len(q) = Cardinality(PositionalTokens')
        BY <2>1, <2>5, <3>2, <4>2, RankAppend
      <4> QED BY <3>1, <4>2, <4>3, <4>4, <4>5
    <3>3. CASE t.kind # "positional"
      <4>1. q = p
        BY <2>1, <2>4, <3>3 DEF ArgSpec
      <4>2. Cardinality(PositionalTokens') = Cardinality(PositionalTokens)
        BY <2>1, <3>3, RankAppend
      <4> QED BY <2>5, <3>1, <4>1, <4>2
    <3> QED BY <3>2, <3>3
  <2>7. \A v \in spec'.variadic :
          \E j \in DOMAIN tokens' : tokens'[j].kind = "variadic" /\ v = Def(tokens'[j])
    <3>1. \A v \in spec'.variadic : v \in spec.variadic \/ (v = Def(t) /\ t.kind = "variadic")
      BY <2>1, <2>4 DEF ArgSpec
    <3> QED BY <2>1, <2>2, <3>1 DEF SpecSound
  <2>8. \A o \in spec'.options :
          \E j \in DOMAIN tokens' : tokens'[j].kind = "option" /\ o = Def(tokens'[j])
    <3>1. \A o \in spec'.options : o \in spec.options \/ (o = Def(t) /\ t.kind = "option")
      BY <2>1, <2>4 DEF ArgSpec
    <3> QED BY <2>1, <2>2, <3>1 DEF SpecSound
  <2> QED BY <2>6, <2>7, <2>8 DEF SpecSound
<1> QED BY <1>1, <1>2

LEMMA SoundInit == Init => SpecSound /\ RefusedForCause
<1> SUFFICES ASSUME Init PROVE SpecSound /\ RefusedForCause
  OBVIOUS
<1>1. tokens = <<>> /\ DOMAIN <<>> = {} /\ stage = "parsing" /\ Len(<<>>) = 0
      /\ spec = EmptySpec
  BY DEF Init
<1>2. PositionalTokens = {}
  BY <1>1 DEF PositionalTokens
<1> QED BY <1>1, <1>2, FS_EmptySet DEF SpecSound, RefusedForCause, EmptySpec

(* A line that does not validate misses something.                         *)
LEMMA RefusalHasCause ==
  ASSUME TypeOK, SpecSound, stage = "typed", tokens # <<>>, ~Validates
  PROVE  \E j \in DOMAIN tokens :
           /\ tokens[j].required /\ ~HasWords(j)
           /\ tokens[j].name \notin Named \cup defaults
<1> USE WordCountType, SpecType, PositionalFinite
<1>1. /\ Len(spec.positional) = Cardinality(PositionalTokens)
      /\ \A i \in DOMAIN spec.positional :
           \E j \in PositionalTokens : Rank(j) = i /\ spec.positional[i] = Def(tokens[j])
      /\ \A v \in spec.variadic :
           \E j \in DOMAIN tokens : tokens[j].kind = "variadic" /\ v = Def(tokens[j])
      /\ \A o \in spec.options :
           \E j \in DOMAIN tokens : tokens[j].kind = "option" /\ o = Def(tokens[j])
  BY DEF SpecSound
<1>2. CASE MissingPositional
  <2>1. PICK i \in DOMAIN spec.positional :
          /\ spec.positional[i].required /\ i > WordCount
          /\ ~Given(spec.positional[i].name)
    BY <1>2 DEF MissingPositional
  <2>2. PICK j \in PositionalTokens : Rank(j) = i /\ spec.positional[i] = Def(tokens[j])
    BY <1>1
  <2>3. /\ j \in DOMAIN tokens /\ tokens[j].kind = "positional"
        /\ tokens[j].required /\ ~Given(tokens[j].name)
    BY <2>1, <2>2 DEF PositionalTokens, Def
  <2>4. ~(Rank(j) <= WordCount)
    BY <2>1, <2>2
  <2> QED BY <2>3, <2>4 DEF HasWords, Given
<1>3. CASE MissingOption
  <2>1. PICK o \in spec.options : o.required /\ ~Given(o.name)
    BY <1>3 DEF MissingOption
  <2>2. PICK j \in DOMAIN tokens : tokens[j].kind = "option" /\ o = Def(tokens[j])
    BY <1>1
  <2> QED BY <2>1, <2>2 DEF Def, HasWords, Given
<1>4. CASE MissingVariadic
  <2>1. PICK v \in spec.variadic :
          v.required /\ WordCount <= Len(spec.positional) /\ ~Given(v.name)
    BY <1>4 DEF MissingVariadic
  <2>2. PICK j \in DOMAIN tokens : tokens[j].kind = "variadic" /\ v = Def(tokens[j])
    BY <1>1
  <2>3. ~(Cardinality(PositionalTokens) < WordCount)
    BY <1>1, <2>1
  <2> QED BY <2>1, <2>2, <2>3 DEF Def, HasWords, Given
<1> QED BY <1>2, <1>3, <1>4 DEF Validates

LEMMA RankUnchanged ==
  UNCHANGED tokens => /\ PositionalTokens' = PositionalTokens
                      /\ \A j \in PositionalTokens : Rank(j)' = Rank(j)
<1> SUFFICES ASSUME UNCHANGED tokens
             PROVE  /\ PositionalTokens' = PositionalTokens
                    /\ \A j \in PositionalTokens : Rank(j)' = Rank(j)
  OBVIOUS
<1>1. PositionalTokens' = PositionalTokens
  BY DEF PositionalTokens
<1>2. ASSUME NEW j \in PositionalTokens PROVE Rank(j)' = Rank(j)
  <2>1. Rank(j)' = Cardinality({i \in PositionalTokens' : i <= j})
    BY DEF Rank
  <2> QED BY <1>1, <2>1 DEF Rank
<1> QED BY <1>1, <1>2

LEMMA SpecSoundKept ==
  SpecSound /\ UNCHANGED <<tokens, spec>>
  /\ (UNCHANGED stage \/ (stage # "rejected" /\ stage' # "parsing"))
    => SpecSound'
BY RankUnchanged DEF SpecSound

LEMMA SoundStep ==
  TypeOK /\ SpecSound /\ RefusedForCause /\ Next => SpecSound' /\ RefusedForCause'
<1> SUFFICES ASSUME TypeOK, SpecSound, RefusedForCause, Next
             PROVE  SpecSound' /\ RefusedForCause'
  OBVIOUS
<1>1. ASSUME NEW t \in Token, ReadToken(t) PROVE SpecSound' /\ RefusedForCause'
  BY <1>1, ReadTokenSound DEF ReadToken, RefusedForCause
<1>2. ASSUME stage # "rejected", stage' # "parsing", UNCHANGED <<tokens, spec>>
      PROVE  SpecSound'
  BY <1>2, SpecSoundKept
<1>3. CASE \E given \in DefaultSets : Load(given)
  BY <1>2, <1>3 DEF Load, parserVars, RefusedForCause
<1>4. CASE \E positional \in NameLists, named \in SUBSET ArgName, given \in DefaultSets :
             LoadStruct(positional, named, given)
  <2>1. tokens' = <<>> /\ stage' = "loaded"
    BY <1>4 DEF LoadStruct
  <2> QED BY <2>1 DEF SpecSound, RefusedForCause
<1>5. CASE \E w \in Lines : TypeLine(w)
  BY <1>2, <1>5 DEF TypeLine, parserVars, RefusedForCause
<1>6. CASE Run
  <2>1. SpecSound'
    BY <1>2, <1>6 DEF Run, parserVars
  <2>2. CASE stage' # "refused"
    BY <2>1, <2>2 DEF RefusedForCause
  <2>3. CASE stage' = "refused" /\ tokens # <<>>
    <3>1. PICK j \in DOMAIN tokens :
            /\ tokens[j].required /\ ~HasWords(j)
            /\ tokens[j].name \notin Named \cup defaults
      BY <1>6, <2>3, RefusalHasCause DEF Run
    <3>2. UNCHANGED <<tokens, argv, consumed, defaults>>
      BY <1>6 DEF Run, parserVars
    <3>3. HasWords(j)' = HasWords(j) /\ Named' = Named
      BY <3>2 DEF HasWords, Rank, PositionalTokens, WordCount, Named, Pairs
    <3> QED BY <2>1, <3>1, <3>2, <3>3 DEF RefusedForCause
  <2>4. CASE tokens = <<>>
    BY <1>6, <2>1, <2>4 DEF RefusedForCause, Run, parserVars
  <2> QED BY <2>2, <2>3, <2>4
<1>7. CASE \E p \in Placeholders, env \in EnvTexts : Render(p, env)
  BY <1>2, <1>7 DEF Render, parserVars, RefusedForCause
<1> QED BY <1>1, <1>3, <1>4, <1>5, <1>6, <1>7 DEF Next

(* validate_args refuses no line that offers everything required: what it  *)
(* counts by place is what the args string says in its order.              *)
THEOREM ArgsRefusedForCause == Spec => []RefusedForCause
<1>1. SpecSound /\ RefusedForCause /\ UNCHANGED vars => SpecSound' /\ RefusedForCause'
  BY SpecSoundKept
     DEF RefusedForCause, vars, PositionalTokens, Rank, HasWords, WordCount, Named, Pairs
<1>2. TypeOK /\ SpecSound /\ RefusedForCause /\ [Next]_vars
        => SpecSound' /\ RefusedForCause'
  BY SoundStep, <1>1
<1> QED BY ArgsTypeOK, SoundInit, <1>2, PTL DEF Spec

-----------------------------------------------------------------------------
(* Where the words end up.                                                 *)

(* What the tokens say of the spec and the spec of the tokens.             *)
SpecIsTokens == TypeOK /\ ParserIsExact /\ SpecComplete /\ SpecSound

(* The i-th positional definition is that of the i-th positional token.    *)
LEMMA PositionalOfRank ==
  ASSUME SpecIsTokens, stage \notin {"parsing", "rejected"},
         NEW j \in PositionalTokens
  PROVE  /\ Rank(j) \in DOMAIN spec.positional
         /\ \A i \in DOMAIN spec.positional :
              spec.positional[i].name = tokens[j].name <=> i = Rank(j)
<1> USE DEF SpecIsTokens
<1>1. j \in DOMAIN tokens /\ tokens[j].kind = "positional" /\ tokens # <<>>
  BY DEF PositionalTokens
<1>2. \A k, l \in DOMAIN tokens : tokens[k].name = tokens[l].name => k = l
  BY DEF ParserIsExact, WellFormed
<1>3. \A i \in DOMAIN spec.positional :
        \E k \in PositionalTokens : Rank(k) = i /\ spec.positional[i] = Def(tokens[k])
  BY <1>1 DEF SpecSound
<1>4. PICK i \in DOMAIN spec.positional : spec.positional[i] = Def(tokens[j])
  BY <1>1 DEF SpecComplete, InSpec
<1>5. ASSUME NEW l \in DOMAIN spec.positional, spec.positional[l].name = tokens[j].name
      PROVE  l = Rank(j)
  <2>1. PICK k \in PositionalTokens : Rank(k) = l /\ spec.positional[l] = Def(tokens[k])
    BY <1>3
  <2>2. k \in DOMAIN tokens /\ tokens[k].name = tokens[j].name
    BY <1>5, <2>1 DEF PositionalTokens, Def
  <2> QED BY <1>1, <1>2, <2>1, <2>2
<1>6. i = Rank(j)
  BY <1>4, <1>5 DEF Def
<1> QED BY <1>4, <1>5, <1>6 DEF Def

(* A name that a token declares is no other argument's.                    *)
LEMMA RestOfToken ==
  ASSUME SpecIsTokens, stage \notin {"parsing", "rejected"}, NEW j \in DOMAIN tokens
  PROVE  /\ tokens[j].kind = "positional" => ~TakesRest(tokens[j].name)
         /\ tokens[j].kind = "variadic" =>
              (TakesRest(tokens[j].name) <=> Cardinality(PositionalTokens) < WordCount)
<1> USE DEF SpecIsTokens
<1>1. tokens # <<>> /\ Len(spec.positional) = Cardinality(PositionalTokens)
  BY DEF SpecSound
<1>2. ASSUME tokens[j].kind = "positional", TakesRest(tokens[j].name) PROVE FALSE
  <2>1. PICK v \in spec.variadic : v.name = tokens[j].name
    BY <1>2 DEF TakesRest
  <2>2. PICK k \in DOMAIN tokens : tokens[k].kind = "variadic" /\ v = Def(tokens[k])
    BY <1>1 DEF SpecSound
  <2>3. tokens[k].name = tokens[j].name
    BY <2>1, <2>2 DEF Def
  <2> QED BY <1>2, <2>2, <2>3 DEF ParserIsExact, WellFormed
<1>3. ASSUME tokens[j].kind = "variadic"
      PROVE  TakesRest(tokens[j].name) <=> Cardinality(PositionalTokens) < WordCount
  <2>1. Def(tokens[j]) \in spec.variadic /\ Def(tokens[j]).name = tokens[j].name
    BY <1>3 DEF SpecComplete, InSpec, Def
  <2> QED BY <1>1, <2>1, WordCountType, PositionalFinite DEF TakesRest
<1> QED BY <1>2, <1>3

(* What an argument that has words is bound to.                            *)
LEMMA BindingOfToken ==
  ASSUME SpecIsTokens, stage \notin {"parsing", "rejected"},
         NEW j \in DOMAIN tokens, tokens[j].name \notin Named, HasWords(j)
  PROVE  /\ tokens[j].name \in DOMAIN ParseArgs
         /\ tokens[j].kind = "positional" =>
              ParseArgs[tokens[j].name] = <<consumed + Rank(j)>>
         /\ tokens[j].kind = "variadic" => ParseArgs[tokens[j].name] = Rest
<1> DEFINE n == tokens[j].name
<1>1. TypeOK
  BY DEF SpecIsTokens
<1>2. n \in ArgName /\ tokens[j].kind \in {"positional", "variadic"}
  <2>1. tokens[j] \in Token
    BY <1>1 DEF TypeOK
  <2>2. n \in ArgName
    BY <2>1 DEF Token
  <2> QED BY <2>2 DEF HasWords
<1> USE WordCountType, SpecType, PositionalFinite
<1>3. CASE tokens[j].kind = "positional"
  <2>1. j \in PositionalTokens
    BY <1>3 DEF PositionalTokens
  <2>2. Rank(j) \in DOMAIN spec.positional /\ Rank(j) <= WordCount /\ Rank(j) \in Nat
        /\ \A i \in DOMAIN spec.positional :
             spec.positional[i].name = n <=> i = Rank(j)
    BY <1>1, <1>3, <2>1, PositionalOfRank DEF HasWords
  <2>3. WordsOf(n) = {Rank(j)}
    BY <2>2 DEF WordsOf
  <2>4. Greatest(WordsOf(n)) = Rank(j)
    <3>1. WordsOf(n) \subseteq 1..WordCount /\ WordsOf(n) # {}
      BY <1>1, <2>2, <2>3
    <3>2. Greatest(WordsOf(n)) \in WordsOf(n)
      BY <1>1, <3>1, GreatestElement
    <3> QED BY <2>3, <3>2
  <2>5. ~TakesRest(n)
    BY <1>3, RestOfToken
  <2>6. n \in DOMAIN ParseArgs
    BY <1>2, <2>3 DEF ParseArgs
  <2>7. ParseArgs[n] = <<consumed + Greatest(WordsOf(n))>>
    BY <2>3, <2>5, <2>6 DEF ParseArgs
  <2> QED BY <1>3, <2>4, <2>6, <2>7
<1>4. CASE tokens[j].kind = "variadic"
  <2>1. TakesRest(n)
    BY <1>4, RestOfToken DEF HasWords
  <2>2. n \in DOMAIN ParseArgs
    BY <1>2, <2>1 DEF ParseArgs
  <2>3. ParseArgs[n] = Rest
    BY <2>1, <2>2 DEF ParseArgs
  <2> QED BY <1>4, <2>2, <2>3
<1> QED BY <1>2, <1>3, <1>4

(* The rest of the line, place by place.                                   *)
LEMMA RestPlaces ==
  ASSUME TypeOK, WordCount > Len(spec.positional)
  PROVE  /\ DOMAIN Rest = 1..(WordCount - Len(spec.positional))
         /\ \A x \in DOMAIN Rest : Rest[x] = consumed + Len(spec.positional) + x
BY DEF Rest

(* A word that an argument is bound to is one the argument owns.           *)
LEMMA HolderOwns ==
  ASSUME SpecIsTokens, stage \notin {"parsing", "rejected"}, tokens # <<>>,
         NEW k \in (consumed + 1)..Len(argv), NEW n \in DOMAIN ParseArgs,
         NEW x \in DOMAIN ParseArgs[n], ParseArgs[n][x] = k
  PROVE  /\ n \notin Named
         /\ \E j \in DOMAIN tokens :
              /\ tokens[j].name = n
              /\ \/ j \in PositionalTokens /\ Rank(j) = k - consumed
                 \/ /\ tokens[j].kind = "variadic"
                    /\ k - consumed > Cardinality(PositionalTokens)
<1>1. TypeOK
  BY DEF SpecIsTokens
<1> USE WordCountType, SpecType, PositionalFinite
<1>2. k \in Nat /\ k > consumed /\ Len(spec.positional) = Cardinality(PositionalTokens)
  BY <1>1 DEF SpecIsTokens, SpecSound
<1>3. n \notin Named
  <2> SUFFICES ASSUME n \in Named PROVE FALSE
    OBVIOUS
  <2>1. Pairs(n) \subseteq 1..consumed /\ Pairs(n) # {}
    BY DEF Named, Pairs
  <2>2. Greatest(Pairs(n)) \in 1..consumed
    BY <1>1, <2>1, GreatestElement
  <2>3. ParseArgs[n] = <<Greatest(Pairs(n))>>
    BY DEF ParseArgs
  <2>4. ParseArgs[n][x] = Greatest(Pairs(n))
    BY <2>3
  <2> QED BY <1>1, <1>2, <2>2, <2>4
<1>4. CASE TakesRest(n)
  <2>1. ParseArgs[n] = Rest /\ WordCount > Len(spec.positional)
    BY <1>3, <1>4 DEF ParseArgs, TakesRest
  <2>2. /\ x \in 1..(WordCount - Len(spec.positional))
        /\ k = consumed + Len(spec.positional) + x
    BY <1>1, <2>1, RestPlaces
  <2>3. k - consumed > Cardinality(PositionalTokens)
    BY <1>1, <1>2, <2>2
  <2>4. PICK v \in spec.variadic : v.name = n
    BY <1>4 DEF TakesRest
  <2>5. PICK j \in DOMAIN tokens : tokens[j].kind = "variadic" /\ v = Def(tokens[j])
    BY DEF SpecIsTokens, SpecSound
  <2> QED BY <1>3, <2>3, <2>4, <2>5 DEF Def
<1>5. CASE ~TakesRest(n)
  <2>1. WordsOf(n) # {}
    <3> SUFFICES ASSUME WordsOf(n) = {} PROVE FALSE
      OBVIOUS
    <3>1. ParseArgs[n] = <<>>
      BY <1>3, <1>5 DEF ParseArgs
    <3> QED BY <3>1
  <2>2. ParseArgs[n] = <<consumed + Greatest(WordsOf(n))>>
    BY <1>3, <1>5, <2>1 DEF ParseArgs
  <2>3. k = consumed + Greatest(WordsOf(n))
    BY <2>2
  <2>4. WordsOf(n) \subseteq 1..WordCount
    BY <1>1 DEF WordsOf
  <2>5. Greatest(WordsOf(n)) \in WordsOf(n)
    BY <1>1, <2>1, <2>4, GreatestElement
  <2>6. /\ k - consumed \in DOMAIN spec.positional
        /\ spec.positional[k - consumed].name = n
    <3> DEFINE g == Greatest(WordsOf(n))
    <3>1. g \in Nat /\ consumed \in Nat
      BY <1>1, <2>4, <2>5, WordCountType
    <3>2. k - consumed = g
      <4> HIDE DEF g
      <4> QED BY <2>3, <3>1 DEF g
    <3>3. g \in DOMAIN spec.positional /\ spec.positional[g].name = n
      BY <2>5 DEF WordsOf
    <3> QED BY <3>2, <3>3
  <2>7. PICK j \in PositionalTokens :
          Rank(j) = k - consumed /\ spec.positional[k - consumed] = Def(tokens[j])
    BY <2>6 DEF SpecIsTokens, SpecSound
  <2> QED BY <1>3, <2>6, <2>7 DEF Def, PositionalTokens
<1> QED BY <1>4, <1>5

(* Once it is sent a command keeps the arguments it was bound to, and the  *)
(* daemon renders one placeholder from them.                               *)
Delivered ==
  /\ stage \in {"sent", "rendered"} => bound = ParseArgs
  /\ stage = "rendered" => rendered = ExpandVar(part)

LEMMA DeliveredStep == TypeOK /\ Delivered /\ [Next]_vars => Delivered'
<1> SUFFICES ASSUME TypeOK, Delivered, [Next]_vars PROVE Delivered'
  OBVIOUS
<1>1. ASSUME UNCHANGED <<defaults, spec, argv, consumed>>
      PROVE  ParseArgs' = ParseArgs
  BY <1>1 DEF ParseArgs, Given, Named, Pairs, WordsOf, TakesRest, Rest, WordCount
<1>2. CASE Run
  <2>1. UNCHANGED <<defaults, spec, argv, consumed>> /\ stage' # "rendered"
    BY <1>2 DEF Run, parserVars
  <2> QED BY <1>1, <1>2, <2>1 DEF Run, Delivered
<1>3. ASSUME NEW p \in Placeholders, NEW env \in EnvTexts, Render(p, env)
      PROVE  Delivered'
  <2>1. /\ UNCHANGED <<defaults, spec, argv, consumed, bound>>
        /\ stage = "sent" /\ part' = ExpandEnv(p, env)
        /\ rendered' = Interpolate(p, env)
    BY <1>3 DEF Render, parserVars, userVars
  <2>2. rendered' = ExpandVar(part)'
    BY <2>1 DEF Interpolate, ExpandVar, TextOf, Typed
  <2> QED BY <1>1, <2>1, <2>2 DEF Delivered
<1>4. CASE UNCHANGED vars
  <2>1. ParseArgs' = ParseArgs /\ UNCHANGED <<stage, bound, rendered, part, argv>>
    BY <1>1, <1>4 DEF vars
  <2>2. ExpandVar(part)' = ExpandVar(part)
    BY <2>1 DEF ExpandVar, TextOf, Typed
  <2> QED BY <2>1, <2>2 DEF Delivered
<1>5. CASE stage' \notin {"sent", "rendered"}
  BY <1>5 DEF Delivered
<1>6. \/ Run \/ UNCHANGED vars
      \/ \E p \in Placeholders, env \in EnvTexts : Render(p, env)
      \/ stage' \notin {"sent", "rendered"}
  BY DEF Next, ReadToken, Load, LoadStruct, TypeLine
<1> QED BY <1>2, <1>3, <1>4, <1>5, <1>6

LEMMA SpecIsTokensInvariant == Spec => [](SpecIsTokens /\ Delivered)
<1>1. Init => Delivered
  BY DEF Init, Delivered
<1>2. Spec => []Delivered
  BY <1>1, ArgsTypeOK, DeliveredStep, PTL DEF Spec
<1>3. Spec => []SpecComplete
  <2>1. RequiredInv /\ UNCHANGED vars => SpecComplete' /\ RequiredAreBound'
    BY DEF RequiredInv, SpecComplete, RequiredAreBound, vars, WordCount
  <2>2. TypeOK /\ SpecComplete /\ RequiredAreBound /\ [Next]_vars
          => SpecComplete' /\ RequiredAreBound'
    BY RequiredStep, <2>1 DEF RequiredInv
  <2> QED BY ArgsTypeOK, RequiredInit, <2>2, PTL DEF Spec
<1>4. Spec => []SpecSound
  <2>1. SpecSound /\ RefusedForCause /\ UNCHANGED vars => SpecSound' /\ RefusedForCause'
    BY SpecSoundKept
       DEF RefusedForCause, vars, PositionalTokens, Rank, HasWords, WordCount, Named, Pairs
  <2>2. TypeOK /\ SpecSound /\ RefusedForCause /\ [Next]_vars
          => SpecSound' /\ RefusedForCause'
    BY SoundStep, <2>1
  <2> QED BY ArgsTypeOK, SoundInit, <2>2, PTL DEF Spec
<1> QED BY <1>2, <1>3, <1>4, ArgsTypeOK, ArgsParserIsExact, PTL DEF SpecIsTokens

(* Every word of a line that the client accepts is bound to the one        *)
(* argument that owns its place, unless that was also given by name, and   *)
(* to no other: parse_args loses and repeats nothing that the args string  *)
(* has a place for, for any definition and any line.                       *)
THEOREM ArgsEveryWordOnce == Spec => []EveryWordOnce
<1>1. ASSUME SpecIsTokens, Delivered, stage \in {"sent", "rendered"}, tokens # <<>>,
             NEW k \in (consumed + 1)..Len(argv)
      PROVE  {n \in DOMAIN bound : \E x \in DOMAIN bound[n] : bound[n][x] = k}
               = {tokens[j].name : j \in
                    {i \in DOMAIN tokens :
                       \/ i \in PositionalTokens /\ Rank(i) = k - consumed
                       \/ /\ tokens[i].kind = "variadic"
                          /\ k - consumed > Cardinality(PositionalTokens)}} \ Named
  <2>1. bound = ParseArgs /\ TypeOK /\ stage \notin {"parsing", "rejected"}
    BY <1>1 DEF Delivered, SpecIsTokens
  <2>2. /\ k \in Nat /\ k > consumed /\ k - consumed <= WordCount
        /\ k - consumed \in Nat
        /\ Len(spec.positional) = Cardinality(PositionalTokens)
    BY <1>1, <2>1, WordCountType DEF SpecIsTokens, SpecSound
  <2>3. ASSUME NEW n \in DOMAIN bound, \E x \in DOMAIN bound[n] : bound[n][x] = k
        PROVE  /\ n \notin Named
               /\ \E j \in DOMAIN tokens :
                    /\ tokens[j].name = n
                    /\ \/ j \in PositionalTokens /\ Rank(j) = k - consumed
                       \/ /\ tokens[j].kind = "variadic"
                          /\ k - consumed > Cardinality(PositionalTokens)
    BY <1>1, <2>1, <2>3, HolderOwns
  <2>4. ASSUME NEW j \in DOMAIN tokens, tokens[j].name \notin Named,
               \/ j \in PositionalTokens /\ Rank(j) = k - consumed
               \/ /\ tokens[j].kind = "variadic"
                  /\ k - consumed > Cardinality(PositionalTokens)
        PROVE  /\ tokens[j].name \in DOMAIN bound
               /\ \E x \in DOMAIN bound[tokens[j].name] : bound[tokens[j].name][x] = k
    <3>1. CASE j \in PositionalTokens /\ Rank(j) = k - consumed
      <4>1. tokens[j].kind = "positional" /\ HasWords(j)
        BY <2>2, <3>1 DEF PositionalTokens, HasWords
      <4>2. /\ tokens[j].name \in DOMAIN bound
            /\ bound[tokens[j].name] = <<consumed + Rank(j)>>
        BY <1>1, <2>1, <2>4, <4>1, BindingOfToken
      <4>3. consumed + Rank(j) = k
        BY <2>1, <2>2, <3>1, WordCountType
      <4>4. 1 \in DOMAIN bound[tokens[j].name] /\ bound[tokens[j].name][1] = k
        BY <4>2, <4>3
      <4> QED BY <4>2, <4>4
    <3>2. CASE /\ tokens[j].kind = "variadic"
               /\ k - consumed > Cardinality(PositionalTokens)
      <4>1. HasWords(j) /\ WordCount > Len(spec.positional)
        BY <2>1, <2>2, <3>2, WordCountType, PositionalFinite DEF HasWords
      <4>2. tokens[j].name \in DOMAIN bound /\ bound[tokens[j].name] = Rest
        BY <1>1, <2>1, <2>4, <3>2, <4>1, BindingOfToken
      <4> DEFINE x == k - consumed - Len(spec.positional)
      <4>3. x \in DOMAIN Rest /\ Rest[x] = k
        BY <2>1, <2>2, <3>2, <4>1, RestPlaces, WordCountType, SpecType
      <4> QED BY <4>2, <4>3
    <3> QED BY <2>4, <3>1, <3>2
  <2> QED BY <2>3, <2>4
<1>2. SpecIsTokens /\ Delivered => EveryWordOnce
  BY <1>1 DEF EveryWordOnce
<1> QED BY <1>2, SpecIsTokensInvariant, PTL

(* The text a phase is given for {n} is what the user typed for n, word by *)
(* word: interpolate does not look again at what it has put in.            *)
THEOREM ArgsTextIsTyped == Spec => []TextIsWhatWasTyped
<1>1. ASSUME SpecIsTokens, Delivered, stage = "rendered", part.word = "var",
             NEW j \in DOMAIN tokens, tokens[j].name = part.name,
             part.name \notin Named, HasWords(j)
      PROVE  rendered = IF tokens[j].kind = "positional"
                        THEN <<argv[consumed + Rank(j)]>>
                        ELSE SubSeq(argv, consumed + Cardinality(PositionalTokens) + 1,
                                    Len(argv))
  <2>1. /\ bound = ParseArgs /\ TypeOK /\ rendered = ExpandVar(part)
        /\ Len(spec.positional) = Cardinality(PositionalTokens)
    BY <1>1 DEF Delivered, SpecIsTokens, SpecSound
  <2>2. /\ part.name \in DOMAIN bound
        /\ tokens[j].kind = "positional" => bound[part.name] = <<consumed + Rank(j)>>
        /\ tokens[j].kind = "variadic" => bound[part.name] = Rest
    BY <1>1, <2>1, BindingOfToken
  <2>3. rendered = TextOf(bound[part.name])
    BY <1>1, <2>1, <2>2 DEF ExpandVar
  <2>4. CASE tokens[j].kind = "positional"
    <3>1. rendered = Typed(<<consumed + Rank(j)>>)
      <4> DEFINE v == <<consumed + Rank(j)>>
      <4>1. v # <<>>
        OBVIOUS
      <4>2. bound[part.name] = v
        BY <2>2, <2>4
      <4>3. TextOf(v) = Typed(v)
        <5> HIDE DEF v
        <5> QED BY <4>1 DEF TextOf
      <4> QED BY <2>3, <4>2, <4>3
    <3>2. Typed(<<consumed + Rank(j)>>) = <<argv[consumed + Rank(j)]>>
      BY DEF Typed
    <3> QED BY <2>4, <3>1, <3>2
  <2>5. CASE tokens[j].kind = "variadic"
    <3> DEFINE rest == SubSeq(argv, consumed + Cardinality(PositionalTokens) + 1, Len(argv))
               from == consumed + Len(spec.positional)
    <3>1. WordCount > Len(spec.positional)
      BY <1>1, <2>1, <2>5, WordCountType, PositionalFinite, SpecType DEF HasWords
    <3>2. /\ DOMAIN Rest = 1..(WordCount - Len(spec.positional))
          /\ \A x \in DOMAIN Rest : Rest[x] = from + x
      BY <2>1, <3>1, RestPlaces
    <3>3. 1 \in DOMAIN Rest
      BY <2>1, <3>1, <3>2, WordCountType, SpecType
    <3>4. rendered = Typed(Rest)
      BY <2>2, <2>3, <2>5, <3>3 DEF TextOf
    <3>5. /\ from \in Nat /\ Len(argv) \in Nat
          /\ Len(argv) - from = WordCount - Len(spec.positional)
      BY <2>1, WordCountType, SpecType
    <3>6. /\ rest \in Seq(Words) /\ Len(rest) = Len(argv) - from
          /\ \A x \in 1..(Len(argv) - from) : rest[x] = argv[from + x]
      <4> DEFINE m == from + 1
                 n == Len(argv)
      <4>1. /\ m \in Int /\ n \in Int /\ m <= n /\ n - m + 1 = n - from
            /\ \A x \in m..n : argv[x] \in Words
            /\ \A x \in 1..(n - from) : m + x - 1 = from + x
        <5>1. argv \in Seq(Words) /\ from \in Nat /\ n \in Nat /\ from < n
          BY <2>1, <3>1, <3>5, WordCountType, SpecType DEF TypeOK
        <5>2. \A x \in 1..n : argv[x] \in Words
          BY <5>1
        <5> HIDE DEF from, n
        <5> QED BY <5>1, <5>2
      <4>2. rest = SubSeq(argv, m, n)
        BY <2>1
      <4> HIDE DEF m, n, rest, from
      <4>3. /\ rest \in Seq(Words)
            /\ Len(rest) = n - m + 1
            /\ \A x \in 1..(n - m + 1) : rest[x] = argv[m + x - 1]
        BY <4>1, <4>2, SubSeqProperties
      <4>4. n = Len(argv)
        BY DEF n
      <4> QED BY <4>1, <4>3, <4>4
    <3>7. Typed(Rest) = [x \in 1..(Len(argv) - from) |-> argv[from + x]]
      BY <3>2, <3>5 DEF Typed
    <3>8. rest = [x \in 1..(Len(argv) - from) |-> argv[from + x]]
      BY <3>6
    <3> QED BY <2>5, <3>4, <3>7, <3>8
  <2>6. tokens[j].kind \in {"positional", "variadic"}
    BY <1>1 DEF HasWords
  <2> QED BY <2>4, <2>5, <2>6
<1>2. SpecIsTokens /\ Delivered => TextIsWhatWasTyped
  BY <1>1 DEF TextIsWhatWasTyped
<1> QED BY <1>2, SpecIsTokensInvariant, PTL
=============================================================================
