---------------------------- MODULE CommandArgs -----------------------------
(***************************************************************************)
(* The way of a command's arguments (runbook/src/command.rs, template.rs,  *)
(* cli/src/commands/run.rs): the `args' of a command definition are parsed *)
(* token by token into an ArgSpec; `oj run' splits what was typed with     *)
(* clap, checks it against the spec and binds it to names; the daemon puts *)
(* the bound values into the text of a phase.                              *)
(*                                                                         *)
(* A value is the sequence of the places in the typed line its words come  *)
(* from, and <<>> for a value that is a default of the runbook.  Short     *)
(* aliases are left out: nothing looks at them once they are parsed.  The  *)
(* names pipeline_id, name and workspace, which the runtime sets itself    *)
(* whatever the user gave, are not among ArgName.                          *)
(***************************************************************************)
EXTENDS Naturals, Sequences, FiniteSets

CONSTANTS
  ArgName,
  MaxTokens,    \* bound: tokens of an args string
  MaxWords      \* bound: words typed after the command's name

ASSUME BoundAssumption == MaxTokens \in Nat /\ MaxWords \in Nat

-----------------------------------------------------------------------------
(* The definition of a command.                                            *)

ArgDef == [name : ArgName, required : BOOLEAN]

(* Flags and options are sets, their order matters to nobody; variadic is  *)
(* an Option, a set of at most one.                                        *)
ArgSpec == [positional : Seq(ArgDef), flags : SUBSET ArgName,
            options : SUBSET ArgDef, variadic : {{}} \cup {{d} : d \in ArgDef}]

EmptySpec ==
  [positional |-> <<>>, flags |-> {}, options |-> {}, variadic |-> {}]

(* What the parser tells apart in the string: <name> and [name], with dots *)
(* for a variadic; flags; options with a value; and text that is none of   *)
(* these (InvalidSyntax).  A flag is never required, [--f] and --f are one.*)
Kinds == {"positional", "variadic", "option", "flag", "invalid"}

Token == [kind : Kinds, name : ArgName, required : BOOLEAN]

VARIABLES
  stage,         \* how far the command is
  tokens,        \* the tokens read so far
  spec,          \* the ArgSpec made from them
  names,         \* names seen by the parser
  seenOptional,  \* seen_optional_positional
  defaults,      \* names that have a default
  argv,          \* the words typed after the command's name
  consumed,      \* how many of them clap took as `-a key=value'
  bound,         \* args of the CommandInvoked event
  part,          \* a placeholder of a phase's text
  rendered       \* what the daemon makes of it

vars == <<stage, tokens, spec, names, seenOptional, defaults, argv, consumed,
          bound, part, rendered>>

parserVars == <<tokens, spec, names, seenOptional>>
userVars == <<argv, consumed, bound>>
daemonVars == <<part, rendered>>

Stages == {"parsing", "rejected",            \* the runbook is read
           "loaded", "usage", "typed",       \* clap has seen the line
           "refused", "sent", "rendered"}    \* the client, then the daemon

-----------------------------------------------------------------------------
(* Words and text.  "-a" is the one switch clap knows; a switch the spec   *)
(* declares is just a word that begins with a dash.                        *)

Plain == [word |-> "plain"]
DashA == [word |-> "-a"]
Assign(n) == [word |-> "assign", name |-> n]      \* n=value
Switch(n) == [word |-> "switch", name |-> n]      \* --n
Var(n)    == [word |-> "var", name |-> n]         \* {n}
EnvVar    == [word |-> "env"]                     \* ${VAR:-default}

Words == {Plain, DashA, EnvVar}
         \cup {Assign(n) : n \in ArgName} \cup {Switch(n) : n \in ArgName}
         \cup {Var(n) : n \in ArgName}


Init ==
  /\ stage = "parsing"
  /\ tokens = <<>> /\ spec = EmptySpec /\ names = {} /\ seenOptional = FALSE
  /\ defaults = {}
  /\ argv = <<>> /\ consumed = 0 /\ bound = <<>>
  /\ part = Plain /\ rendered = <<>>

-----------------------------------------------------------------------------
(* parse_arg_spec: one action per turn of its loop.                        *)

(* Mutant: any order of required and optional arguments is taken.          *)
RejectsNoOrder(t) ==
  \/ t.kind = "invalid" \/ t.name \in names
  \/ t.kind \in {"positional", "variadic"} /\ spec.variadic # {}

Rejects(t) ==
  \/ t.kind = "invalid"
  \/ t.name \in names                                      \* DuplicateName
  \/ t.kind \in {"positional", "variadic"} /\ spec.variadic # {}
                                                           \* VariadicNotLast
  \/ t.kind = "positional" /\ t.required /\ seenOptional
                                                     \* OptionalBeforeRequired

(* The spec with the argument that t declares.                             *)
Declare(t) ==
  LET def == [name |-> t.name, required |-> t.required] IN
  CASE t.kind = "positional" -> [spec EXCEPT !.positional = Append(@, def)]
    [] t.kind = "variadic"   -> [spec EXCEPT !.variadic = {def}]
    [] t.kind = "option"     -> [spec EXCEPT !.options = @ \cup {def}]
    [] OTHER                 -> [spec EXCEPT !.flags = @ \cup {t.name}]

ReadToken(t) ==
  /\ stage = "parsing"
  /\ Len(tokens) < MaxTokens
  /\ tokens' = Append(tokens, t)
  /\ IF Rejects(t)
     THEN stage' = "rejected" /\ UNCHANGED <<spec, names, seenOptional>>
     ELSE /\ spec' = Declare(t)
          /\ names' = names \cup {t.name}
          /\ seenOptional' = (seenOptional \/ (t.kind = "positional" /\ ~t.required))
          /\ UNCHANGED stage
  /\ UNCHANGED <<defaults, userVars, daemonVars>>

(* The end of the string: the definition is complete, with its defaults.   *)
Load(given) ==
  /\ stage = "parsing"
  /\ stage' = "loaded"
  /\ defaults' = given
  /\ UNCHANGED <<parserVars, userVars, daemonVars>>

(* The older format gives lists of names, which are not looked at: every   *)
(* positional is required, no option is, and the values that its options   *)
(* are given are dropped.                                                  *)
LoadStruct(positional, named, given) ==
  /\ stage = "parsing" /\ tokens = <<>>
  /\ stage' = "loaded"
  /\ spec' = [EmptySpec EXCEPT
                !.positional = [i \in DOMAIN positional |->
                                  [name |-> positional[i], required |-> TRUE]],
                !.options = {[name |-> n, required |-> FALSE] : n \in named}]
  /\ defaults' = given
  /\ UNCHANGED <<tokens, names, seenOptional, userVars, daemonVars>>

-----------------------------------------------------------------------------
(* oj run.  clap takes pairs of -a and an assignment; the first word that  *)
(* is not a switch, and with trailing_var_arg all that follows it, are the *)
(* positional words.                                                       *)

IsPair(w, i) == w[2*i - 1] = DashA /\ w[2*i].word = "assign"

Splits(w, pairs) ==
  /\ 2 * pairs <= Len(w)
  /\ \A i \in 1..pairs : IsPair(w, i)
  /\ 2 * pairs < Len(w) => w[2 * pairs + 1].word \notin {"-a", "switch"}

(* A line that does not split is refused by clap.                          *)
TypeLine(w) ==
  /\ stage = "loaded"
  /\ argv' = w
  /\ \/ \E pairs \in 0..Len(w) : /\ Splits(w, pairs)
                                 /\ consumed' = 2 * pairs
                                 /\ stage' = "typed"
     \/ /\ \A pairs \in 0..Len(w) : ~Splits(w, pairs)
        /\ stage' = "usage"
        /\ UNCHANGED consumed
  /\ UNCHANGED <<defaults, parserVars, bound, daemonVars>>

WordCount == Len(argv) - consumed            \* positional words

Pairs(n) == {i \in 1..consumed : argv[i] = Assign(n)}
Named == {n \in ArgName : Pairs(n) # {}}

Greatest(S) == CHOOSE x \in S : \A y \in S : y <= x

-----------------------------------------------------------------------------
(* CommandDef::validate_args.                                              *)

(* Mutant: a default does not count.                                       *)
GivenByNameOnly(n) == n \in Named

Given(n) == n \in Named \/ n \in defaults

MissingPositional ==
  \E i \in DOMAIN spec.positional :
    spec.positional[i].required /\ i > WordCount /\ ~Given(spec.positional[i].name)

MissingOption == \E o \in spec.options : o.required /\ ~Given(o.name)

(* Mutant: off by one, the last positional word is counted twice.          *)
MissingVariadicOffByOne ==
  \E v \in spec.variadic :
    v.required /\ WordCount < Len(spec.positional) /\ ~Given(v.name)

MissingVariadic ==
  \E v \in spec.variadic :
    v.required /\ WordCount <= Len(spec.positional) /\ ~Given(v.name)

Validates == ~MissingPositional /\ ~MissingOption /\ ~MissingVariadic

-----------------------------------------------------------------------------
(* CommandDef::parse_args: the defaults, then the words, then what was     *)
(* named, each overriding what came before.                                *)

(* Mutant: without looking whether the line has an i-th word.              *)
WordsOfUnchecked(n) == {i \in DOMAIN spec.positional : spec.positional[i].name = n}

WordsOf(n) == {i \in DOMAIN spec.positional :
                 spec.positional[i].name = n /\ i <= WordCount}

TakesRest(n) == /\ WordCount > Len(spec.positional)
                /\ \E v \in spec.variadic : v.name = n

(* Mutant: a variadic takes every word.                                    *)
RestFromStart == [k \in 1..WordCount |-> consumed + k]

Rest == [k \in 1..(WordCount - Len(spec.positional)) |->
           consumed + Len(spec.positional) + k]

ParseArgs ==
  [n \in {m \in ArgName : Given(m) \/ WordsOf(m) # {} \/ TakesRest(m)} |->
     IF n \in Named THEN <<Greatest(Pairs(n))>>
     ELSE IF TakesRest(n) THEN Rest
     ELSE IF WordsOf(n) # {} THEN <<consumed + Greatest(WordsOf(n))>>
     ELSE <<>>]

(* The client checks the line, binds it and sends CommandInvoked.          *)
Run ==
  /\ stage = "typed"
  /\ \/ Validates /\ bound' = ParseArgs /\ stage' = "sent"
     \/ ~Validates /\ stage' = "refused" /\ UNCHANGED bound
  /\ UNCHANGED <<defaults, parserVars, argv, consumed, daemonVars>>

-----------------------------------------------------------------------------
(* interpolate, for one placeholder of a text (each is replaced by itself):*)
(* the environment first, then the arguments, each in one pass.  The       *)
(* variable of an EnvVar, or its default, may itself hold a placeholder.   *)

ExpandEnv(p, env) == IF p = EnvVar THEN env ELSE p

Typed(value) == [k \in DOMAIN value |-> argv[value[k]]]

TextOf(value) == IF value = <<>> THEN <<Plain>> ELSE Typed(value)

ExpandVar(p) ==
  IF p.word = "var" /\ p.name \in DOMAIN bound
  THEN TextOf(bound[p.name]) ELSE <<p>>

(* Mutant: the environment last.                                           *)
InterpolateEnvLast(p, env) ==
  LET text == ExpandVar(p) IN [k \in DOMAIN text |-> ExpandEnv(text[k], env)]

Interpolate(p, env) == ExpandVar(ExpandEnv(p, env))

Placeholders == {Var(n) : n \in ArgName} \cup {EnvVar}
EnvTexts == {Plain} \cup {Var(n) : n \in ArgName}

Render(p, env) ==
  /\ stage = "sent"
  /\ stage' = "rendered"
  /\ part' = ExpandEnv(p, env)
  /\ rendered' = Interpolate(p, env)
  /\ UNCHANGED <<defaults, parserVars, userVars>>

-----------------------------------------------------------------------------
(* The next-state relation.  An MC module says which names may have        *)
(* defaults together and which lines are typed.                            *)

CONSTANTS DefaultSets, Lines

ASSUME InputAssumption ==
  DefaultSets \subseteq SUBSET ArgName /\ Lines \subseteq Seq(Words)

NameLists == UNION {[1..k -> ArgName] : k \in 0..MaxTokens}

Next ==
  \/ \E t \in Token : (t.kind = "flag" => ~t.required) /\ ReadToken(t)
  \/ \E given \in DefaultSets : Load(given)
  \/ \E positional \in NameLists, named \in SUBSET ArgName, given \in DefaultSets :
       LoadStruct(positional, named, given)
  \/ \E w \in Lines : Len(w) <= MaxWords /\ TypeLine(w)
  \/ Run
  \/ \E p \in Placeholders, env \in EnvTexts : Render(p, env)

Spec == Init /\ [][Next]_vars

-----------------------------------------------------------------------------
(* Properties.  They speak of the string as it was written (tokens) and of *)
(* the line as it was typed (argv), not of the spec in between.            *)

(* Every variable has its type, and every word that an argument is bound   *)
(* to is one of the line.                                                  *)
TypeOK ==
  /\ stage \in Stages
  /\ tokens \in Seq(Token)
  /\ spec \in ArgSpec
  /\ names \subseteq ArgName
  /\ seenOptional \in BOOLEAN
  /\ defaults \subseteq ArgName
  /\ argv \in Seq(Words)
  /\ consumed \in 0..Len(argv)
  /\ DOMAIN bound \subseteq ArgName
  /\ \A n \in DOMAIN bound : bound[n] \in Seq(1..Len(argv))
  /\ part \in Words
  /\ rendered \in Seq(Words)

(* Names differ, a variadic is the last of the positional arguments, and   *)
(* none of those that may be missing comes before one that may not.        *)
WellFormed(s) ==
  /\ \A i \in DOMAIN s : s[i].kind # "invalid"
  /\ \A i, j \in DOMAIN s : s[i].name = s[j].name => i = j
  /\ \A i, j \in DOMAIN s :
       i < j /\ s[i].kind = "variadic" => s[j].kind \notin {"positional", "variadic"}
  /\ \A i, j \in DOMAIN s :
       /\ i < j
       /\ s[i].kind = "positional" /\ ~s[i].required
       /\ s[j].kind = "positional"
       => ~s[j].required

(* parse_arg_spec, with its three early returns, its set of names and its  *)
(* flag, refuses exactly the strings that are not well formed.             *)
ParserIsExact == (stage = "rejected") <=> ~WellFormed(tokens)

(* The places of the positional tokens, and how many come up to the j-th.  *)
PositionalTokens == {j \in DOMAIN tokens : tokens[j].kind = "positional"}
Rank(j) == Cardinality({i \in PositionalTokens : i <= j})

(* What the line offers for the argument that the j-th token declares.     *)
HasWords(j) ==
  \/ tokens[j].kind = "positional" /\ Rank(j) <= WordCount
  \/ tokens[j].kind = "variadic" /\ Cardinality(PositionalTokens) < WordCount

(* validate_args and parse_args agree: a command the client sends has a    *)
(* value for every argument that its runbook requires.                     *)
RequiredAreBound ==
  stage \in {"sent", "rendered"} =>
    /\ \A j \in DOMAIN tokens : tokens[j].required => tokens[j].name \in DOMAIN bound
    /\ \A i \in DOMAIN spec.positional : spec.positional[i].name \in DOMAIN bound
                                         \/ ~spec.positional[i].required

(* A line is refused only if some required argument has no word, no value  *)
(* given by name and no default.                                           *)
RefusedForCause ==
  stage = "refused" /\ tokens # <<>> =>
    \E j \in DOMAIN tokens :
      /\ tokens[j].required /\ ~HasWords(j)
      /\ tokens[j].name \notin Named \cup defaults

(* A word ends up in exactly one argument, unless there is none left for   *)
(* it, when it is dropped, or its argument was also given by name.         *)
EveryWordOnce ==
  stage \in {"sent", "rendered"} /\ tokens # <<>> =>
    \A k \in (consumed + 1)..Len(argv) :
      LET place   == k - consumed
          holders == {n \in DOMAIN bound :
                        \E x \in DOMAIN bound[n] : bound[n][x] = k}
          owners  == {j \in DOMAIN tokens :
                        \/ j \in PositionalTokens /\ Rank(j) = place
                        \/ /\ tokens[j].kind = "variadic"
                           /\ place > Cardinality(PositionalTokens)}
      IN holders = {tokens[j].name : j \in owners} \ Named

(* What the daemon puts for {n} is what the user typed for n, word by word *)
(* and as it was typed, be it text that looks like a placeholder itself.   *)
TextIsWhatWasTyped ==
  stage = "rendered" /\ part.word = "var" =>
    \A j \in DOMAIN tokens :
      tokens[j].name = part.name /\ part.name \notin Named /\ HasWords(j) =>
        rendered = IF tokens[j].kind = "positional"
                   THEN <<argv[consumed + Rank(j)]>>
                   ELSE SubSeq(argv, consumed + Cardinality(PositionalTokens) + 1,
                               Len(argv))

(* An option that the runbook declares and the user gives, as in the       *)
(* document's `oj run deploy prod -t v1.2', has the value given for it.    *)
GivenOptionIsUsed ==
  stage = "sent" =>
    \A k \in (consumed + 1)..(Len(argv) - 1), j \in DOMAIN tokens :
      tokens[j].kind = "option" /\ argv[k] = Switch(tokens[j].name) =>
        tokens[j].name \in DOMAIN bound /\ bound[tokens[j].name] = <<k + 1>>

=============================================================================
