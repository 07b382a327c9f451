------------------------------- MODULE MCArgs -------------------------------
(* Instances of CommandArgs.  Names are interchangeable.                   *)
EXTENDS CommandArgs, TLC

Symmetry == Permutations(ArgName)

UpTo(S, n) == UNION {[1..k -> S] : k \in 0..n}

(* One name at most has a default.                                         *)
MCDefaults == {{}} \cup {{n} : n \in ArgName}

(* At most two assignments by name, then up to three words, each of which  *)
(* looks like a variable of the environment; or something clap refuses; or *)
(* an assignment that comes too late to be one.                            *)
Pair(n) == <<DashA, Assign(n)>>

Leading == {<<>>} \cup {Pair(n) : n \in ArgName}
           \cup {Pair(n) \o Pair(m) : n, m \in ArgName}

Trailing == UpTo({EnvVar}, 3) \cup {<<DashA>>} \cup {<<Switch(n)>> : n \in ArgName}
            \cup {<<EnvVar>> \o Pair(n) : n \in ArgName}

MCLines == {l \o t : l \in Leading, t \in Trailing}

(* Lines that use the switches that a spec may declare.                    *)
MCSwitchLines == UpTo({Plain} \cup {Switch(n) : n \in ArgName}, MaxWords)
=============================================================================
