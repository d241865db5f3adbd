------------------------------- MODULE Settings -------------------------------
(***************************************************************************)
(* The layers of settings of one launch, read from the weakest to the      *)
(* strongest (loadLayers): what each key is worth (layerLookup) and which  *)
(* ENV= variables the game gets (mergeEnvLayer, mergedEnv, applyWineEnv).  *)
(*                                                                         *)
(* A layer holds, for each key, the values of its lines in their order; a  *)
(* value of ENV= is a sequence of words NAME=value or -NAME.               *)
(***************************************************************************)
EXTENDS Naturals, Sequences, SequencesExt

Blank == ""  \* an empty value

CONSTANTS
    Key,       \* keys other than ENV
    Default,   \* Default[k]: the launcher's default of k, or ""
    Variable,  \* the keys that have an environment variable WSQUASHFS_<k>
    EnvVar,    \* names in ENV= values
    Launches   \* [layers, variable, host]: what launches find (host: RunnerChoice)

Layers == <<"machine", "dossier", "image", "surcharge", "--set">>
Files == {Layers[i] : i \in 2..Len(Layers)}   \* the layers stronger than the machine
Words == {"set", "remove"}

ASSUME SettingsAssumption ==
    /\ Variable \subseteq Key /\ DOMAIN Default = Key
    /\ \A l \in Launches :
         /\ DOMAIN l.layers = Files \cup {"machine"}
         /\ \A n \in DOMAIN l.layers :
              /\ l.layers[n].keys \in [Key -> Seq(STRING)]
              /\ l.layers[n].env \in Seq(Seq([op : Words, var : EnvVar, val : STRING]))

VARIABLES
    launch,      \* the launch
    read,        \* number of layers read
    machineVal,  \* "" when the machine's file has no line for the key
    layerVal, layerSrc,     \* the strongest file so far, "none" when there is none
    envVal,      \* merged ENV=: value of each name, "" when it has none
    envLayers, envRaw       \* layers with an ENV=, and the last line

settings == <<read, machineVal, layerVal, layerSrc, envVal, envLayers, envRaw>>

NoVariable == [v \in EnvVar |-> Blank]

SettingsType ==
    /\ read \in 0..Len(Layers)
    /\ DOMAIN machineVal = Key /\ DOMAIN layerVal = Key
    /\ \A k \in Key : layerSrc[k] \in Files \cup {"none"}
    /\ DOMAIN envVal = EnvVar
    /\ envLayers \in 0..read
    /\ \A i \in DOMAIN envRaw : envRaw[i].op \in Words /\ envRaw[i].var \in EnvVar

SettingsInit ==
    /\ launch \in Launches /\ read = 0
    /\ machineVal = [k \in Key |-> Blank]
    /\ layerVal = [k \in Key |-> Blank] /\ layerSrc = [k \in Key |-> "none"]
    /\ envVal = NoVariable /\ envLayers = 0 /\ envRaw = <<>>

-----------------------------------------------------------------------------
(* ENV=                                                                    *)

\* One word of an ENV= line: NAME=value or -NAME.
MergeWord(env, w) == [env EXCEPT ![w.var] = IF w.op = "set" THEN w.val ELSE Blank]

\* An empty ENV= drops the variables of all weaker layers.
MergeEnvLayer(env, line) ==
    IF line = <<>> THEN NoVariable ELSE FoldLeft(MergeWord, env, line)

\* applyWineEnv of a line as it was written: words without "=" are skipped.
ApplyWord(env, w) == IF w.op = "set" THEN [env EXCEPT ![w.var] = w.val] ELSE env

\* Mutant: the last line counts, however many layers have one.
LastLine == FoldLeft(ApplyWord, NoVariable, envRaw)

\* mergedEnv, then applyWineEnv: one layer with an ENV= is taken as written.
WineEnv == IF envLayers <= 1 THEN FoldLeft(ApplyWord, NoVariable, envRaw) ELSE envVal

-----------------------------------------------------------------------------
(* Keys.                                                                   *)

\* readLayer: the first line of a key in a layer counts.
LineOf(lines) == Head(lines)

ReadEnv(lines) ==
    IF lines = <<>> THEN UNCHANGED <<envVal, envLayers, envRaw>>
    ELSE /\ envVal' = MergeEnvLayer(envVal, LineOf(lines))
         /\ envLayers' = envLayers + 1
         /\ envRaw' = LineOf(lines)

\* loadLayers, one layer after the other.
ReadLayer ==
    LET layer == Layers[read + 1]
        lines == launch.layers[layer].keys
        With(old, new(_)) == [k \in Key |-> IF lines[k] = <<>> THEN old[k] ELSE new(k)]
        Line(k) == LineOf(lines[k])
        Src(k) == layer
    IN  /\ read < Len(Layers) /\ read' = read + 1
        /\ ReadEnv(launch.layers[layer].env)
        /\ IF layer = "machine"
           THEN machineVal' = With(machineVal, Line) /\ UNCHANGED <<layerVal, layerSrc>>
           ELSE /\ layerVal' = With(layerVal, Line)
                /\ layerSrc' = With(layerSrc, Src)
                /\ UNCHANGED machineVal
        /\ UNCHANGED launch

\* The value of WSQUASHFS_<k>, "" when it is not set.
VariableOf(k) == IF k \in Variable THEN launch.variable ELSE Blank

\* Defaults, machine file and environment of the machine.
FromMachine(k) ==
    IF VariableOf(k) # Blank THEN [val |-> VariableOf(k), src |-> "variable"]
    ELSE IF machineVal[k] # Blank THEN [val |-> machineVal[k], src |-> "machine"]
    ELSE [val |-> Default[k], src |-> "default"]

\* Mutant: an empty value hides the machine's.
LookupEmpty(k) ==
    IF layerSrc[k] # "none" THEN [val |-> layerVal[k], src |-> layerSrc[k]]
    ELSE FromMachine(k)

\* layerLookup; WSQUASHFS_HIDRAW comes before everything.
LayerLookup(k) ==
    IF layerSrc[k] # "none" /\ layerVal[k] # Blank /\ ~(k = "HIDRAW" /\ VariableOf(k) # Blank)
    THEN [val |-> layerVal[k], src |-> layerSrc[k]]
    ELSE FromMachine(k)

AutorunVar(k) == LayerLookup(k).val

-----------------------------------------------------------------------------
(* What README.md, "Réglages par couches", says.                           *)

AllRead == read = Len(Layers)
LinesOf(i, k) == launch.layers[Layers[i]].keys[k]
Strongest(S) == CHOOSE i \in S : \A j \in S : j <= i

\* The strongest of the files 4 to 7 that has the key decides; an empty value
\* there, or none, goes back to layers 1 to 3.  WSQUASHFS_HIDRAW comes first.
Promised(k) ==
    LET named == {i \in 2..Len(Layers) : LinesOf(i, k) # <<>>}
        top == Layers[Strongest(named)]
        value == LinesOf(Strongest(named), k)[1]
        \* the strongest of the layers 1 to 3 that is not empty
        machine == {s \in {[rank |-> 1, val |-> Default[k], src |-> "default"],
                           [rank |-> 2, src |-> "machine",
                            val |-> IF LinesOf(1, k) = <<>> THEN Blank ELSE LinesOf(1, k)[1]],
                           [rank |-> 3, val |-> VariableOf(k), src |-> "variable"]} :
                      s.val # Blank \/ s.rank = 1}
        base == CHOOSE s \in machine : \A t \in machine : t.rank <= s.rank
    IN IF named = {} \/ value = Blank \/ (k = "HIDRAW" /\ VariableOf(k) # Blank)
       THEN [val |-> base.val, src |-> base.src]
       ELSE [val |-> value, src |-> top]

\* Every key has the value of the strongest layer that defines it, and --show
\* names that layer, whatever mixture of repeated, empty and missing lines the
\* layers hold (layerLookup, readLayer).
StrongestWins == AllRead => \A k \in Key : LayerLookup(k) = Promised(k)

EnvLine(i) == LET lines == launch.layers[Layers[i]].env IN lines[1]
EnvLayers == {i \in 1..Len(Layers) : launch.layers[Layers[i]].env # <<>>}
Naming(line, v) == {j \in DOMAIN line : line[j].var = v}

\* Layers that decide v: they name it, or have an empty ENV=.
Deciding(v) == {i \in EnvLayers : EnvLine(i) = <<>> \/ Naming(EnvLine(i), v) # {}}

PromisedEnv(v) ==
    LET line == EnvLine(Strongest(Deciding(v)))
        word == line[Strongest(Naming(line, v))]
    IN IF Deciding(v) = {} \/ line = <<>> THEN Blank
       ELSE IF word.op = "set" THEN word.val ELSE Blank

\* A line that sets v and removes it again: README.md:422 has -NAME take away
\* what a weaker layer set, mergeEnvLayer takes it away here too, but not when
\* the line is the only one (mergedEnv).
Undone(v) ==
    \E i \in EnvLayers : \E j, l \in Naming(EnvLine(i), v) :
        j < l /\ EnvLine(i)[j].op = "set" /\ EnvLine(i)[l].op = "remove"

\* Each ENV= variable is what the strongest layer that names it says, whether
\* the other layers have no ENV=, an empty one or one about other variables
\* (mergeEnvLayer, mergedEnv).
EnvMerged == AllRead => \A v \in EnvVar : WineEnv[v] = PromisedEnv(v) \/ Undone(v)
=============================================================================
