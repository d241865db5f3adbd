---------------------------- MODULE MCRunnerChoice ----------------------------
(***************************************************************************)
(* Three studies of RunnerChoice: keys over all layers, ENV= over all      *)
(* layers, and runners: what an autorun.cmd names against what is there.   *)
(***************************************************************************)
EXTENDS RunnerChoice

\* /a/cachyos-9, /a/cachyos-10, /a/GE, two of no family (/a/P-9, /a/P-10), and one
\* that only an image has.
MCProtons == {"cachyos9", "cachyos", "GE", "P9", "P10", "own"}
MCPath == [p \in MCProtons |->
              CASE p = "cachyos9" -> <<-1, 13, -2, 9>> [] p = "cachyos" -> <<-1, 13, -2, 1, 0>>
                [] p = "GE" -> <<-1, 12>> [] p = "P9" -> <<-1, 14, -2, 9>>
                [] p = "P10" -> <<-1, 14, -2, 1, 0>> [] OTHER -> <<-1, 15>>]
MCFamily == <<{"cachyos9", "cachyos"}, {}, {"GE"}>>

\* versionLess on paths of up to three characters: a mark, two digits, a letter.
ShortPath == UNION {[1..n -> {-1, 0, 1, 10}] : n \in 0..3}
ASSUME VersionAssumption ==
    /\ StrictWeakOrder(ShortPath)
    /\ \A a, b \in ShortPath : VersionLess(a, b) = Earlier(a, b)

MCKey == {"DXVK", "HIDRAW", "VIRTUAL_DESKTOP", "WINE", "PROTON", "RUNNER", "ARCH"}
MCVariable == {"DXVK", "HIDRAW", "VIRTUAL_DESKTOP"}
MCDefault == [k \in MCKey |-> IF k = "DXVK" THEN "1" ELSE IF k = "HIDRAW" THEN "0" ELSE Blank]

LayerNames == {Layers[i] : i \in DOMAIN Layers}
NoLine == [k \in MCKey |-> <<>>]
Empty == [keys |-> NoLine, env |-> <<>>]

Machine == [protons |-> {"GE"}, first |-> "GE", wines |-> {"9.0"}, local |-> FALSE, bundled |-> {},
            prefix |-> "none", packaged |-> FALSE, umu |-> TRUE, classic |-> "default",
            option |-> Blank]

\* Every layer has no line for a key, a value, an empty one, or two lines.
Studied == {"DXVK", "HIDRAW", "VIRTUAL_DESKTOP", "WINE"}
Lines(l) == <<<<>>, <<l>>, <<Blank>>, <<l, Blank>>, <<Blank, l>>>>
KeyLaunches ==
    [layers : {[l \in LayerNames |->
                  [keys |-> [k \in MCKey |-> IF k \in Studied THEN Lines(l)[f[l]] ELSE <<>>],
                   env |-> <<>>]] : f \in [LayerNames -> 1..5]},
     variable : {Blank, "variable"}, host : {Machine}]

\* Every layer has no ENV=, an empty one, or one that sets or removes a or sets
\* a and b; the image may also set a after or before its removal, or have a
\* second line.
Sets(v, l) == [op |-> "set", var |-> v, val |-> l]
Removes(v) == [op |-> "remove", var |-> v, val |-> Blank]
EnvLines(l) ==
    << <<>>, << <<>> >>, << <<Sets("a", l)>> >>, << <<Sets("a", l), Sets("b", l)>> >>,
       << <<Removes("a")>> >>, << <<Removes("a"), Sets("a", l)>> >>,
       << <<Sets("a", l), Removes("a")>> >>, << <<Sets("b", l)>>, <<Sets("a", l)>> >> >>
EnvLaunches ==
    [layers : {[l \in LayerNames |-> [keys |-> NoLine, env |-> EnvLines(l)[f[l]]]] :
                 f \in {g \in [LayerNames -> 1..8] :
                          /\ g["machine"] <= 3
                          /\ \A l \in LayerNames \ {"image"} : g[l] <= 5}},
     variable : {Blank}, host : {Machine}]

Autorun(runner, proton, wine, arch) ==
    [l \in LayerNames |->
       IF l # "image" THEN Empty
       ELSE [keys |-> [NoLine EXCEPT !["RUNNER"] = runner, !["PROTON"] = proton,
                                     !["WINE"] = wine, !["ARCH"] = arch],
             env |-> <<>>]]
Autoruns(arch) ==
    {Autorun(<<>>, <<>>, <<>>, arch)}
    \cup {Autorun(<<r>>, <<>>, <<>>, arch) : r \in {"path", "gone", "relative"}}
    \cup {Autorun(<<>>, <<p>>, <<>>, arch) : p \in {"cachyos", "GE", "own", "tuned"}}
    \cup {Autorun(<<>>, <<>>, <<w>>, arch) : w \in {"9.0", "system", "tuned", "own"}}
    \cup {Autorun(<<>>, <<"GE">>, <<"9.0">>, arch), Autorun(<<"path">>, <<"GE">>, <<>>, arch)}

Hosts(protons, umus, classics) ==
    [protons : protons, first : MCProtons \cup {Blank},
     wines : {{"9.0"}}, local : BOOLEAN,
     bundled : {{}, {"own"}, {"tuned"}, {"own", "tuned"}},
     prefix : {"none", "wine", "wine32", "cachyos", "GE"}, packaged : BOOLEAN,
     umu : umus, classic : classics, option : {Blank, "system", "GE", "9.0", "missing"}]
\* An image with a prefix shows it; /usr/local is looked at when no Proton is there.
\* A Proton of no family is found first, any of them; else the families decide.
Possible(h) ==
    /\ h.packaged => h.prefix # "none"
    /\ h.local => h.protons = {}
    /\ h.first \in IF h.protons = {} THEN {Blank}
                   ELSE IF h.protons \cap {"P9", "P10"} # {} THEN h.protons \cap {"P9", "P10"}
                   ELSE {CHOOSE p \in h.protons : TRUE}

\* The sets of Protons: of the families, of none, and of both.
Installed == SUBSET {"cachyos9", "cachyos", "GE"} \cup {{"P9"}, {"P9", "P10"}, {"P9", "GE"}}

RunnerLaunches ==
    [layers : Autoruns(<<>>), variable : {Blank},
     host : {h \in Hosts(Installed, BOOLEAN, {"default"}) :
               Possible(h)}]
    \cup
    [layers : Autoruns(<<"win32">>), variable : {Blank},
     host : {h \in Hosts({{"GE"}}, {TRUE}, {"default", "other", "no"}) : Possible(h)}]

MCLaunches == KeyLaunches \cup EnvLaunches \cup RunnerLaunches
=============================================================================
