----------------------------- MODULE RunnerChoice -----------------------------
(***************************************************************************)
(* From the settings of a launch to what runs the game: readAutorun, then  *)
(* the steps of selectRunner (image, prefix, autorun.cmd, --wine, umu),    *)
(* each of which reads and changes what the earlier ones have decided, and the *)
(* check of 32-bit prefixes.                                               *)
(*                                                                         *)
(* A runner is where it is and its name; a Proton's name also stands for    *)
(* its path and for the version in it.                                     *)
(***************************************************************************)
EXTENDS Settings, VersionOrder

CONSTANTS
    Protons,  \* names of Protons
    Path,     \* their paths, for VersionLess
    Family    \* sets of Protons: proton-cachyos, UMU-Proton, GE-Proton, in this order

ASSUME ProtonAssumption ==
    /\ {"RUNNER", "PROTON", "WINE", "ARCH"} \subseteq Key
    /\ IsFiniteSet(Protons) /\ \A p \in Protons : Path[p] \in Seq(Int)
    /\ Family \in [1..3 -> SUBSET Protons]
    /\ \A l \in Launches : /\ l.host.protons \subseteq Protons /\ Blank \notin l.host.bundled
                           /\ l.host.umu \in BOOLEAN
                           /\ l.host.protons # {} => l.host.first \in l.host.protons
    /\ Blank \notin Protons

\* launch.host: protons, wines: the runners installed on the machine; first: the
\* Proton protonRunnerDirs lists first, whatever its version (a directory is looked
\* at after another, each in the order of names); local:
\* /usr/local/bin/proton; bundled: runners/ of the image; prefix: "none",
\* "wine", "wine32" or the Proton that made it; packaged: the image has one;
\* umu: umu-run is there; classic: which Wine runs 32-bit prefixes, "default",
\* "other" or "no"; option: --wine.
host == launch.host

VARIABLES
    pc,
    runnerKey, protonVersion, wineVersion, wineArch,
    wineBinary, imageRunner,
    prefixProton, overrideProton, autoProton,
    forcedWine,          \* forcedWine is not empty
    umuRun, protonDir

keys == <<runnerKey, protonVersion, wineVersion, wineArch>>
choice == <<wineBinary, imageRunner, prefixProton, overrideProton, autoProton,
            forcedWine, umuRun, protonDir>>
runnerVars == <<launch, settings, pc, keys, choice>>

Runner(place, name) == [place |-> place, name |-> name]
None == Runner("none", Blank)
DefaultWine == Runner("default", Blank)

RunnerTypeOK ==
    /\ SettingsType
    /\ pc \in {"layers", "image", "prefix", "autorun", "option", "umu", "arch",
               "play", "refused"}
    /\ pc # "layers" => AllRead
    /\ \A r \in {wineBinary, imageRunner, overrideProton, protonDir} :
         r.place \in {"none", "default", "machine", "image", "opt", "local", "path", "classic"}
    /\ prefixProton \in Protons \cup {Blank} /\ wineArch \in {Blank, "win32", "win64"}
    /\ autoProton \in BOOLEAN /\ forcedWine \in BOOLEAN /\ umuRun \in BOOLEAN
    /\ umuRun = (protonDir # None)
    /\ pc \in {"umu", "arch", "play"} => wineBinary # None

RunnerInit ==
    /\ SettingsInit
    /\ pc = "layers"
    /\ runnerKey = Blank /\ protonVersion = Blank /\ wineVersion = Blank /\ wineArch = Blank
    /\ wineBinary = None /\ imageRunner = None
    /\ prefixProton = Blank /\ overrideProton = None /\ autoProton = FALSE
    /\ forcedWine = FALSE /\ umuRun = FALSE /\ protonDir = None

Step(from, to) == pc = from /\ pc' = to

-----------------------------------------------------------------------------
(* The runners there are.                                                  *)

\* protonDirOf: the Proton of a binary, None for a Wine.
ProtonDirOf(r) == IF r.place \in {"machine", "image"} /\ r.name \in Protons THEN r ELSE None

\* The first family of which there is one installed, if there is one of any.
Preferred ==
    LET there == {i \in DOMAIN Family : Family[i] \cap host.protons # {}}
    IN IF there = {} THEN {} ELSE Family[Min(there)] \cap host.protons

\* findProtonRunner: the wanted one, else the last of the preferred family, else
\* (dirs[0]) the first that was found, be it the oldest.
FindProtonRunner(want) ==
    IF want \in host.protons THEN Runner("machine", want)
    ELSE IF host.protons = {} THEN None
    ELSE IF Preferred = {} THEN Runner("machine", host.first)
    ELSE LET last == LastVersion({Path[p] : p \in Preferred})
         IN  Runner("machine", CHOOSE p \in Preferred : Path[p] = last)

FindImageRunner(want) == IF want \in host.bundled THEN Runner("image", want) ELSE None

\* resolveWineOverride
FindOption ==
    IF host.option = "system" THEN DefaultWine
    ELSE IF host.option \in host.protons THEN Runner("machine", host.option)
    ELSE IF host.option \in host.wines THEN Runner("opt", host.option)
    ELSE None

SystemReg == host.prefix # "none"

-----------------------------------------------------------------------------
(* readAutorun and selectRunner.                                           *)

ReadLayers == Step("layers", "layers") /\ ReadLayer /\ UNCHANGED <<keys, choice>>

ReadAutorun ==
    /\ AllRead /\ Step("layers", "image")
    /\ runnerKey' = AutorunVar("RUNNER") /\ protonVersion' = AutorunVar("PROTON")
    /\ wineVersion' = AutorunVar("WINE") /\ wineArch' = AutorunVar("ARCH")
    /\ UNCHANGED <<launch, settings, choice>>

\* A single runner of the image stands for a PROTON= or WINE= of its name.
Single == IF \E n \in host.bundled : host.bundled = {n}
          THEN CHOOSE n \in host.bundled : TRUE ELSE Blank

\* Mutant: the runners of the image are only looked for by name.
NamedImageRunner ==
    /\ Step("image", "prefix")
    /\ wineBinary' = DefaultWine
    /\ imageRunner' =
         FindImageRunner(IF protonVersion # Blank THEN protonVersion ELSE wineVersion)
    /\ UNCHANGED <<launch, settings, keys, prefixProton, overrideProton, autoProton,
                   forcedWine, umuRun, protonDir>>

\* findWineBinary, then resolveImageRunner; RUNNER= must be an absolute path.
ResolveImageRunner ==
    /\ \/ /\ runnerKey # Blank
          /\ Step("image", IF runnerKey = "relative" /\ host.option = Blank
                           THEN "refused" ELSE "prefix")
          /\ UNCHANGED <<protonVersion, wineVersion, imageRunner>>
       \/ /\ runnerKey = Blank /\ Step("image", "prefix")
          /\ IF protonVersion = Blank /\ wineVersion = Blank
             THEN IF Single \in Protons
                  THEN protonVersion' = Single /\ UNCHANGED wineVersion
                  ELSE wineVersion' = Single /\ UNCHANGED protonVersion
             ELSE UNCHANGED <<protonVersion, wineVersion>>
          /\ imageRunner' =
               FindImageRunner(IF protonVersion' # Blank THEN protonVersion' ELSE wineVersion')
    /\ wineBinary' = DefaultWine
    /\ UNCHANGED <<launch, settings, runnerKey, wineArch, prefixProton, overrideProton,
                   autoProton, forcedWine, umuRun, protonDir>>

\* forcedWine: something asks for a Wine.
Forced(override) ==
    runnerKey # Blank \/ wineVersion # Blank \/ (host.option # Blank /\ override = None)

\* chooseProtonDefault: what the prefix asks for when the autorun has no PROTON=.
ChooseProtonDefault ==
    /\ Step("prefix", "autorun")
    /\ prefixProton' = IF host.prefix \in Protons THEN host.prefix ELSE Blank
    /\ overrideProton' =
         IF prefixProton' # Blank \/ ~SystemReg THEN ProtonDirOf(FindOption) ELSE None
    /\ forcedWine' = Forced(overrideProton')
    /\ LET auto == prefixProton' = Blank /\ ~host.packaged /\ ~forcedWine' /\ ~SystemReg
           asked == protonVersion = Blank /\ (prefixProton' # Blank \/ auto)
           found == FindProtonRunner(prefixProton')
       IN /\ wineBinary' = IF asked /\ found # None THEN found ELSE wineBinary
          /\ autoProton' = (auto /\ ~(asked /\ found = None))
    /\ UNCHANGED <<launch, settings, keys, imageRunner, umuRun, protonDir>>

\* What RUNNER=, PROTON= or WINE= names, None when it is not there.
NamedRunner ==
    IF runnerKey # Blank THEN IF runnerKey = "path" THEN Runner("path", Blank) ELSE None
    ELSE IF imageRunner # None THEN imageRunner
    ELSE IF protonVersion # Blank
         THEN IF protonVersion \in host.protons THEN Runner("machine", protonVersion)
              ELSE IF host.protons = {} /\ host.local THEN Runner("local", Blank)
              ELSE None
    ELSE IF wineVersion = "system" THEN DefaultWine
    ELSE IF wineVersion \in host.wines THEN Runner("opt", wineVersion)
    ELSE None

Names == runnerKey # Blank \/ protonVersion # Blank \/ wineVersion # Blank

\* applyAutorunRunner: --wine comes later; a named runner must be there (die).
ApplyAutorunRunner ==
    /\ \/ (host.option # Blank \/ ~Names) /\ Step("autorun", "option") /\ UNCHANGED wineBinary
       \/ /\ host.option = Blank /\ Names /\ NamedRunner # None
          /\ Step("autorun", "option") /\ wineBinary' = NamedRunner
       \/ /\ host.option = Blank /\ Names /\ NamedRunner = None
          /\ Step("autorun", "refused") /\ UNCHANGED wineBinary
    /\ UNCHANGED <<launch, settings, keys, imageRunner, prefixProton, overrideProton,
                   autoProton, forcedWine, umuRun, protonDir>>

\* applyWineOption
ApplyWineOption ==
    /\ \/ host.option = Blank /\ Step("option", "umu") /\ UNCHANGED wineBinary
       \/ host.option # Blank /\ FindOption # None /\ Step("option", "umu")
          /\ wineBinary' = FindOption
       \/ host.option # Blank /\ FindOption = None /\ Step("option", "refused")
          /\ UNCHANGED wineBinary
    /\ UNCHANGED <<launch, settings, keys, imageRunner, prefixProton, overrideProton,
                   autoProton, forcedWine, umuRun, protonDir>>

ProtonWanted ==
    /\ ~forcedWine
    /\ prefixProton # Blank \/ protonVersion # Blank \/ overrideProton # None \/ autoProton

\* Mutant: a Proton is started by umu whatever prefix there is.
UmuOnAnyPrefix ==
    /\ Step("umu", "arch")
    /\ \/ /\ ProtonWanted /\ ProtonDirOf(wineBinary) # None /\ host.umu
          /\ umuRun' = TRUE /\ protonDir' = ProtonDirOf(wineBinary)
          /\ UNCHANGED wineBinary
       \/ /\ ~(ProtonWanted /\ ProtonDirOf(wineBinary) # None /\ host.umu)
          /\ UNCHANGED <<wineBinary, umuRun, protonDir>>
    /\ UNCHANGED <<launch, settings, keys, imageRunner, prefixProton, overrideProton,
                   autoProton, forcedWine>>

WinePrefix == prefixProton = Blank /\ SystemReg
UmuCan == ProtonDirOf(wineBinary) # None /\ host.umu

\* setupUmu: Proton cannot convert a prefix of Wine; without umu a prefix is made
\* by the default Wine, and one of Proton is run by the Proton's own wine.
SetupUmu ==
    /\ Step("umu", "arch")
    /\ \/ ~ProtonWanted /\ UNCHANGED <<wineBinary, umuRun, protonDir>>
       \/ /\ ProtonWanted /\ WinePrefix
          /\ wineBinary' = DefaultWine /\ UNCHANGED <<umuRun, protonDir>>
       \/ /\ ProtonWanted /\ ~WinePrefix /\ UmuCan
          /\ umuRun' = TRUE /\ protonDir' = ProtonDirOf(wineBinary)
          /\ UNCHANGED wineBinary
       \/ /\ ProtonWanted /\ ~WinePrefix /\ ~UmuCan
          /\ wineBinary' = IF autoProton THEN DefaultWine ELSE wineBinary
          /\ UNCHANGED <<umuRun, protonDir>>
    /\ UNCHANGED <<launch, settings, keys, imageRunner, prefixProton, overrideProton,
                   autoProton, forcedWine>>

\* detectPrefixArch and ensureWin32Runner: a 32-bit prefix needs a classic Wine,
\* which no Proton is; --wine is not overruled.
Arch ==
    IF wineArch # Blank THEN wineArch
    ELSE IF host.prefix = "wine32" THEN "win32" ELSE "win64"
Classic(r) == r.place = "default" /\ host.classic = "default"

EnsureWin32Runner ==
    /\ wineArch' = Arch
    /\ LET fits == Arch # "win32" \/ Classic(wineBinary)
       IN \/ fits /\ Step("arch", "play") /\ UNCHANGED wineBinary
          \/ /\ ~fits /\ host.option = Blank /\ host.classic # "no"
             /\ Step("arch", "play") /\ wineBinary' = Runner("classic", Blank)
          \/ /\ ~fits /\ (host.option # Blank \/ host.classic = "no")
             /\ Step("arch", "refused") /\ UNCHANGED wineBinary
    /\ UNCHANGED <<launch, settings, runnerKey, protonVersion, wineVersion, imageRunner,
                   prefixProton, overrideProton, autoProton, forcedWine, umuRun, protonDir>>

\* buildRunCommand: umu-run takes the place of wine, PROTONPATH names the Proton.
Runs == IF umuRun THEN protonDir ELSE wineBinary

Over == pc \in {"play", "refused"} /\ UNCHANGED runnerVars

RunnerNext ==
    \/ ReadLayers \/ ReadAutorun \/ ResolveImageRunner \/ ChooseProtonDefault
    \/ ApplyAutorunRunner \/ ApplyWineOption \/ SetupUmu \/ EnsureWin32Runner \/ Over

RunnerSpec == RunnerInit /\ [][RunnerNext]_runnerVars

-----------------------------------------------------------------------------
(* Properties.                                                             *)

Plays == pc = "play"

\* What the user and the image ask for, by README.md, "Runner joint au jeu":
\* --wine, RUNNER=, PROTON=, WINE=, a single runner of the image; None: nothing.
Ask(k) == Promised(k).val
Wanted ==
    LET ProtonNamed(n) == IF n \in host.bundled THEN Runner("image", n)
                          ELSE IF n \in host.protons THEN Runner("machine", n)
                          ELSE Runner("local", Blank)
        WineNamed(n) == IF n \in host.bundled THEN Runner("image", n)
                        ELSE IF n = "system" THEN DefaultWine ELSE Runner("opt", n)
    IN IF host.option # Blank THEN FindOption
       ELSE IF Ask("RUNNER") # Blank THEN Runner("path", Blank)
       ELSE IF Ask("PROTON") # Blank THEN ProtonNamed(Ask("PROTON"))
       ELSE IF Ask("WINE") # Blank THEN WineNamed(Ask("WINE"))
       ELSE FindImageRunner(Single)

\* The exceptions: a Proton on a prefix of Wine (runners.go:446-451); an image
\* without prefix that umu cannot start (runners.go:563-566); a 32-bit prefix and
\* a runner that cannot run it (launch.go:304); a Wine of the image that PROTON= names,
\* which setupUmu treats as a Proton unless the prefix is one's (runners.go:550, 563).
Excused ==
    LET proton == ProtonDirOf(Wanted) # None \/ Wanted.place = "local"
    IN  \/ proton /\ SystemReg /\ host.prefix \notin Protons
        \/ (~host.umu \/ Wanted.place = "local") /\ ~SystemReg
        \/ wineArch = "win32" /\ ~Classic(Wanted)
        \/ Wanted.place = "image" /\ ~proton /\ Ask("PROTON") # Blank /\ host.prefix \notin Protons

\* README.md:341-347: a game that starts runs under the runner it was given, by
\* --wine, the autorun or its image, and under no other one; if that is not there,
\* it does not start (selectRunner).
AskedRunnerRuns == Plays /\ Wanted # None => Runs = Wanted \/ Excused

\* One of the family to take, and no other of it is of a later version.  With no
\* Proton of a family nothing is said of versions: the first found is taken.
Newest(name) == name \in Preferred /\ \A p \in Preferred : ~Earlier(Path[name], Path[p])
Substitute(name) == IF Preferred = {} THEN name = host.first ELSE Newest(name)

\* runners.go:266-268: the Proton that made a prefix goes on with it, if it is
\* installed and nobody takes the prefix away from it; if not, or for a game without a
\* prefix, it is the most recent of the family README.md:361-362 names first, as far as
\* they are in one directory; of no family, the one found first, whatever its version
\* (runners.go:290).  A prefix of Wine is never handed to Proton's script, which
\* cannot convert it, whatever asks for Proton (chooseProtonDefault, setupUmu).
PrefixKept ==
    /\ umuRun => ~WinePrefix
    /\ Plays /\ prefixProton # Blank /\ Wanted = None /\ host.protons # {}
       /\ wineArch # "win32" =>
        /\ ProtonDirOf(Runs) # None /\ umuRun = host.umu
        /\ Runs.name = prefixProton \/ (prefixProton \notin host.protons /\ Substitute(Runs.name))
    /\ Plays /\ autoProton /\ umuRun /\ Wanted = None => Substitute(Runs.name)
=============================================================================
