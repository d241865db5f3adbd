------------------------- MODULE PrefixDllsProofs -------------------------
(***************************************************************************)
(* Theorems about Installs and PrefixDlls, for any number of versions and  *)
(* any DLL, prefix and runner.  First what an installation leaves on the   *)
(* disk, whatever fails or is killed; then what a launch finds under the   *)
(* name of the DLL.                                                        *)
(***************************************************************************)
EXTENDS PrefixDlls, TLAPS

-----------------------------------------------------------------------------
(* One thing and its place.                                                *)

\* An attempt up to the point where the old version is touched, and its end when it
\* gives up: what is under the name and aside is what was there.
Untouched == {"sum", "fetch", "check", "clear", "copy", "copying", "undo"}

\* From the check on, what is put in place is what was fetched.
Checked == {"clear", "copy", "copying", "drop old", "aside", "in", "back", "undo", "tidy"}

\* What may be under the name.
Trusted(c) == c \in Whole \cup {None} /\ (c \in {Damaged, Hollow} => "unchecked" \in faults)

\* Which steps a kind goes through: a place is written where it is, a tree has its old
\* version moved aside, the other things are renamed over it.
StepsFit ==
    /\ step \in {"drop old", "aside", "back", "tidy"} => kind \in Tree
    /\ step \notin {"empty", "link"}
    /\ kind \in Renamed => old = None

\* What was fetched, by the step: unchecked material is on record.
SourceFits ==
    /\ step = "check" => source \in Versions \cup {Damaged}
    /\ step \in Checked => source \in Whole /\ Trusted(source)
    /\ step \in {"drop old", "aside", "in", "back"} => fresh = source
    /\ step = "tidy" => dst = source /\ fresh = None

\* The name, and the version that was there when the attempt began.
NameFits ==
    /\ Trusted(dst) /\ Trusted(before)
    /\ step \in Untouched \cup {"drop old", "aside"} => dst = before
    /\ step = "in" => IF kind \in Tree THEN dst = None /\ old = before ELSE dst = before
    /\ step = "back" => dst = None /\ old = before

\* How an attempt ends.
OutcomeFits ==
    /\ outcome # "none" => step = "idle"
    /\ outcome = "failed" => dst = before
    /\ outcome = "done" => dst = source /\ fresh = None /\ old = None

\* A version that was there is not lost, by a crash or by a failed rename alone.
KeepsOne ==
    /\ "crash" \notin faults /\ step \notin {"in", "back", "tidy"} => old = None
    /\ had /\ step \in Untouched /\ "crash" \notin faults => dst \in Whole
    /\ had /\ step \in Untouched /\ "rename" \notin faults => {dst, old} \cap Whole # {}
    /\ had /\ step = "idle" /\ ~({"crash", "rename"} \subseteq faults)
         => {dst, fresh, old} \cap Whole # {}
    /\ had /\ "crash" \notin faults /\ step # "idle" => before \in Whole
    /\ step = "back" => "rename" \in faults

\* What is copied where it belongs (Place) promises nothing.
InstallInv ==
    /\ PlaceType
    /\ kind \notin Place => StepsFit /\ SourceFits /\ NameFits /\ OutcomeFits /\ KeepsOne

-----------------------------------------------------------------------------
\* Nothing is installed yet, or one version is.
LEMMA InitInstall == InitPlace => InstallInv
  <1> SUFFICES ASSUME InitPlace PROVE InstallInv
    OBVIOUS
  <1> USE InstallsAssumption DEF InitPlace
  <1>1. PlaceType
    <2>1. {dst, fresh, old, source, before} \subseteq Contents
      BY DEF Contents, Whole, Versions
    <2>2. linked \in BOOLEAN /\ had \in BOOLEAN
      OBVIOUS
    <2> QED
      BY <2>1, <2>2 DEF PlaceType, Versions, Steps
  <1>2. StepsFit /\ SourceFits /\ NameFits /\ OutcomeFits /\ KeepsOne
    BY DEF StepsFit, SourceFits, NameFits, OutcomeFits, KeepsOne, Trusted, Untouched, Checked,
               Whole, Versions, None, Damaged, Hollow
  <1> QED
    BY <1>1, <1>2 DEF InstallInv

\* The next version is one of those that may be published.
LEMMA PublishType == PlaceType /\ Publish => published' \in Versions
  <1> SUFFICES ASSUME PlaceType, Publish PROVE published' \in Versions
    OBVIOUS
  <1>1. LastVersion \in Nat
    BY InstallsAssumption
  <1>2. published \in 1..LastVersion
    BY DEF PlaceType, Versions
  <1>3. published < LastVersion /\ published' = published + 1
    BY DEF Publish
  <1> QED
    BY <1>1, <1>2, <1>3 DEF Versions

\* What is installed stays the same thing.
LEMMA KindStays == Install => kind' = kind
  <1> SUFFICES ASSUME Install PROVE kind' = kind
    OBVIOUS
  <1> USE DEF disk, history, Fixed, Unstarted
  <1>1. CASE Start \/ ReadSum \/ Fetch \/ Check \/ GiveUp
    BY <1>1 DEF Start, ReadSum, Fetch, Check, GiveUp
  <1>2. CASE ClearFresh \/ EmptyPlace \/ CopyBegins \/ CopyEnds \/ CopyFails
    BY <1>2 DEF ClearFresh, EmptyPlace, CopyBegins, CopyEnds, CopyFails
  <1>3. CASE DropOld \/ MoveAside \/ MoveIn \/ RenameFails \/ MoveBack \/ Undo \/ Tidy \/ LinkUmu
    BY <1>3 DEF DropOld, MoveAside, MoveIn, RenameFails, MoveBack, Undo, Tidy, LinkUmu
  <1>4. CASE Crash \/ Publish \/ Remove
    BY <1>4 DEF Crash, Publish, Remove
  <1> QED
    BY <1>1, <1>2, <1>3, <1>4 DEF Install

\* A step of an attempt keeps the types.
LEMMA InstallType == PlaceType /\ Install => PlaceType'
  <1> SUFFICES ASSUME PlaceType, Install PROVE PlaceType'
    OBVIOUS
  <1> USE InstallsAssumption DEF PlaceType, Steps, At, Go, Fixed, Unstarted, disk, history,
          Removed, Contents, Whole, None, Part, Damaged, Hollow
  <1>1. CASE Start
    BY <1>1 DEF Start
  <1>2. CASE ReadSum
    BY <1>2 DEF ReadSum
  <1>3. CASE Fetch
    BY <1>3 DEF Fetch
  <1>4. CASE Check
    BY <1>4 DEF Check, First
  <1>5. CASE GiveUp
    BY <1>5 DEF GiveUp
  <1>6. CASE ClearFresh
    BY <1>6 DEF ClearFresh
  <1>7. CASE EmptyPlace
    BY <1>7 DEF EmptyPlace
  <1>8. CASE CopyBegins
    BY <1>8 DEF CopyBegins
  <1>9. CASE CopyEnds
    BY <1>9 DEF CopyEnds
  <1>10. CASE CopyFails
    BY <1>10 DEF CopyFails
  <1>11. CASE DropOld
    BY <1>11 DEF DropOld
  <1>12. CASE MoveAside
    BY <1>12 DEF MoveAside
  <1>13. CASE MoveIn
    BY <1>13 DEF MoveIn
  <1>14. CASE RenameFails
    BY <1>14 DEF RenameFails
  <1>15. CASE MoveBack
    BY <1>15 DEF MoveBack
  <1>16. CASE Undo
    BY <1>16 DEF Undo
  <1>17. CASE Tidy
    BY <1>17 DEF Tidy
  <1>18. CASE LinkUmu
    BY <1>18 DEF LinkUmu
  <1>19. CASE Crash
    BY <1>19 DEF Crash
  <1>20. CASE Publish
    <2>1. published' \in Versions
      BY <1>20, PublishType
    <2> QED
      BY <1>20, <2>1 DEF Publish
  <1>21. CASE Remove
    BY <1>21 DEF Remove
  <1> QED
    BY <1>1, <1>2, <1>3, <1>4, <1>5, <1>6, <1>7, <1>8, <1>9, <1>10, <1>11, <1>12, <1>13, <1>14,
       <1>15, <1>16, <1>17, <1>18, <1>19, <1>20, <1>21 DEF Install

\* A step of an attempt, of the publisher or of the user keeps InstallInv.
LEMMA InstallKeeps == InstallInv /\ Install => InstallInv'
  <1> SUFFICES ASSUME InstallInv, Install, kind \notin Place
               PROVE  (StepsFit /\ SourceFits /\ NameFits /\ OutcomeFits /\ KeepsOne)'
    BY KindStays, InstallType DEF InstallInv
  <1>0. PlaceType /\ kind \in Tree \cup Renamed
        /\ StepsFit /\ SourceFits /\ NameFits /\ OutcomeFits /\ KeepsOne
    BY InstallsAssumption DEF InstallInv, PlaceType
  <1> USE <1>0, InstallsAssumption DEF PlaceType, At, Go, Fixed, Unstarted, disk, history,
          Removed, Contents, Whole, Versions, None, Part, Damaged, Hollow, Tree, Renamed, Place,
          Untouched, Checked, Trusted
  <1> USE DEF StepsFit, SourceFits, NameFits, OutcomeFits, KeepsOne
  <1>1. CASE Start
    <2>1. (StepsFit /\ SourceFits /\ NameFits /\ OutcomeFits)'
      BY <1>1 DEF Start
    <2>2. had' => dst \in Versions \/ old \in Versions
      BY <1>1 DEF Start
    <2>3. had' /\ "crash" \notin faults => dst \in Versions
      BY <1>1, <2>2 DEF Start
    <2>4. KeepsOne'
      BY <1>1, <2>2, <2>3 DEF Start
    <2> QED
      BY <2>1, <2>4
  <1>2. CASE ReadSum
    BY <1>2 DEF ReadSum
  <1>3. CASE Fetch
    BY <1>3 DEF Fetch
  <1>4. CASE Check
    BY <1>4 DEF Check, First, Verified
  <1>5. CASE GiveUp
    BY <1>5 DEF GiveUp
  <1>6. CASE ClearFresh
    BY <1>6 DEF ClearFresh
  <1>7. CASE EmptyPlace
    BY <1>7 DEF EmptyPlace
  <1>8. CASE CopyBegins
    BY <1>8 DEF CopyBegins
  <1>9. CASE CopyEnds
    BY <1>9 DEF CopyEnds
  <1>10. CASE CopyFails
    BY <1>10 DEF CopyFails
  <1>11. CASE DropOld
    <2>1. (StepsFit /\ SourceFits /\ NameFits /\ OutcomeFits)'
      BY <1>11 DEF DropOld
    <2>2. KeepsOne'
      BY <1>11 DEF DropOld
    <2> QED
      BY <2>1, <2>2
  <1>12. CASE MoveAside
    BY <1>12 DEF MoveAside
  <1>13. CASE MoveIn
    BY <1>13 DEF MoveIn
  <1>14. CASE RenameFails
    <2>1. (StepsFit /\ SourceFits /\ NameFits /\ OutcomeFits)'
      BY <1>14 DEF RenameFails
    <2>2. KeepsOne'
      BY <1>14 DEF RenameFails
    <2> QED
      BY <2>1, <2>2
  <1>15. CASE MoveBack
    <2>1. (StepsFit /\ SourceFits /\ NameFits /\ OutcomeFits)'
      BY <1>15 DEF MoveBack
    <2>2. had /\ "crash" \notin faults => before \in Whole /\ dst' = before
      BY <1>15 DEF MoveBack
    <2>3. "rename" \in faults
      BY <1>15 DEF MoveBack
    <2>4. KeepsOne'
      BY <1>15, <2>2, <2>3 DEF MoveBack
    <2> QED
      BY <2>1, <2>4
  <1>16. CASE Undo
    BY <1>16 DEF Undo
  <1>17. CASE Tidy
    <2>1. (StepsFit /\ SourceFits /\ NameFits /\ OutcomeFits)'
      BY <1>17 DEF Tidy
    <2>2. KeepsOne'
      BY <1>17 DEF Tidy
    <2> QED
      BY <2>1, <2>2
  <1>18. CASE LinkUmu
    BY <1>18 DEF LinkUmu
  <1>19. CASE Crash
    <2>1. (StepsFit /\ SourceFits /\ NameFits /\ OutcomeFits)'
      BY <1>19 DEF Crash
    <2>2. step \in Untouched \cup {"drop old", "aside", "in", "back", "tidy"}
      BY <1>19 DEF Crash, Steps
    <2>3. had /\ "rename" \notin faults => {dst, fresh, old} \cap Whole # {}
      BY <1>19, <2>2
    <2>4. KeepsOne'
      BY <1>19, <2>3 DEF Crash
    <2> QED
      BY <2>1, <2>4
  <1>20. CASE Publish
    <2>1. StepsFit'
      BY <1>20 DEF Publish
    <2>2. SourceFits'
      BY <1>20 DEF Publish
    <2>3. NameFits'
      BY <1>20 DEF Publish
    <2>4. OutcomeFits'
      BY <1>20 DEF Publish
    <2>5. KeepsOne'
      BY <1>20 DEF Publish
    <2> QED
      BY <2>1, <2>2, <2>3, <2>4, <2>5
  <1>21. CASE Remove
    BY <1>21 DEF Remove
  <1> QED
    BY <1>1, <1>2, <1>3, <1>4, <1>5, <1>6, <1>7, <1>8, <1>9, <1>10, <1>11, <1>12, <1>13, <1>14,
       <1>15, <1>16, <1>17, <1>18, <1>19, <1>20, <1>21 DEF Install

-----------------------------------------------------------------------------
(* Installation over any launches.                                         *)

\* The steps of a launch leave the disk of Installs alone.
LEMMA NextInstall == InstallInv /\ [Next]_vars => InstallInv'
  <1> SUFFICES ASSUME InstallInv, [Next]_vars PROVE InstallInv'
    OBVIOUS
  <1>1. CASE InstallStep
    BY <1>1, InstallKeeps DEF InstallStep
  <1>2. CASE ~InstallStep
    <2>1. UNCHANGED place
      BY <1>2
         DEF Next, vars, Constant, Given, Launch, ClearGenerated, Settings, InitPrefix,
             UpdateDropsLinks, UpdateWineboot, UpdateDropsCopies, SyncStub, LinkStub, LinkExtra,
             SyncComponent, LinkComponent, Play, PlayOnProton, Ends, CleanCopies
    <2> QED
      <3>1. PlaceType'
        BY <2>1 DEF place, disk, history, InstallInv, PlaceType
      <3>2. kind \notin Place => (StepsFit /\ SourceFits /\ NameFits)'
        BY <2>1 DEF place, disk, history, InstallInv, StepsFit, SourceFits, NameFits, Trusted
      <3>3. kind \notin Place => (OutcomeFits /\ KeepsOne)'
        BY <2>1 DEF place, disk, history, InstallInv, OutcomeFits, KeepsOne
      <3> QED
        BY <2>1, <3>1, <3>2, <3>3 DEF place, InstallInv
  <1> QED
    BY <1>1, <1>2

\* A name stands for a whole version or nothing, whichever step fails or is killed
\* (installTree, cmdPack, installGame, cmdUpdate).
THEOREM NamesAreWhole == Spec => []NameMeansWhole
  <1>1. InstallInv => NameMeansWhole
    BY DEF InstallInv, NameFits, Trusted, NameMeansWhole
  <1>2. Init => InstallInv
    BY InitInstall DEF Init
  <1> QED
    BY <1>1, <1>2, NextInstall, PTL DEF Spec

\* A failed attempt leaves what was there, and neither a crash nor a failed rename
\* alone loses the last whole version (installTree and its undo).
THEOREM VersionIsKept == Spec => []StaysInstalled
  <1>1. InstallInv => StaysInstalled
    <2> SUFFICES ASSUME InstallInv, kind \notin Place
                 PROVE  /\ outcome = "failed" => dst = before
                        /\ outcome = "done" => dst = source /\ fresh = None /\ old = None
                        /\ had /\ ~({"crash", "rename"} \subseteq faults)
                             => {dst, fresh, old} \cap Whole # {}
      BY DEF StaysInstalled
    <2>1. /\ StepsFit /\ SourceFits /\ NameFits /\ OutcomeFits /\ KeepsOne
          /\ step \in Steps
      BY DEF InstallInv, PlaceType
    <2>2. CASE step = "idle" \/ step \in Untouched
      BY <2>1, <2>2 DEF OutcomeFits, KeepsOne
    <2>3. CASE step \in {"drop old", "aside", "in", "back", "tidy"}
      BY <2>1, <2>3 DEF OutcomeFits, SourceFits, Checked
    <2> QED
      BY <2>1, <2>2, <2>3 DEF Steps, Untouched, StepsFit
  <1>2. Init => InstallInv
    BY InitInstall DEF Init
  <1> QED
    BY <1>1, <1>2, NextInstall, PTL DEF Spec

-----------------------------------------------------------------------------
(* One DLL over the launches.                                              *)

\* Launches past configureDllOverrides, and past updatePrefixIfNeeded.
Configured == {"prefix", "update", "wineboot", "drop", "stubs", "stub link", "extra",
               "component", "component link", "ready"}
Updated == {"stubs", "stub link", "extra", "component", "component link", "ready"}

\* A component that is on was asked for and found, and is still there if it never went away.
OnFits ==
    /\ at \in {"clear", "settings"} => ~on
    /\ asked \/ on => case.of # "none"
    /\ on => runner # "umu"
    /\ on /\ at \in Configured /\ "gone" \notin mishaps => Present
    /\ at = "component link" => on
    /\ at = "ready" /\ on /\ "gone" \notin mishaps => upper = "component"
    /\ runner = "umu" => at \in {"idle", "clear", "settings", "ready", "play"}

\* A link to the component, when the launch does not use it.
OffFits ==
    /\ upper = "component" /\ case.image \notin Links => case.of # "none"
    /\ upper = "component" /\ PackagedPrefix /\ at \in Configured \cup {"settings"} => on
    /\ case.of = "fsr4" /\ case.image \notin Links /\ at = "ready" /\ runner # "umu" /\ ~on
         => Shown # "component"

\* The date of wine.inf tells the runner the links are to, as far as the others have one of
\* another date, and unless an update has failed.
StampFits ==
    /\ ~made /\ "update" \notin mishaps
         => /\ upper \notin Links
            /\ at \in {"idle", "clear", "settings", "prefix"} \/ runner = "umu"
    /\ at = "wineboot" /\ case.image \notin Links => upper \notin Links
    /\ at \in {"wineboot", "drop"} => runner \in case.inf
    /\ at \in Updated \cup {"drop"} /\ runner \in case.inf /\ "update" \notin mishaps
         => stamp \in {case.date[runner], "disable"}
    /\ "update" \notin mishaps /\ case.image \notin Links
         => \A r \in Wines : Dated(r) /\ stamp = case.date[r] => upper \notin case.inf \ {r}

\* The game's own DLL is never touched.
OwnFits ==
    case.image = "own" /\ case.of = "none" /\ case.extra = {}
      => /\ upper = "own" \/ (upper = "none" /\ Layered)
         /\ at # "stub link"

\* What the links rest on at every step of every launch.
LinkInv ==
    /\ case \in Cases /\ runner \in Runners
    /\ OnFits /\ OffFits /\ StampFits /\ OwnFits

\* Before any launch, the name holds what the image has.
LEMMA InitLink == Init => LinkInv
  <1> SUFFICES ASSUME Init PROVE LinkInv
    OBVIOUS
  <1> USE DEF Init, Links, Runners, Wines, Configured, Updated
  <1>1. OnFits
    BY DEF OnFits
  <1>2. OffFits
    BY DEF OffFits
  <1>3. StampFits
    BY CasesAssumption DEF StampFits, Dates
  <1>4. OwnFits
    BY DEF OwnFits, Layered
  <1> QED
    BY <1>1, <1>2, <1>3, <1>4 DEF LinkInv

\* No step of a launch or of an installation changes the case.
LEMMA CaseStays == [Next]_vars => case' = case /\ \A r : Dated(r)' <=> Dated(r)
  <1> SUFFICES ASSUME [Next]_vars PROVE case' = case
    BY DEF Dated
  <1> QED
    BY DEF Next, vars, prefix, Constant, Given, Launch, ClearGenerated, Settings, InitPrefix,
           UpdateDropsLinks, UpdateWineboot, UpdateDropsCopies, SyncStub, LinkStub, LinkExtra,
           SyncComponent, LinkComponent, Play, PlayOnProton, Ends, CleanCopies, InstallStep

\* One step of a launch, of its end or of an installation keeps StampFits.
LEMMA StampSteps == LinkInv /\ [Next]_vars => StampFits'
  <1> SUFFICES ASSUME LinkInv, [Next]_vars PROVE StampFits'
    OBVIOUS
  <1>0. case' = case /\ \A r : Dated(r)' <=> Dated(r)
    BY CaseStays
  <1>a. \A r \in Wines : Dated(r) => \A q \in Runners \ {r} : case.date[q] # case.date[r]
    BY DEF Dated
  <1>b. case.inf \subseteq Wines /\ case.date \in [Runners -> Dates]
    BY CasesAssumption DEF LinkInv
  <1> USE <1>0, <1>a, <1>b DEF Dates
  <1> USE DEF LinkInv, OnFits, OffFits, StampFits, OwnFits, Step, Constant, Given, place, disk,
          history,
          Present, Works, Configured, Updated, Links, Runners, Wines, Layered, PackagedPrefix,
          Shown
  <1>1. ASSUME NEW r \in Runners, Launch(r) PROVE StampFits'
    BY <1>1 DEF Launch
  <1>2. CASE ClearGenerated
    BY <1>2 DEF ClearGenerated
  <1>3. CASE Settings
    BY <1>3 DEF Settings, Found
  <1>4. CASE InitPrefix
    BY <1>4 DEF InitPrefix, HasInf
  <1>5. CASE UpdateDropsLinks
    BY <1>5 DEF UpdateDropsLinks, Whiteout, UpToDate, HasInf, Missed
  <1>6. CASE UpdateWineboot
    BY <1>6 DEF UpdateWineboot, HasInf
  <1>7. CASE UpdateDropsCopies
    BY <1>7 DEF UpdateDropsCopies
  <1>8. CASE SyncStub
    BY <1>8 DEF SyncStub, Unlinked, Whiteout, IsFile, Owned
  <1>9. CASE LinkStub
    BY <1>9 DEF LinkStub
  <1>10. CASE LinkExtra
    BY <1>10 DEF LinkExtra
  <1>11. CASE SyncComponent
    BY <1>11 DEF SyncComponent, Found, InTarget, Unlinked, Whiteout
  <1>12. CASE LinkComponent
    BY <1>12 DEF LinkComponent
  <1>13. CASE Play
    BY <1>13 DEF Play
  <1>14. CASE PlayOnProton
    BY <1>14 DEF PlayOnProton
  <1>15. CASE Ends
    BY <1>15 DEF Ends
  <1>16. CASE CleanCopies
    BY <1>16 DEF CleanCopies
  <1>17. CASE InstallStep
    BY <1>17 DEF InstallStep
  <1>18. CASE UNCHANGED vars
    BY <1>18 DEF vars, prefix
  <1> QED
    BY <1>1, <1>2, <1>3, <1>4, <1>5, <1>6, <1>7, <1>8, <1>9, <1>10, <1>11, <1>12, <1>13, <1>14,
       <1>15, <1>16, <1>17, <1>18 DEF Next

\* ... and the other parts of LinkInv.
LEMMA LinkSteps == LinkInv /\ [Next]_vars => (OnFits /\ OffFits /\ OwnFits)'
  <1> SUFFICES ASSUME LinkInv, [Next]_vars PROVE (OnFits /\ OffFits /\ OwnFits)'
    OBVIOUS
  <1> USE DEF LinkInv, OnFits, OffFits, StampFits, OwnFits, Step, Constant, Given, place, disk,
          history,
          Present, Works, Configured, Updated, Links, Runners, Wines, Layered, PackagedPrefix,
          Shown
  <1>1. ASSUME NEW r \in Runners, Launch(r) PROVE (OnFits /\ OffFits /\ OwnFits)'
    BY <1>1 DEF Launch
  <1>2. CASE ClearGenerated
    BY <1>2 DEF ClearGenerated
  <1>3. CASE Settings
    BY <1>3 DEF Settings, Found
  <1>4. CASE InitPrefix
    BY <1>4 DEF InitPrefix, HasInf
  <1>5. CASE UpdateDropsLinks
    BY <1>5 DEF UpdateDropsLinks, Whiteout, UpToDate, HasInf, Missed
  <1>6. CASE UpdateWineboot
    BY <1>6 DEF UpdateWineboot, HasInf
  <1>7. CASE UpdateDropsCopies
    BY <1>7 DEF UpdateDropsCopies
  <1>8. CASE SyncStub
    BY <1>8 DEF SyncStub, Unlinked, Whiteout, IsFile, Owned
  <1>9. CASE LinkStub
    BY <1>9 DEF LinkStub
  <1>10. CASE LinkExtra
    BY <1>10 DEF LinkExtra
  <1>11. CASE SyncComponent
    BY <1>11 DEF SyncComponent, Found, InTarget, Unlinked, Whiteout
  <1>12. CASE LinkComponent
    BY <1>12 DEF LinkComponent
  <1>13. CASE Play
    BY <1>13 DEF Play
  <1>14. CASE PlayOnProton
    BY <1>14 DEF PlayOnProton
  <1>15. CASE Ends
    BY <1>15 DEF Ends
  <1>16. CASE CleanCopies
    BY <1>16 DEF CleanCopies
  <1>17. CASE InstallStep
    BY <1>17 DEF InstallStep
  <1>18. CASE UNCHANGED vars
    BY <1>18 DEF vars, prefix
  <1> QED
    BY <1>1, <1>2, <1>3, <1>4, <1>5, <1>6, <1>7, <1>8, <1>9, <1>10, <1>11, <1>12, <1>13, <1>14,
       <1>15, <1>16, <1>17, <1>18 DEF Next

\* One step keeps LinkInv.
LEMMA NextLink == LinkInv /\ [Next]_vars => LinkInv'
  <1> SUFFICES ASSUME LinkInv, [Next]_vars PROVE (case \in Cases /\ runner \in Runners)'
    BY StampSteps, LinkSteps DEF LinkInv
  <1>1. runner' \in Runners
    BY DEF LinkInv, Next, vars, prefix, Constant, Given, Launch, ClearGenerated, Settings,
           InitPrefix, UpdateDropsLinks, UpdateWineboot, UpdateDropsCopies, SyncStub, LinkStub,
           LinkExtra, SyncComponent, LinkComponent, Play, PlayOnProton, Ends, CleanCopies,
           InstallStep
  <1> QED
    BY <1>1, CaseStays DEF LinkInv

\* Spec keeps both invariants.
LEMMA LinksAlways == Spec => []LinkInv
  BY InitLink, NextLink, PTL DEF Spec

\* A component that is on and never went away has its link in the end, whatever was
\* under the name before (installDxvk and its like, updatePrefixIfNeeded).
THEOREM ComponentLoads == Spec => []AskedIsLoaded
  <1>1. LinkInv => AskedIsLoaded
    <2> SUFFICES ASSUME LinkInv, Starting, on, "gone" \notin mishaps
                 PROVE  Loaded = "component"
      BY DEF AskedIsLoaded
    <2>1. upper = "component" /\ Present /\ case.of # "none"
      BY DEF LinkInv, OnFits, Starting, Configured
    <2>2. Shown = "component"
      BY <2>1 DEF Shown
    <2>3. IsFile("component")
      BY <2>1 DEF IsFile, Found, Runners, Wines
    <2> QED
      BY <2>2, <2>3 DEF Loaded
  <1> QED
    BY <1>1, LinksAlways, PTL

\* A link that is left is cleared, removed or overridden when the component is off
\* (clearGeneratedSystemDlls, installFsr4, configureDllOverrides).
THEOREM UnaskedStaysOut == Spec => []OffMeansOff
  <1>1. LinkInv => OffMeansOff
    <2> SUFFICES ASSUME LinkInv, Starting, ~on, case.image \notin Links,
                        case.of \in {"vkd3d", "d7vk"} => PackagedPrefix
                 PROVE  Loaded # "component"
      BY DEF OffMeansOff
    <2>1. runner # "component" /\ "none" # "component"
      BY DEF LinkInv, Runners, Wines
    <2>2. case.of \in Components \cup {"none"}
      BY CasesAssumption DEF LinkInv
    <2>3. CASE case.of \in {"dxvk", "nvapi"}
      BY <2>1, <2>3 DEF Loaded
    <2>4. CASE case.of \notin {"dxvk", "nvapi"}
      <3>1. Shown # "component"
        BY <2>2, <2>4 DEF LinkInv, OffFits, Starting, Configured, Components, Shown, Links
      <3> QED
        BY <2>1, <2>4, <3>1 DEF Loaded
    <2> QED
      BY <2>3, <2>4
  <1> QED
    BY <1>1, LinksAlways, PTL

\* No link to another runner outlives the change of runner, if both have a wine.inf and its
\* date tells them apart, and the game's own DLL is never replaced (updatePrefixIfNeeded,
\* syncWineStubs).
THEOREM RunnersDllsOrGames == Spec => []RunnersOrGames
  <1>1. LinkInv => RunnersOrGames
    <2>1. ASSUME LinkInv, Starting, Shown \in Wines, stamp # "disable",
                 "update" \notin mishaps, case.image \notin Links,
                 {Shown, runner} \subseteq case.inf, Dated(runner)
          PROVE  Shown = runner
      <3>1. Shown = upper
        BY <2>1 DEF Shown, Links, Runners, Wines
      <3>2. stamp = case.date[runner] /\ runner \in Wines
        BY <2>1 DEF LinkInv, StampFits, Starting, Updated, Runners
      <3> QED
        BY <2>1, <3>1, <3>2 DEF LinkInv, StampFits
    <2>2. ASSUME LinkInv, case.image = "own", case.of = "none", case.extra = {}
          PROVE  Shown = "own"
      BY <2>2 DEF LinkInv, OwnFits, Shown
    <2> QED
      BY <2>1, <2>2 DEF RunnersOrGames
  <1> QED
    BY <1>1, LinksAlways, PTL
===============================================================================
