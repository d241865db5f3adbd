--------------------------- MODULE PlayerSavesProofs ---------------------------
(***************************************************************************)
(* Theorems about PlayerSaves, for any save files, any number of saves and *)
(* any mixture of launches, --clear, --saves and --pack.  Each promise has *)
(* an invariant of its own: FilesFit, ProfileFits, CopyFits.               *)
(***************************************************************************)
EXTENDS PlayerSaves, TLAPS

\* The only traits under which os.Rename cannot move a file of SAVEFILES into the library
\* are absent: an overlay is another file system (the run with that setup shows the loss).
RenameWorks ==
    \A s \in Setups : {"overlay", "savefiles"} \subseteq s => "savedir" \in s

\* Where the newest of each file is: in the library once it is there, else in the
\* prefix.  Nothing is in the library before the first redirected launch.
FilesFit ==
    faults \cap {"savedir", "reset"} = {} =>
        /\ \A f \in File : /\ newest[f] # None
                           /\ library[f] # None => library[f] = newest[f]
                           /\ library[f] = None => tree[f] = newest[f] /\ ~link[f]
        /\ redirect => Has("savedir") \/ Has("savefiles")
        /\ ~redirect => /\ pc \notin {"copy", "remove", "files"}
                        /\ \A f \in File : library[f] = None
        /\ pc = "copy" => \A f \in File \ todo : library[f] # None
        /\ pc = "remove" => \A f \in File : /\ library[f] # None
                                            /\ f \notin todo => tree[f] = None
        /\ pc = "files" => (\A f \in File \ todo : link[f]) /\ ~(Has("overlay"))
        /\ pc = "play" /\ redirect => \A f \in File : link[f]

\* Where the profile is while --clear works.
ProfileFits ==
    /\ faults \cap {"clear", "reset"} = {} =>
         /\ pc \in {"tree", "users"} => users = None /\ stash = newestUser
         /\ pc \notin {"tree", "users"} => users = newestUser
    /\ "reset" \notin faults =>
         /\ users \in {None, newestUser}
         /\ pc \in {"tree", "users"} => stash \in {None, newestUser}
    /\ pc = "stash" => stash = None

\* The dates of the profile, of the file --saves reads and of the copy.
CopyFits ==
    /\ newestUser <= now /\ users <= now /\ stash <= now /\ saver <= now /\ copied.date <= now
    /\ faults \cap {"saves", "reset"} = {} =>
         /\ saver # None => /\ saver <= newestUser
                            /\ disturbed => saver < newestUser
         /\ newestUser # None =>
              /\ copied.date <= newestUser
              /\ copied.date = newestUser => copied.content = newestUser

-----------------------------------------------------------------------------
(* Dates and types.                                                        *)

\* The dates of saves, and those next to them.
LEMMA Dates ==
    /\ Version \subseteq Nat /\ None \in Version /\ Packaged \in Version /\ Broken \in Version
    /\ None # Packaged /\ LastSave \in Nat /\ Packaged..LastSave \subseteq Version
    /\ \A d \in Packaged..LastSave : d < LastSave => d + 1 \in Packaged..LastSave
  <1>1. LastSave \in Nat /\ LastSave >= 1
    BY PlayerSavesAssumption
  <1> QED
    BY <1>1 DEF Version, None, Packaged, Broken

\* The dates as numbers.
LEMMA DatesOf ==
    TypeOK => /\ now \in Nat /\ users \in Nat
              /\ stash \in Nat /\ saver \in Nat /\ newestUser \in Nat
              /\ copied.date \in Nat /\ copied.content \in Nat
  <1> SUFFICES ASSUME TypeOK
               PROVE  /\ now \in Nat /\ users \in Nat
                      /\ stash \in Nat /\ saver \in Nat /\ newestUser \in Nat
                      /\ copied.date \in Nat /\ copied.content \in Nat
    OBVIOUS
  <1>1. /\ now \in Version /\ users \in Version
        /\ stash \in Version /\ saver \in Version /\ newestUser \in Version
    BY Dates DEF TypeOK
  <1>2. copied.date \in Version /\ copied.content \in Version
    BY DEF TypeOK
  <1> QED
    BY <1>1, <1>2, Dates

\* Every step of a launch or of a command keeps the types.
LEMMA TypeKept == TypeOK /\ [Next]_vars => TypeOK'
  <1> SUFFICES ASSUME TypeOK, [Next]_vars PROVE TypeOK'
    OBVIOUS
  <1> USE DEF game, profile, copying, At, Goto, Has, Launching, Clearing, TypeOK, Fault
  <1>1. CASE Redirect
    BY <1>1 DEF Redirect
  <1>2. CASE Launch
    BY <1>2 DEF Launch, FirstStep
  <1>3. CASE CopyEnd
    BY <1>3 DEF CopyEnd
  <1>4. CASE LinkDir
    BY <1>4 DEF LinkDir
  <1>5. CASE Stop
    BY <1>5 DEF Stop
  <1>6. CASE SaveProfile
    BY <1>6, Dates DEF SaveProfile
  <1>7. CASE Quit
    BY <1>7 DEF Quit
  <1>8. ASSUME NEW f \in File, CopyFile(f) PROVE TypeOK'
    <2>1. library' \in [File -> Version] /\ faults' \subseteq Fault
      BY <1>8, Dates DEF CopyFile
    <2>2. /\ todo' \subseteq File
          /\ UNCHANGED <<setup, redirect, pc, now, tree, link, newest, profile, copying>>
      BY <1>8 DEF CopyFile
    <2> QED
      BY <2>1, <2>2
  <1>9. ASSUME NEW f \in File, RemoveFile(f) PROVE TypeOK'
    BY <1>9, Dates DEF RemoveFile
  <1>10. ASSUME NEW f \in File, MoveFile(f) PROVE TypeOK'
    BY <1>10, Dates DEF MoveFile
  <1>11. ASSUME NEW f \in File, LinkFile(f) PROVE TypeOK'
    BY <1>11 DEF LinkFile
  <1>12. ASSUME NEW f \in File, Save(f) PROVE TypeOK'
    BY <1>12, Dates DEF Save
  <1>13. CASE StartClear
    BY <1>13 DEF StartClear
  <1>14. CASE ClearOthers
    BY <1>14, Dates DEF ClearOthers
  <1>15. CASE StashUsers
    BY <1>15, Dates DEF StashUsers
  <1>16. CASE ClearTree
    BY <1>16, Dates DEF ClearTree, PackagedAgain
  <1>17. CASE UnstashUsers
    BY <1>17, Dates DEF UnstashUsers
  <1>18. CASE StopClear
    BY <1>18 DEF StopClear
  <1>19. CASE StartSaves
    BY <1>19 DEF StartSaves
  <1>20. CASE EndSaves
    <2>1. copied' \in [content : Version, date : Version]
      BY <1>20, Dates DEF EndSaves, Copied, Reads
    <2>2. saver' \in Version /\ faults' \subseteq Fault
      BY <1>20, Dates DEF EndSaves
    <2> QED
      BY <1>20, <2>1, <2>2 DEF EndSaves
  <1>21. CASE ResetSaves
    BY <1>21, Dates DEF ResetSaves, PackagedAgain
  <1>22. CASE UNCHANGED vars
    BY <1>22 DEF vars
  <1> QED
    BY <1>1, <1>2, <1>3, <1>4, <1>5, <1>6, <1>7, <1>8, <1>9, <1>10, <1>11, <1>12, <1>13, <1>14,
       <1>15, <1>16, <1>17, <1>18, <1>19, <1>20, <1>21, <1>22 DEF Next

\* A step never leaves the newest of a file neither in the library nor in the prefix.
LEMMA FilesKept == RenameWorks /\ TypeOK /\ FilesFit /\ [Next]_vars => FilesFit'
  <1> SUFFICES ASSUME RenameWorks, TypeOK, FilesFit, [Next]_vars PROVE FilesFit'
    OBVIOUS
  <1> USE DEF game, profile, copying, At, Goto, Has, Launching, Clearing, TypeOK, FilesFit,
          RenameWorks, None, Packaged
  <1>1. CASE Redirect
    BY <1>1 DEF Redirect
  <1>2. CASE Launch
    BY <1>2 DEF Launch, FirstStep
  <1>3. CASE CopyEnd
    BY <1>3 DEF CopyEnd
  <1>4. CASE LinkDir
    BY <1>4 DEF LinkDir
  <1>5. CASE Stop
    BY <1>5 DEF Stop
  <1>6. CASE SaveProfile
    BY <1>6 DEF SaveProfile
  <1>7. CASE Quit
    BY <1>7 DEF Quit
  <1>8. ASSUME NEW f \in File, CopyFile(f) PROVE FilesFit'
    BY <1>8 DEF CopyFile
  <1>9. ASSUME NEW f \in File, RemoveFile(f) PROVE FilesFit'
    BY <1>9 DEF RemoveFile
  <1>10. ASSUME NEW f \in File, MoveFile(f) PROVE FilesFit'
    BY <1>10 DEF MoveFile
  <1>11. ASSUME NEW f \in File, LinkFile(f) PROVE FilesFit'
    BY <1>11 DEF LinkFile
  <1>12. ASSUME NEW f \in File, Save(f) PROVE FilesFit'
    BY <1>12 DEF Save
  <1>13. CASE StartClear
    BY <1>13 DEF StartClear
  <1>14. CASE ClearOthers
    BY <1>14 DEF ClearOthers
  <1>15. CASE StashUsers
    BY <1>15 DEF StashUsers
  <1>16. CASE ClearTree
    BY <1>16 DEF ClearTree, PackagedAgain
  <1>17. CASE UnstashUsers
    BY <1>17 DEF UnstashUsers
  <1>18. CASE StopClear
    BY <1>18 DEF StopClear
  <1>19. CASE StartSaves
    BY <1>19 DEF StartSaves
  <1>20. CASE EndSaves
    BY <1>20 DEF EndSaves
  <1>21. CASE ResetSaves
    BY <1>21 DEF ResetSaves, PackagedAgain
  <1>22. CASE UNCHANGED vars
    BY <1>22 DEF vars
  <1> QED
    BY <1>1, <1>2, <1>3, <1>4, <1>5, <1>6, <1>7, <1>8, <1>9, <1>10, <1>11, <1>12, <1>13, <1>14,
       <1>15, <1>16, <1>17, <1>18, <1>19, <1>20, <1>21, <1>22 DEF Next

\* --clear moves the profile and back; what ends elsewhere leaves it where it is.
LEMMA ProfileKept == TypeOK /\ ProfileFits /\ [Next]_vars => ProfileFits'
  <1> SUFFICES ASSUME TypeOK, ProfileFits, [Next]_vars PROVE ProfileFits'
    OBVIOUS
  <1> USE DEF game, profile, copying, At, Goto, Has, Launching, Clearing, TypeOK, ProfileFits
  <1>1. CASE Redirect
    BY <1>1 DEF Redirect
  <1>2. CASE Launch
    BY <1>2 DEF Launch, FirstStep
  <1>3. CASE CopyEnd
    BY <1>3 DEF CopyEnd
  <1>4. CASE LinkDir
    BY <1>4 DEF LinkDir
  <1>5. CASE Stop
    BY <1>5 DEF Stop
  <1>6. CASE SaveProfile
    BY <1>6 DEF SaveProfile
  <1>7. CASE Quit
    BY <1>7 DEF Quit
  <1>8. ASSUME NEW f \in File, CopyFile(f) PROVE ProfileFits'
    BY <1>8 DEF CopyFile
  <1>9. ASSUME NEW f \in File, RemoveFile(f) PROVE ProfileFits'
    BY <1>9 DEF RemoveFile
  <1>10. ASSUME NEW f \in File, MoveFile(f) PROVE ProfileFits'
    BY <1>10 DEF MoveFile
  <1>11. ASSUME NEW f \in File, LinkFile(f) PROVE ProfileFits'
    BY <1>11 DEF LinkFile
  <1>12. ASSUME NEW f \in File, Save(f) PROVE ProfileFits'
    BY <1>12 DEF Save
  <1>13. CASE StartClear
    BY <1>13 DEF StartClear
  <1>14. CASE ClearOthers
    BY <1>14 DEF ClearOthers
  <1>15. CASE StashUsers
    BY <1>15 DEF StashUsers
  <1>16. CASE ClearTree
    BY <1>16 DEF ClearTree, PackagedAgain
  <1>17. CASE UnstashUsers
    BY <1>17 DEF UnstashUsers
  <1>18. CASE StopClear
    BY <1>18 DEF StopClear
  <1>19. CASE StartSaves
    BY <1>19 DEF StartSaves
  <1>20. CASE EndSaves
    BY <1>20 DEF EndSaves
  <1>21. CASE ResetSaves
    BY <1>21 DEF ResetSaves, PackagedAgain
  <1>22. CASE UNCHANGED vars
    BY <1>22 DEF vars
  <1> QED
    BY <1>1, <1>2, <1>3, <1>4, <1>5, <1>6, <1>7, <1>8, <1>9, <1>10, <1>11, <1>12, <1>13, <1>14,
       <1>15, <1>16, <1>17, <1>18, <1>19, <1>20, <1>21, <1>22 DEF Next

\* The copy of --saves has the date of what it read, and a save during the copy a later
\* one.
LEMMA CopyKept == TypeOK /\ ProfileFits /\ CopyFits /\ [Next]_vars => CopyFits'
  <1> SUFFICES ASSUME TypeOK, ProfileFits, CopyFits, [Next]_vars PROVE CopyFits'
    OBVIOUS
  <1> USE DEF game, profile, copying, At, Goto, Has, Launching, Clearing, ProfileFits,
          CopyFits, None
  <1>1. CASE Redirect
    BY <1>1 DEF Redirect
  <1>2. CASE Launch
    BY <1>2 DEF Launch
  <1>3. CASE CopyEnd
    BY <1>3 DEF CopyEnd
  <1>4. CASE LinkDir
    BY <1>4 DEF LinkDir
  <1>5. CASE Stop
    BY <1>5 DEF Stop
  <1>6. CASE SaveProfile
    <2>1. now' = now + 1 /\ newestUser' = now' /\ users' = now'
          /\ saver <= now /\ copied.date <= now /\ stash <= now
      BY <1>6 DEF SaveProfile
    <2>2. saver < newestUser' /\ copied.date < newestUser' /\ newestUser' \in Nat
      BY <2>1, DatesOf
    <2>3. /\ newestUser' <= now' /\ users' <= now' /\ stash <= now'
          /\ copied.date <= now' /\ saver <= now'
          /\ saver <= newestUser' /\ copied.date <= newestUser' /\ copied.date # newestUser'
      BY <2>1, <2>2, DatesOf
    <2>4. UNCHANGED <<copied, saver, faults, stash>>
      BY <1>6 DEF SaveProfile
    <2> QED
      BY <2>2, <2>3, <2>4
  <1>7. CASE Quit
    BY <1>7 DEF Quit
  <1>8. ASSUME NEW f \in File, CopyFile(f) PROVE CopyFits'
    BY <1>8 DEF CopyFile
  <1>9. ASSUME NEW f \in File, RemoveFile(f) PROVE CopyFits'
    BY <1>9 DEF RemoveFile
  <1>10. ASSUME NEW f \in File, MoveFile(f) PROVE CopyFits'
    BY <1>10 DEF MoveFile
  <1>11. ASSUME NEW f \in File, LinkFile(f) PROVE CopyFits'
    BY <1>11 DEF LinkFile
  <1>12. ASSUME NEW f \in File, Save(f) PROVE CopyFits'
    <2>1. now' = now + 1
      BY <1>12 DEF Save
    <2> QED
      BY <1>12, <2>1, DatesOf DEF Save
  <1>13. CASE StartClear
    BY <1>13 DEF StartClear
  <1>14. CASE ClearOthers
    BY <1>14, DatesOf DEF ClearOthers
  <1>15. CASE StashUsers
    BY <1>15 DEF StashUsers
  <1>16. CASE ClearTree
    BY <1>16, DatesOf DEF ClearTree, PackagedAgain
  <1>17. CASE UnstashUsers
    BY <1>17, DatesOf DEF UnstashUsers
  <1>18. CASE StopClear
    BY <1>18 DEF StopClear
  <1>19. CASE StartSaves
    BY <1>19, DatesOf DEF StartSaves
  <1>20. CASE EndSaves
    BY <1>20, DatesOf DEF EndSaves, Copied, Reads
  <1>21. CASE ResetSaves
    BY <1>21, DatesOf DEF ResetSaves, PackagedAgain
  <1>22. CASE UNCHANGED vars
    BY <1>22 DEF vars
  <1> QED
    BY <1>1, <1>2, <1>3, <1>4, <1>5, <1>6, <1>7, <1>8, <1>9, <1>10, <1>11, <1>12, <1>13, <1>14,
       <1>15, <1>16, <1>17, <1>18, <1>19, <1>20, <1>21, <1>22 DEF Next

-----------------------------------------------------------------------------
(* What holds of every history.                                            *)

\* At first the prefix has the image's files and no profile.
LEMMA InitSaves == Init => TypeOK /\ FilesFit /\ ProfileFits /\ CopyFits
  <1> SUFFICES ASSUME Init PROVE TypeOK /\ FilesFit /\ ProfileFits /\ CopyFits
    OBVIOUS
  <1> USE DEF Init
  <1>1. TypeOK
    <2>1. now \in Packaged..LastSave
      BY PlayerSavesAssumption DEF Packaged
    <2>2. copied \in [content : Version, date : Version]
      BY Dates
    <2>3. /\ tree \in [File -> Version] /\ library \in [File -> Version]
          /\ newest \in [File -> Version]
      BY Dates
    <2> QED
      BY <2>1, <2>2, <2>3 DEF TypeOK
  <1>2. FilesFit
    BY Dates DEF FilesFit
  <1>3. ProfileFits
    BY DEF ProfileFits
  <1>4. CopyFits
    BY DEF CopyFits, None, Packaged
  <1> QED
    BY <1>1, <1>2, <1>3, <1>4

\* Every variable keeps its type; a name that is a link has no file of its own.
THEOREM SavesTypeCorrect == Spec => []TypeOK
  <1>1. Init => TypeOK
    BY InitSaves
  <1> QED
    BY <1>1, TypeKept, PTL DEF Spec

\* At the game's start each save file is the newest there is: cp -an and the rename
\* never write over the library, and nothing is removed from the prefix before it is
\* in the library (applySavedir, clearSaves, packPrefix).
THEOREM NewestIsSeen == ASSUME RenameWorks PROVE Spec => []SeesNewest
  <1>1. Init => TypeOK /\ FilesFit
    BY InitSaves
  <1>2. TypeOK /\ FilesFit /\ [Next]_vars => (TypeOK /\ FilesFit)'
    BY TypeKept, FilesKept
  <1>3. TypeOK /\ FilesFit => SeesNewest
    <2> SUFFICES ASSUME TypeOK, FilesFit, At("play"), faults \cap {"savedir", "reset"} = {},
                        NEW f \in File
                 PROVE  Seen(f) = newest[f]
      BY DEF SeesNewest
    <2>1. CASE link[f]
      BY <2>1 DEF FilesFit, Seen
    <2>2. CASE ~link[f]
      BY <2>2 DEF FilesFit, Seen, At
    <2> QED
      BY <2>1, <2>2
  <1> QED
    BY <1>1, <1>2, <1>3, PTL DEF Spec

\* The profile is in drive_c/users, or in .users while --clear is between its two
\* renames, where the next --clear would find it too late (clearSaves).
THEOREM ProfileIsKept == Spec => []UsersKept
  <1>1. Init => TypeOK /\ ProfileFits
    BY InitSaves
  <1>2. TypeOK /\ ProfileFits /\ [Next]_vars => (TypeOK /\ ProfileFits)'
    BY TypeKept, ProfileKept
  <1>3. TypeOK /\ ProfileFits => UsersKept
    BY DEF ProfileFits, UsersKept, Clearing
  <1> QED
    BY <1>1, <1>2, <1>3, PTL DEF Spec

\* A copy of --saves with the date of the save has its content: a save made while cp
\* read is younger than the date that cp -p gave the copy (copyGameSaves).
THEOREM CopyIsUpToDate == Spec => []UpToDate
  <1>1. Init => TypeOK /\ ProfileFits /\ CopyFits
    BY InitSaves
  <1>2. TypeOK /\ ProfileFits /\ CopyFits /\ [Next]_vars => (TypeOK /\ ProfileFits /\ CopyFits)'
    BY TypeKept, ProfileKept, CopyKept
  <1>3. TypeOK /\ ProfileFits /\ CopyFits => UpToDate
    <2> SUFFICES ASSUME TypeOK, ProfileFits, CopyFits, users # None, ~Newer,
                        faults \cap {"saves", "reset"} = {}
                 PROVE  copied.content = users
      BY DEF UpToDate
    <2>1. users = newestUser /\ copied.date <= newestUser
      BY DEF ProfileFits, CopyFits
    <2>2. users <= copied.date
      BY DatesOf DEF Newer
    <2>3. copied.date = newestUser
      BY <2>1, <2>2, DatesOf
    <2> QED
      BY <2>1, <2>3 DEF CopyFits
  <1> QED
    BY <1>1, <1>2, <1>3, PTL DEF Spec
===============================================================================
