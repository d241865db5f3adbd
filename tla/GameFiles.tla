------------------------------ MODULE GameFiles ------------------------------
(***************************************************************************)
(* What a player is promised about the files of a game: they change when   *)
(* the game changes them, one name and what is below it at a time, or when *)
(* the image is replaced, and never because of an upkeep command, of a     *)
(* change of overlay or of anything that is interrupted.                   *)
(***************************************************************************)
CONSTANTS Name, Below   \* Below[n]: the names below n, n itself left out

VARIABLES
    files,    \* what each name holds
    image,    \* the image they come from
    playing

Starts == ~playing /\ playing' = TRUE /\ UNCHANGED <<files, image>>
Stops == playing /\ playing' = FALSE /\ UNCHANGED <<files, image>>

Writes ==
    /\ playing /\ UNCHANGED <<image, playing>>
    /\ \E n \in Name : \A m \in Name \ (Below[n] \cup {n}) : files'[m] = files[m]

NewImage == ~playing /\ image' # image /\ UNCHANGED playing

Next == Starts \/ Stops \/ Writes \/ NewImage

Spec == ~playing /\ [][Next]_<<files, image, playing>>
=============================================================================
