\* Everything that can be launched, with or without reload, --prepare and ATTACH.
SPECIFICATION FairSpec
CONSTANT Sources = {"image", "pc", "wine"}
INVARIANTS
    NothingLeftMounted
    AttachClosedOnce
    SignalStopsGame
PROPERTY SignalInGameExits
