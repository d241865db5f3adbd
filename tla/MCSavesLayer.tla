---------------------------- MODULE MCSavesLayer ----------------------------
(* A directory with a file and a directory that holds another file.         *)
EXTENDS SavesLayer

MCName == {"d", "d/a", "d/e", "d/e/b"}
MCAbove == [n \in MCName |->
              CASE n = "d" -> {} [] n = "d/e/b" -> {"d", "d/e"} [] OTHER -> {"d"}]

Image(d, a, e, b) == [n \in MCName |->
    CASE n = "d" -> d [] n = "d/a" -> a [] n = "d/e" -> e [] OTHER -> b]
Plain(t) == [tree |-> t, named |-> t]

\* The second one has a file for d/e, the third one a link to a directory.
MCImages == {Plain(Image("dir", "x", "dir", "x")), Plain(Image("dir", "y", "x", "none")),
             [tree |-> Image("dir", "x", "link", "none"), named |-> Image("dir", "x", "link", "x")]}
=============================================================================
