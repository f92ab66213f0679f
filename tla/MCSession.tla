------------------------------- MODULE MCSession -------------------------------
(***************************************************************************)
(* Small programs of two files, in one module.  The first declares f,      *)
(* which calls g, and a spec; the second declares g.  Edits change what    *)
(* a spec refers to, shift and remove symbols, and break the program.      *)
(***************************************************************************)
EXTENDS IncrementalSession

F(body)      == Item("fn", "f", "Int", body, {"g"})
G(sig)       == Item("fn", "g", sig, 1, {})
H            == Item("fn", "h", "Int", 1, {})
SpecOf(name, refs) == Item("spec", name, "none", 1, refs)

MCTexts ==
  << {Text(<<F(1), SpecOf("g", {})>>, FALSE, "none"),
      Text(<<SpecOf(FreeStanding, {"f"}), F(2)>>, FALSE, "none")},
     {Text(<<G("Int")>>, FALSE, "none"),
      Text(<<H, G("T")>>, FALSE, "P"),
      Text(<<G("Int")>>, TRUE, "none")} >>

(* The second file only imports the type that the first one's f returns.   *)
ImportTexts ==
  << {Text(<<Item("fn", "f", "T", 1, {})>>, FALSE, "none")},
     {Text(<<H>>, FALSE, "P"), Text(<<H>>, FALSE, "Q")} >>
===============================================================================
