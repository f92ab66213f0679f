--------------------------- MODULE MCPackageResolve ---------------------------
(***************************************************************************)
(* An application and two libraries, whose manifests can make a diamond, a *)
(* cycle, a name clash or a hole of the graph.                             *)
(***************************************************************************)
EXTENDS PackageResolve, TLC

Pkg(name, deps) == [name |-> name, deps |-> deps]

MCManifests ==
  [d \in {"app", "util", "core"} |->
     CASE d = "app"  -> {Pkg(1, <<>>), Pkg(1, 2 :> "util"), Pkg(1, 2 :> "util" @@ 3 :> "core")}
       [] d = "util" -> {Pkg(2, <<>>), Pkg(2, 3 :> "core"), Pkg(2, 1 :> "app")}
       [] d = "core" -> {Pkg(3, <<>>), Pkg(2, <<>>), Pkg(3, 2 :> "util"), Unreadable}]

MCCommands ==
  {[op |-> "build"], [op |-> "symbols"], [op |-> "remove", key |-> 2],
   [op |-> "add", key |-> 2, dir |-> "util"], [op |-> "add", key |-> 3, dir |-> "core"],
   [op |-> "add", key |-> 1, dir |-> "core"]}
===============================================================================
