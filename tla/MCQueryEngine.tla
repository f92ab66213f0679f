----------------------------- MODULE MCQueryEngine -----------------------------
(* The query engine over the small host, which ignores the world: it reads *)
(* everything through the engine.                                          *)
EXTENDS QueryEngineSpec, SmallHost

TrackedStep(k, seen, w) == HostStep(k, seen)
===============================================================================
