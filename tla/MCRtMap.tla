-------------------------------- MODULE MCRtMap --------------------------------
(* Three keys that share homes and wrap around in every capacity.          *)
EXTENDS RtMap, TLC

CONSTANTS a, b, c

HashOf == (a :> 7) @@ (b :> 7) @@ (c :> 6)
===============================================================================
