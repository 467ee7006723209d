-------------------------- MODULE DocumentedMapRules --------------------------
(***************************************************************************)
(* What the map loader is documented to refuse, and does not.              *)
(***************************************************************************)
EXTENDS MapFile

(* "Loading is strict": a field of the wrong type is a schema_violation    *)
(* (map_loader.h).  No map comes of a file in which a field that has a     *)
(* meaning holds something else.                                           *)
LoadingIsStrict ==
  outcome = "loaded" =>
    \A list \in Lists : \A i \in DOMAIN Listed(file[list]) :
      LET entry == file[list][i]
      IN  \A field \in DOMAIN entry : entry[field] # Mistyped
=============================================================================
