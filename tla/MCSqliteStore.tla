--------------------------- MODULE MCSqliteStore ---------------------------
(* A JSON store that can be imported, and one with an unknown profile.       *)
EXTENDS SqliteStore, TLC

CONSTANTS h1, h2, f1

MCSources ==
  { [hosts |-> h1 :> f1 @@ h2 :> NoProfile, profiles |-> {f1}, plain |-> TRUE],
    [hosts |-> h1 :> NoProfile @@ h2 :> f1, profiles |-> {}, plain |-> FALSE] }
=============================================================================
