------------------------------- MODULE MCCanvas -------------------------------
(* An instance of CanvasPreview for TLC.  Requests are interchangeable, and so
   are the keys of the home workspace. *)
EXTENDS CanvasPreview, TLC

CONSTANTS Home, Other,     \* two workspaces
          ForeignKeys      \* the keys of requests from the other one

KeyWorkspaceOf(k) == IF k \in ForeignKeys THEN Other ELSE Home

CanvasSymmetry ==
  Permutations(Requests) \cup Permutations(Previews) \cup Permutations(Keys \ ForeignKeys)
===============================================================================
