------------------------------ MODULE Archive -------------------------------
(***************************************************************************)
(* What saving promises: a server that starts finds either all of what the *)
(* last finished save saw, or, if a later save did not finish, nothing.    *)
(***************************************************************************)
CONSTANT Empty

VARIABLES
  store, \* what the server has in memory
  kept,  \* what a server started now would find
  up     \* "serving", "saving", "saved" or "down"

vars == <<store, kept, up>>

Init == store = Empty /\ kept = Empty /\ up = "serving"

Change == up = "serving" /\ UNCHANGED <<kept, up>>

BeginSave == up = "serving" /\ kept' = Empty /\ up' = "saving" /\ UNCHANGED store

EndSave == up = "saving" /\ kept' = store /\ up' = "saved" /\ UNCHANGED store

\* The end of a server, whichever.
End == up # "down" /\ store' = Empty /\ up' = "down" /\ UNCHANGED kept

Recover == up = "down" /\ store' = kept /\ up' = "serving" /\ UNCHANGED kept

Next == Change \/ BeginSave \/ EndSave \/ End \/ Recover

Spec == Init /\ [][Next]_vars
=============================================================================
