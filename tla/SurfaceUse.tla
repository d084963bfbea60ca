----------------------------- MODULE SurfaceUse -----------------------------
(***************************************************************************)
(* What the window system asks of a view that draws from its own thread    *)
(* (the contract of SurfaceHolder.Callback): a canvas is held only while   *)
(* the surface exists, by one thread at a time, and the surface is not     *)
(* given back while a canvas is held.                                      *)
(***************************************************************************)
CONSTANT Views

VARIABLES
  exists,   \* the view's surface exists
  drawing   \* a canvas of it is locked

vars == <<exists, drawing>>

Init ==
  /\ exists = [v \in Views |-> FALSE]
  /\ drawing = [v \in Views |-> FALSE]

Create(v) ==
  /\ ~exists[v]
  /\ exists' = [exists EXCEPT ![v] = TRUE]
  /\ UNCHANGED drawing

Destroy(v) ==
  /\ exists[v] /\ ~drawing[v]
  /\ exists' = [exists EXCEPT ![v] = FALSE]
  /\ UNCHANGED drawing

Lock(v) ==
  /\ exists[v] /\ ~drawing[v]
  /\ drawing' = [drawing EXCEPT ![v] = TRUE]
  /\ UNCHANGED exists

Unlock(v) ==
  /\ drawing[v]
  /\ drawing' = [drawing EXCEPT ![v] = FALSE]
  /\ UNCHANGED exists

Next == \E v \in Views : Create(v) \/ Destroy(v) \/ Lock(v) \/ Unlock(v)

Spec == Init /\ [][Next]_vars
=============================================================================
