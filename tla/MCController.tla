---------------------------- MODULE MCController ----------------------------
(***************************************************************************)
(* A small controller page: one axis of the stick and START, one key, the  *)
(* left mouse button, and of the gamepads two directions of a hat, another *)
(* hat, and two directions at once. Two gamepads have the same name and    *)
(* one has none.                                                           *)
(***************************************************************************)
EXTENDS Controller

CONSTANTS p1, p2, p3, p4

MCKeys == {Input("key", "97")}
MCMouse == {Input("mouse", "1")}
MCPadInputs == {HatInput(0, "Up"), HatInput(0, "Down"), HatInput(1, "Up"), HatInput(0, "UpLeft")}
MCNameOf == p1 :> "A" @@ p2 :> "A" @@ p3 :> "B" @@ p4 :> ""

\* The two gamepads of one name can be told apart by their place only.
Twins == Permutations({p1, p2})

\* bound: START and the stick have nothing in common but the device, and are
\* not bound at the same time.
StickUnused == file["Y Axis"] = NoText /\ \A btn \in {"UP", "DOWN"} : shown[btn] = None
StartUnused == file["START"] = NoText /\ shown["START"] = None
OneInUse == StickUnused \/ StartUnused
=============================================================================
