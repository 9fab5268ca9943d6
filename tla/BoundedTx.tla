------------------------------ MODULE BoundedTx ------------------------------
(***************************************************************************)
(* What the package promises of transport TX (README, "Ownership and       *)
(* recovery"): it "is bounded and retains each Host Core frame until       *)
(* exactly one completion".  A frame is accepted once, while there is room *)
(* for it, and is held until it is completed; nothing else ever happens to *)
(* it, and no completion comes for a frame that is not held.  Where the    *)
(* transport Forgets, a held frame may instead be lost, and stays so.      *)
(***************************************************************************)
EXTENDS Integers, FiniteSets

CONSTANTS Frames,     \* the frames that may be submitted
          Capacity,   \* how many may be held at once
          Forgets     \* a held frame may be lost

VARIABLES held, completed, lost

vars == <<held, completed, lost>>

Init == held = {} /\ completed = {} /\ lost = {}

Accept(f) ==
  /\ f \in Frames \ (held \cup completed \cup lost)
  /\ Cardinality(held) < Capacity
  /\ held' = held \cup {f}
  /\ UNCHANGED <<completed, lost>>

Complete(f) ==
  /\ f \in held
  /\ held' = held \ {f}
  /\ completed' = completed \cup {f}
  /\ UNCHANGED lost

Forget(f) ==
  /\ Forgets
  /\ f \in held
  /\ held' = held \ {f}
  /\ lost' = lost \cup {f}
  /\ UNCHANGED completed

Next == \E f \in Frames : Accept(f) \/ Complete(f) \/ Forget(f)

Spec == Init /\ [][Next]_vars
=============================================================================
