----------------------------- MODULE OrderIntake -----------------------------
(***************************************************************************)
(* What the ingestion of orders promises, whatever is redelivered, retried *)
(* or crashes: the durable traces of an order come into being one after    *)
(* the other and once each. An order is stored, then logged, then          *)
(* announced to its kitchen; it may get stuck on the way.                  *)
(***************************************************************************)
CONSTANT Orders

VARIABLE phase   \* phase[o]: how far the intake of order o has come

Phases == {"new", "stored", "logged", "announced"}

Init == phase = [o \in Orders |-> "new"]

Advance(o, from, to) ==
  phase[o] = from /\ phase' = [phase EXCEPT ![o] = to]

Store(o) == Advance(o, "new", "stored")
Log(o) == Advance(o, "stored", "logged")
Announce(o) == Advance(o, "logged", "announced")

Next == \E o \in Orders : Store(o) \/ Log(o) \/ Announce(o)

Spec == Init /\ [][Next]_phase

=============================================================================
