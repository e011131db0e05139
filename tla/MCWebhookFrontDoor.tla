------------------------- MODULE MCWebhookFrontDoor -------------------------
(* A small instance of WebhookFrontDoor: one order whose deliveries        *)
(* overlap, with the queue emptied and its jobs forgotten at any time.     *)
EXTENDS WebhookFrontDoor, TLC

CONSTANTS o1, j1

OneJobId == o1 :> j1

DeliverySymmetry == Permutations(Deliveries)

=============================================================================
