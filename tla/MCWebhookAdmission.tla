--------------------------- MODULE MCWebhookAdmission --------------------------
(* A service that is configured with one token secret, with another, or   *)
(* with none at all; ids that differ in their separator only.             *)
EXTENDS WebhookAdmission, TLC

CONSTANTS s1, s2

MCConfigs ==
  {[GRABFOOD_CLIENT |-> s1, GRABFOOD_TOKEN_SECRET |-> s1, GRABFOOD_TOKEN_TTL_SECONDS |-> 2,
    FOODPANDA_WEBHOOK_SECRET |-> s1],
   [GRABFOOD_CLIENT |-> s1, GRABFOOD_TOKEN_SECRET |-> s2, GRABFOOD_TOKEN_TTL_SECONDS |-> 1,
    FOODPANDA_WEBHOOK_SECRET |-> s2],
   [GRABFOOD_CLIENT |-> Unset, GRABFOOD_TOKEN_SECRET |-> Unset, GRABFOOD_TOKEN_TTL_SECONDS |-> 1,
    FOODPANDA_WEBHOOK_SECRET |-> Unset]}

Spelt(l, u, b) == [letters |-> l, upper |-> u, blanks |-> b]

MCSpellings ==
  {Spelt("GRABFOOD", FALSE, FALSE), Spelt("GRABFOOD", TRUE, TRUE),
   Spelt("FOODPANDA", FALSE, FALSE), Spelt("FB_CHATBOT", TRUE, FALSE),
   Spelt("OTHER", FALSE, FALSE)}

MCOrderIds == {<<"x", ":">>, <<"x", "_">>}
=============================================================================
