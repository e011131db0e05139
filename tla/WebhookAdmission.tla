---------------------------- MODULE WebhookAdmission ---------------------------
(***************************************************************************)
(* What happens to a webhook before anything is stored: the guard that     *)
(* checks the platform's token, the registry that resolves the platform    *)
(* and takes the order id out of the body, the dedupe marker and the job   *)
(* id; and the tokens that the service issues to GrabFood. The guard and   *)
(* the registry normalise the :platform parameter each by itself.          *)
(* The service may restart with another configuration at any time; time    *)
(* passes in seconds. That the marker and the queue may fail or forget is  *)
(* in WebhookFrontDoor; here a delivery that is admitted runs to its end,  *)
(* within the marker's TTL.                                                *)
(***************************************************************************)
EXTENDS Integers, SequencesExt

CONSTANTS
  Configs,     \* environments the service may be started with
  Characters,  \* characters of native order ids
  OrderIds,    \* native order ids: sequences of characters
  Spellings,   \* values of the :platform parameter
  MaxTime,     \* bound: seconds that pass
  MaxTokens,   \* bound: tokens that are issued
  MaxAccepted, \* bound: orders that are accepted
  Unset,       \* an environment variable, header or field that is not there
  Secrets      \* texts that configurations and callers use as secrets

(* The part of the environment that admission reads. An empty or too short *)
(* secret, or a lifetime that is not positive, stops the boot.             *)
Env ==
  [GRABFOOD_CLIENT: Secrets \cup {Unset}, GRABFOOD_TOKEN_SECRET: Secrets \cup {Unset},
   GRABFOOD_TOKEN_TTL_SECONDS: Nat \ {0}, FOODPANDA_WEBHOOK_SECRET: Secrets \cup {Unset}]

SUPPORTED_PLATFORMS == {"GRABFOOD", "FOODPANDA", "FB_CHATBOT"}

(* A parameter: letters, in capitals or not, in blanks or not.             *)
Spelling == [letters: SUPPORTED_PLATFORMS \cup {"OTHER"}, upper: BOOLEAN, blanks: BOOLEAN]

(* The claims of a token and the key it is signed with.                    *)
Tokens == [exp: Nat, key: Secrets, iat: Nat, expires_in: Nat]

ASSUME AdmissionAssumption ==
  /\ Configs \subseteq Env /\ Configs # {}
  /\ Spellings \subseteq Spelling /\ OrderIds \subseteq Seq(Characters)
  /\ {MaxTime, MaxTokens, MaxAccepted} \subseteq Nat /\ Unset \notin Secrets \cup Tokens

VARIABLES
  now,      \* Date.now() in seconds
  env,      \* the configuration of the running service
  issued,   \* the tokens that were issued
  markers,  \* idem:<dedupe key> in Redis
  jobs,     \* jobs in the queue, by job id: the order they carry
  last,     \* the last webhook and its answer
  taken     \* history: the orders that were accepted

admissionVars == <<now, env, issued, markers, jobs, last, taken>>

-----------------------------------------------------------------------------

NoWebhook == [param |-> Unset, bearer |-> Unset, order |-> Unset, status |-> 0]

(* Defect: the expiry counts from the start of the service.                *)
IssuedTokenFromStart(signedWith) ==
  [exp |-> env.GRABFOOD_TOKEN_TTL_SECONDS, key |-> signedWith,
   iat |-> now, expires_in |-> env.GRABFOOD_TOKEN_TTL_SECONDS]

IssuedToken(signedWith) ==
  [exp |-> now + env.GRABFOOD_TOKEN_TTL_SECONDS, key |-> signedWith,
   iat |-> now, expires_in |-> env.GRABFOOD_TOKEN_TTL_SECONDS]

(* issue: 400 for a malformed body, 500 without a client or a secret, 401  *)
(* for other credentials; else a token, good from now on.                  *)
IssueToken ==
  /\ Cardinality(issued) < MaxTokens
  /\ \E client_secret \in Secrets :
       /\ env.GRABFOOD_CLIENT = client_secret
       /\ env.GRABFOOD_TOKEN_SECRET # Unset
       /\ issued' = issued \cup {IssuedToken(env.GRABFOOD_TOKEN_SECRET)}
  /\ last' = NoWebhook
  /\ UNCHANGED <<now, env, markers, jobs, taken>>

(* Defect: a token is still good in the second in which it expires.        *)
VerifyTokenLate(token) ==
  \/ env.GRABFOOD_TOKEN_SECRET = Unset
  \/ token \in issued /\ token.key = env.GRABFOOD_TOKEN_SECRET /\ token.exp >= now

(* Signature first, then the expiry; a text that is no token fails, and    *)
(* without a secret all pass.                                              *)
VerifyToken(token) ==
  \/ env.GRABFOOD_TOKEN_SECRET = Unset
  \/ token \in issued /\ token.key = env.GRABFOOD_TOKEN_SECRET /\ token.exp > now

(* A bearer is asked for whether or not a secret is set: without a secret  *)
(* any bearer passes, and none does not.                                   *)
VerifyGrabFood(bearer) == bearer # Unset /\ VerifyToken(bearer)

(* Foodpanda's is compared with the configured text, if there is one.      *)
VerifyFoodpanda(bearer) ==
  \/ env.FOODPANDA_WEBHOOK_SECRET = Unset
  \/ bearer # Unset /\ bearer = env.FOODPANDA_WEBHOOK_SECRET

-----------------------------------------------------------------------------
(* The platform, twice.                                                    *)

(* Defect: the guard compares the parameter as it came.                    *)
GuardPlatformVerbatim(param) ==
  IF param.upper /\ ~param.blanks THEN param.letters ELSE "OTHER"

(* trim and toUpperCase: only the letters are left.                        *)
GuardPlatform(param) == param.letters

CanActivate(param, bearer) ==
  CASE GuardPlatform(param) = "GRABFOOD" -> VerifyGrabFood(bearer)
    [] GuardPlatform(param) = "FOODPANDA" -> VerifyFoodpanda(bearer)
    [] OTHER -> TRUE

(* The registry's own trim and toUpperCase, and the list of platforms.     *)
Resolve(param) == IF param.letters \in SUPPORTED_PLATFORMS THEN param.letters ELSE Unset

(* A body is a platform's webhook with an id, or what has none. Each       *)
(* extractor looks for the id under its platform's own name for it.        *)
ExtractOrderId(platform, body) ==
  IF body.platform = platform /\ body.orderId # <<>> THEN body.orderId ELSE Unset

(* toLowerCase of the platform: its name as a sequence of characters.      *)
LowerCase(platform) ==
  CASE platform = "GRABFOOD" -> <<"grabfood">>
    [] platform = "FOODPANDA" -> <<"foodpanda">>
    [] OTHER -> <<"fb", "_", "chatbot">>

(* Defect: the key has the parameter as the caller spelt it.               *)
DedupeKeyVerbatim(param, orderId) ==
  <<param.letters, IF param.upper THEN "upper" ELSE "lower",
    IF param.blanks THEN "padded" ELSE "trimmed", ":">> \o orderId

DedupeKey(param, orderId) == LowerCase(Resolve(param)) \o <<":">> \o orderId

(* Defect: the job is named after the order id alone.                      *)
JobIdOfOrderOnly(param, orderId) == orderId

(* dedupeKey.replace(/:/g, '_').                                           *)
JobIdOf(param, orderId) ==
  LET key == DedupeKey(param, orderId)
  IN  [n \in DOMAIN key |-> IF key[n] = ":" THEN "_" ELSE key[n]]

-----------------------------------------------------------------------------

Bearers == {Unset} \cup Secrets \cup issued

Bodies == [platform: SUPPORTED_PLATFORMS, orderId: OrderIds \cup {<<>>}]

(* The guard, then the registry, then the marker.                          *)
Status(param, bearer, body) ==
  IF ~CanActivate(param, bearer) THEN 401
  ELSE IF Resolve(param) = Unset \/ ExtractOrderId(Resolve(param), body) = Unset THEN 400
  ELSE IF DedupeKey(param, body.orderId) \in markers THEN 200
  ELSE 202

(* An accepted webhook leaves its marker, and its job unless there is one  *)
(* with its id.                                                            *)
Answer(param, bearer, body) ==
  LET status == Status(param, bearer, body)
      order == <<Resolve(param), body.orderId>>
      jobId == JobIdOf(param, body.orderId)
  IN  /\ last' = [param |-> param, bearer |-> bearer, order |-> order, status |-> status]
      /\ IF status = 202
         THEN /\ Cardinality(taken) < MaxAccepted
              /\ markers' = markers \cup {DedupeKey(param, body.orderId)}
              /\ jobs' = IF \E j \in jobs : j.id = jobId THEN jobs
                         ELSE jobs \cup {[id |-> jobId, order |-> order]}
              /\ taken' = taken \cup {order}
         ELSE UNCHANGED <<markers, jobs, taken>>
      /\ UNCHANGED <<now, env, issued>>

Webhook ==
  \E param \in Spellings, bearer \in Bearers, body \in Bodies : Answer(param, bearer, body)

(* A restart, perhaps with other secrets: validateEnv has passed them.     *)
Restart ==
  /\ env' \in Configs /\ env' # env
  /\ last' = NoWebhook
  /\ UNCHANGED <<now, issued, markers, jobs, taken>>

SecondPasses ==
  /\ now < MaxTime
  /\ now' = now + 1 /\ last' = NoWebhook
  /\ UNCHANGED <<env, issued, markers, jobs, taken>>

AdmissionInit ==
  /\ now = 0 /\ env \in Configs
  /\ issued = {} /\ markers = {} /\ jobs = {}
  /\ last = NoWebhook /\ taken = {}

AdmissionNext == IssueToken \/ Webhook \/ Restart \/ SecondPasses

AdmissionSpec == AdmissionInit /\ [][AdmissionNext]_admissionVars

-----------------------------------------------------------------------------

(* The state is well formed, a token's claims are what was announced with  *)
(* it, and no two jobs have one id.                                        *)
AdmissionTypeOK ==
  /\ now \in 0 .. MaxTime /\ env \in Configs
  /\ issued \subseteq Tokens
  /\ \A t \in issued : t.iat <= now /\ t.exp = t.iat + t.expires_in
  /\ last.status \in {0, 200, 202, 400, 401}
  /\ \A i, j \in jobs : i.id = j.id => i = j

(* While a secret is set, a GrabFood webhook gets past the guard if and    *)
(* only if it carries a token of ours whose announced lifetime is not over *)
(* and whose secret has not been replaced since: GrabFood may use a token  *)
(* until the second it was told, and not in it.                            *)
TokensLastAsAnnounced ==
  last.status # 0 /\ last.param.letters = "GRABFOOD" /\ env.GRABFOOD_TOKEN_SECRET # Unset
  => (last.status # 401) =
       \E t \in issued : /\ last.bearer = t /\ t.key = env.GRABFOOD_TOKEN_SECRET
                         /\ now < t.iat + t.expires_in

(* What is taken in as the order of a platform whose secret is set, however*)
(* the platform's name was spelt in the route, came with what that platform*)
(* authenticates by: for GrabFood a token of ours under the present secret,*)
(* for Foodpanda the configured text. Nothing is said of a platform whose  *)
(* secret is not set.                                                      *)
CheckedAsParsed ==
  last.status \in {200, 202} =>
    /\ last.order[1] = "GRABFOOD" /\ env.GRABFOOD_TOKEN_SECRET # Unset =>
         \E t \in issued : last.bearer = t /\ t.key = env.GRABFOOD_TOKEN_SECRET
    /\ last.order[1] = "FOODPANDA" /\ env.FOODPANDA_WEBHOOK_SECRET # Unset =>
         last.bearer = env.FOODPANDA_WEBHOOK_SECRET

SameBut(a, b) ==
  Len(a) = Len(b) /\ \A n \in DOMAIN a : a[n] = b[n] \/ {a[n], b[n]} = {":", "_"}

(* An accepted order has a job that carries it, or its id differs in       *)
(* nothing but ':' and '_' from that of an order of the same platform that *)
(* has one.                                                                *)
AcceptedHasItsJob ==
  \A o \in taken : \E j \in jobs : j.order[1] = o[1] /\ SameBut(j.order[2], o[2])

(* An order is accepted once, however the platform is spelt from one       *)
(* delivery to the next; and no order is called a duplicate for another,   *)
(* of another platform or id.                                              *)
OneAcceptancePerOrder ==
  [][/\ last'.status = 202 => last'.order \notin taken
     /\ last'.status = 200 => last'.order \in taken]_admissionVars
=============================================================================
