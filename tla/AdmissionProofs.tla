----------------------------- MODULE AdmissionProofs ---------------------------
(***************************************************************************)
(* WebhookAdmission: what gets past the guard was verified, tokens last as *)
(* long as announced, an order is accepted once and has its job, whatever  *)
(* the configurations, secrets, spellings and order ids. The last two rest *)
(* on the dedupe key: no two orders of supported platforms share one, and  *)
(* two that share a job id differ in nothing but ':' and '_'. The type     *)
(* invariant is inductive by itself.                                       *)
(***************************************************************************)
EXTENDS WebhookAdmission, SequenceTheorems, TLAPS

(* The dedupe key and the job id of an order.                              *)
KeyOf(platform, id) == LowerCase(platform) \o <<":">> \o id

Sanitized(key) == [n \in DOMAIN key |-> IF key[n] = ":" THEN "_" ELSE key[n]]

Symbols == Characters \cup {"grabfood", "foodpanda", "fb", "_", "chatbot", ":"}

KnownOrders == SUPPORTED_PLATFORMS \X Seq(Symbols)

(* The last answer was the guard's, the registry's or the marker's.        *)
AnswerInv ==
  /\ last.status # 0 =>
       /\ (last.status # 401) <=> CanActivate(last.param, last.bearer)
       /\ last.bearer \in Bearers
  /\ last.status \in {200, 202} =>
       /\ last.param.letters \in SUPPORTED_PLATFORMS
       /\ last.order[1] = last.param.letters

(* Markers and jobs are those of the accepted orders.                      *)
TakenInv ==
  /\ taken \subseteq KnownOrders
  /\ markers = {KeyOf(o[1], o[2]) : o \in taken}
  /\ \A o \in taken : \E j \in jobs : j.id = Sanitized(KeyOf(o[1], o[2]))
  /\ \A j \in jobs : j.order \in taken /\ j.id = Sanitized(KeyOf(j.order[1], j.order[2]))

-----------------------------------------------------------------------------

(* Short tuples are sequences.                                             *)
LEMMA Tuples ==
  ASSUME NEW S, NEW e \in S, NEW f \in S, NEW g \in S
  PROVE  /\ <<e>> \in Seq(S) /\ Len(<<e>>) = 1 /\ Len(<<e>>) \in Nat \ {0}
         /\ <<e, f, g>> \in Seq(S) /\ Len(<<e, f, g>>) \in Nat \ {0}
OBVIOUS

(* The parts of a key: platform, ':' and id.                               *)
LEMMA KeyParts ==
  ASSUME NEW p \in SUPPORTED_PLATFORMS, NEW id \in Seq(Symbols)
  PROVE  /\ Len(LowerCase(p)) \in Nat \ {0}
         /\ Len(KeyOf(p, id)) = Len(LowerCase(p)) + 1 + Len(id)
         /\ KeyOf(p, id) \in Seq(Symbols)
         /\ KeyOf(p, id)[1] = LowerCase(p)[1]
         /\ \A n \in 1 .. Len(id) : KeyOf(p, id)[Len(LowerCase(p)) + 1 + n] = id[n]
<1> DEFINE name == LowerCase(p)
           head == name \o <<":">>
<1>0. /\ "grabfood" \in Symbols /\ "foodpanda" \in Symbols /\ "fb" \in Symbols
      /\ "_" \in Symbols /\ "chatbot" \in Symbols /\ ":" \in Symbols
  BY DEF Symbols
<1>1. name \in Seq(Symbols) /\ Len(name) \in Nat \ {0}
  <2>1. CASE p = "GRABFOOD"
    <3>1. name = <<"grabfood">>
      BY <2>1 DEF LowerCase
    <3>2. <<"grabfood">> \in Seq(Symbols) /\ Len(<<"grabfood">>) \in Nat \ {0}
      BY <1>0, Tuples, Zenon
    <3> HIDE DEF name
    <3> QED
      BY <3>1, <3>2, Zenon
  <2>2. CASE p = "FOODPANDA"
    <3>1. name = <<"foodpanda">>
      BY <2>2 DEF LowerCase
    <3>2. <<"foodpanda">> \in Seq(Symbols) /\ Len(<<"foodpanda">>) \in Nat \ {0}
      BY <1>0, Tuples, Zenon
    <3> HIDE DEF name
    <3> QED
      BY <3>1, <3>2, Zenon
  <2>3. CASE p = "FB_CHATBOT"
    <3>1. name = <<"fb", "_", "chatbot">>
      BY <2>3 DEF LowerCase
    <3>2. <<"fb", "_", "chatbot">> \in Seq(Symbols) /\ Len(<<"fb", "_", "chatbot">>) \in Nat \ {0}
      BY <1>0, Tuples, Zenon
    <3> HIDE DEF name
    <3> QED
      BY <3>1, <3>2, Zenon
  <2> QED
    BY <2>1, <2>2, <2>3 DEF SUPPORTED_PLATFORMS
<1>2. <<":">> \in Seq(Symbols) /\ Len(<<":">>) = 1
  BY <1>0, Tuples, Zenon
<1> HIDE DEF name
<1>3. /\ head \in Seq(Symbols) /\ Len(head) = Len(name) + 1
      /\ head[1] = name[1]
  BY <1>1, <1>2, ConcatProperties
<1> HIDE DEF head
<1>4. Len(id) \in Nat
  BY LenProperties
<1>5. /\ head \o id \in Seq(Symbols) /\ Len(head \o id) = Len(head) + Len(id)
      /\ \A n \in 1 .. Len(head) + Len(id) :
           (head \o id)[n] = IF n <= Len(head) THEN head[n] ELSE id[n - Len(head)]
  BY <1>3, ConcatProperties
<1>6. (head \o id)[1] = name[1]
  BY <1>1, <1>3, <1>4, <1>5
<1>7. ASSUME NEW n \in 1 .. Len(id) PROVE (head \o id)[Len(name) + 1 + n] = id[n]
  <2>1. Len(name) + 1 + n \in 1 .. Len(head) + Len(id) /\ ~(Len(name) + 1 + n <= Len(head))
    BY <1>1, <1>3, <1>4
  <2> QED
    BY <1>1, <1>3, <1>4, <1>5, <2>1
<1>8. KeyOf(p, id) = head \o id
  BY DEF KeyOf, head, name
<1> QED
  BY <1>1, <1>3, <1>5, <1>6, <1>7, <1>8 DEF name

(* A platform's name is told by its first part, which job ids keep.        *)
LEMMA NamesDiffer ==
  ASSUME NEW p \in SUPPORTED_PLATFORMS, NEW q \in SUPPORTED_PLATFORMS,
         LowerCase(p)[1] = LowerCase(q)[1]
  PROVE  p = q
BY DEF LowerCase, SUPPORTED_PLATFORMS

LEMMA NameIsNoSeparator ==
  ASSUME NEW p \in SUPPORTED_PLATFORMS
  PROVE  LowerCase(p)[1] # ":"
BY DEF LowerCase, SUPPORTED_PLATFORMS

(* Orders that share a job id differ in separators only.                   *)
LEMMA SameJobId ==
  ASSUME NEW a \in KnownOrders, NEW b \in KnownOrders,
         Sanitized(KeyOf(a[1], a[2])) = Sanitized(KeyOf(b[1], b[2]))
  PROVE  a[1] = b[1] /\ SameBut(a[2], b[2])
<1> DEFINE p == a[1]  q == b[1]  x == a[2]  y == b[2]
<1>1. /\ p \in SUPPORTED_PLATFORMS /\ q \in SUPPORTED_PLATFORMS
      /\ x \in Seq(Symbols) /\ y \in Seq(Symbols)
  BY DEF KnownOrders
<1> HIDE DEF p, q, x, y
<1> DEFINE k == KeyOf(p, x)  l == KeyOf(q, y)  m == Len(LowerCase(p)) + 1
<1>2. /\ k \in Seq(Symbols) /\ k[1] = LowerCase(p)[1] /\ Len(k) = m + Len(x)
      /\ m \in Nat \ {0, 1} /\ \A n \in 1 .. Len(x) : k[m + n] = x[n]
  <2> HIDE DEF k
  <2>1. /\ Len(LowerCase(p)) \in Nat \ {0}
        /\ Len(k) = Len(LowerCase(p)) + 1 + Len(x)
        /\ k \in Seq(Symbols) /\ k[1] = LowerCase(p)[1]
        /\ \A n \in 1 .. Len(x) : k[Len(LowerCase(p)) + 1 + n] = x[n]
    BY <1>1, KeyParts DEF k
  <2> QED
    BY <2>1
<1>2b. /\ l \in Seq(Symbols) /\ l[1] = LowerCase(q)[1]
       /\ Len(l) = Len(LowerCase(q)) + 1 + Len(y) /\ Len(LowerCase(q)) \in Nat \ {0}
       /\ \A n \in 1 .. Len(y) : l[Len(LowerCase(q)) + 1 + n] = y[n]
  BY <1>1, KeyParts
<1>2c. Len(x) \in Nat /\ Len(y) \in Nat
  BY <1>1, LenProperties
<1>3. Sanitized(k) = Sanitized(l)
  BY DEF p, q, x, y
<1>4. DOMAIN k = 1 .. Len(k) /\ DOMAIN l = 1 .. Len(l)
  BY <1>2, <1>2b, LenProperties
<1> HIDE DEF k, l
<1>5. /\ DOMAIN k = DOMAIN l
      /\ \A n \in DOMAIN k : k[n] = l[n] \/ {k[n], l[n]} = {":", "_"}
  BY <1>3 DEF Sanitized
<1>6. p = q
  <2>1. k[1] # ":" /\ l[1] # ":" /\ 1 \in DOMAIN k
    BY <1>1, <1>2, <1>2b, <1>2c, <1>4, NameIsNoSeparator
  <2>2. k[1] = l[1]
    BY <1>5, <2>1
  <2> QED
    BY <1>1, <1>2, <1>2b, <2>2, NamesDiffer
<1>7. Len(k) = Len(l)
  <2>1. Len(k) \in Nat /\ Len(l) \in Nat
    BY <1>2, <1>2b, LenProperties
  <2>2. 1 .. Len(k) = 1 .. Len(l)
    BY <1>4, <1>5
  <2> QED
    BY <2>1, <2>2
<1>8. Len(x) = Len(y)
  BY <1>2, <1>2b, <1>2c, <1>6, <1>7
<1>9. ASSUME NEW n \in 1 .. Len(x) PROVE x[n] = y[n] \/ {x[n], y[n]} = {":", "_"}
  <2>1. m + n \in DOMAIN k /\ k[m + n] = x[n]
    BY <1>2, <1>2c, <1>4
  <2>2. l[m + n] = y[n]
    BY <1>2b, <1>6, <1>8
  <2> QED
    BY <1>5, <2>1, <2>2
<1>10. DOMAIN x = 1 .. Len(x)
  BY <1>1, LenProperties
<1> QED
  BY <1>6, <1>8, <1>9, <1>10 DEF SameBut, p, q, x, y

(* No two orders share a dedupe key.                                       *)
LEMMA KeysDiffer ==
  ASSUME NEW a \in KnownOrders, NEW b \in KnownOrders, KeyOf(a[1], a[2]) = KeyOf(b[1], b[2])
  PROVE  a = b
<1> DEFINE p == a[1]  q == b[1]  x == a[2]  y == b[2]
<1>1. /\ p \in SUPPORTED_PLATFORMS /\ q \in SUPPORTED_PLATFORMS
      /\ x \in Seq(Symbols) /\ y \in Seq(Symbols) /\ a = <<p, x>> /\ b = <<q, y>>
  BY DEF KnownOrders
<1>2. KeyOf(p, x) = KeyOf(q, y)
  OBVIOUS
<1> HIDE DEF p, q, x, y
<1>3. LowerCase(p)[1] = LowerCase(q)[1]
  <2>1. KeyOf(p, x)[1] = LowerCase(p)[1] /\ KeyOf(q, y)[1] = LowerCase(q)[1]
    BY <1>1, KeyParts
  <2> QED
    BY <1>2, <2>1
<1>4. p = q
  BY <1>1, <1>3, NamesDiffer
<1>5. /\ Len(LowerCase(p)) \in Nat /\ Len(x) \in Nat /\ Len(y) \in Nat
      /\ Len(LowerCase(p)) + 1 + Len(x) = Len(LowerCase(p)) + 1 + Len(y)
  BY <1>1, <1>2, <1>4, KeyParts, LenProperties
<1>6. Len(x) = Len(y)
  BY <1>5
<1>7. \A n \in 1 .. Len(x) : x[n] = y[n]
  <2>1. /\ \A n \in 1 .. Len(x) : KeyOf(p, x)[Len(LowerCase(p)) + 1 + n] = x[n]
        /\ \A n \in 1 .. Len(y) : KeyOf(q, y)[Len(LowerCase(q)) + 1 + n] = y[n]
    BY <1>1, KeyParts
  <2> QED
    BY <1>2, <1>4, <1>6, <2>1
<1>8. x = y
  BY <1>1, <1>6, <1>7, SeqEqual
<1> QED
  BY <1>1, <1>4, <1>8

-----------------------------------------------------------------------------

(* A step that is no webhook.                                              *)
Elsewhere == last' = NoWebhook /\ UNCHANGED <<markers, jobs, taken>>

LEMMA OtherStepsAreElsewhere ==
  ASSUME IssueToken \/ Restart \/ SecondPasses
  PROVE  Elsewhere
BY DEF IssueToken, Restart, SecondPasses, Elsewhere

(* What an answer tells of the guard, the registry and the marker.         *)
LEMMA StatusMeans ==
  ASSUME NEW param, NEW bearer, NEW body
  PROVE  /\ Status(param, bearer, body) \in {200, 202, 400, 401}
         /\ (Status(param, bearer, body) # 401) <=> CanActivate(param, bearer)
         /\ Status(param, bearer, body) \in {200, 202} => Resolve(param) # Unset
         /\ Status(param, bearer, body) = 200 => DedupeKey(param, body.orderId) \in markers
         /\ Status(param, bearer, body) = 202 => DedupeKey(param, body.orderId) \notin markers
<1> DEFINE guard == CanActivate(param, bearer)
           known == Resolve(param) # Unset /\ ExtractOrderId(Resolve(param), body) # Unset
           dup == DedupeKey(param, body.orderId) \in markers
<1>1. Status(param, bearer, body) =
        IF ~guard THEN 401 ELSE IF ~known THEN 400 ELSE IF dup THEN 200 ELSE 202
  BY DEF Status
<1>2. guard \in BOOLEAN
  BY DEF CanActivate, VerifyGrabFood, VerifyToken, VerifyFoodpanda
<1>3. known => Resolve(param) # Unset
  OBVIOUS
<1> HIDE DEF guard, known, dup
<1>4. /\ Status(param, bearer, body) \in {200, 202, 400, 401}
      /\ (Status(param, bearer, body) # 401) <=> guard
      /\ Status(param, bearer, body) \in {200, 202} => known
      /\ Status(param, bearer, body) = 200 => dup
      /\ Status(param, bearer, body) = 202 => ~dup
  BY <1>1, <1>2
<1> QED
  BY <1>3, <1>4, Zenon DEF guard, dup

(* The keys of a webhook's order.                                          *)
LEMMA WebhookKeys ==
  ASSUME NEW param, NEW id
  PROVE  /\ DedupeKey(param, id) = KeyOf(Resolve(param), id)
         /\ JobIdOf(param, id) = Sanitized(KeyOf(Resolve(param), id))
BY Zenon DEF DedupeKey, KeyOf, JobIdOf, Sanitized

LEMMA ResolvedIsSupported ==
  ASSUME NEW param, Resolve(param) # Unset
  PROVE  Resolve(param) = param.letters /\ Resolve(param) \in SUPPORTED_PLATFORMS
BY DEF Resolve

-----------------------------------------------------------------------------
(* The guard.                                                              *)

LEMMA AdmissionTypeStep == AdmissionTypeOK /\ [AdmissionNext]_admissionVars => AdmissionTypeOK'
<1> SUFFICES ASSUME AdmissionTypeOK, [AdmissionNext]_admissionVars PROVE AdmissionTypeOK'
  OBVIOUS
<1>1. CASE UNCHANGED admissionVars
  BY <1>1 DEF AdmissionTypeOK, admissionVars
<1>2. CASE SecondPasses
  <2>1. now' \in 0 .. MaxTime /\ now < now'
    BY <1>2, AdmissionAssumption DEF SecondPasses, AdmissionTypeOK
  <2>2. \A t \in issued : t.iat \in Nat /\ t.iat <= now
    BY DEF AdmissionTypeOK, Tokens
  <2>3. \A t \in issued : t.iat <= now'
    BY <2>1, <2>2, AdmissionAssumption DEF AdmissionTypeOK
  <2> QED
    BY <1>2, <2>1, <2>3 DEF SecondPasses, NoWebhook, AdmissionTypeOK
<1>3. CASE Restart
  BY <1>3 DEF Restart, NoWebhook, AdmissionTypeOK
<1>4. CASE IssueToken
  <2>1. PICK key \in Secrets : issued' = issued \cup {IssuedToken(key)}
    <3>1. env.GRABFOOD_TOKEN_SECRET \in Secrets \cup {Unset}
      BY AdmissionAssumption DEF AdmissionTypeOK, Env
    <3> QED
      BY <1>4, <3>1 DEF IssueToken
  <2>2. env.GRABFOOD_TOKEN_TTL_SECONDS \in Nat /\ now \in Nat
    BY AdmissionAssumption DEF AdmissionTypeOK, Env
  <2>3. /\ IssuedToken(key) \in Tokens /\ IssuedToken(key).iat <= now
        /\ IssuedToken(key).exp = IssuedToken(key).iat + IssuedToken(key).expires_in
    BY <2>2 DEF IssuedToken, Tokens
  <2> QED
    BY <1>4, <2>1, <2>3 DEF IssueToken, NoWebhook, AdmissionTypeOK
<1>5. ASSUME NEW param \in Spellings, NEW bearer \in Bearers, NEW body \in Bodies,
             Answer(param, bearer, body)
      PROVE  AdmissionTypeOK'
  <2>1. last'.status \in {0, 200, 202, 400, 401} /\ UNCHANGED <<now, env, issued>>
    <3>1. last'.status = Status(param, bearer, body) /\ UNCHANGED <<now, env, issued>>
      BY <1>5 DEF Answer
    <3> QED
      BY <3>1, StatusMeans
  <2>2. \/ jobs' = jobs
        \/ \E order : /\ jobs' = jobs \cup {[id |-> JobIdOf(param, body.orderId), order |-> order]}
                      /\ ~\E j \in jobs : j.id = JobIdOf(param, body.orderId)
    BY <1>5 DEF Answer
  <2>3. \A i, j \in jobs' : i.id = j.id => i = j
    BY <2>2 DEF AdmissionTypeOK
  <2> QED
    BY <2>1, <2>3 DEF AdmissionTypeOK
<1> QED
  BY <1>1, <1>2, <1>3, <1>4, <1>5 DEF AdmissionNext, Webhook

(* The state is well formed: the clock does not run backwards past a       *)
(* token, a token's claims are what was announced with it, and no two jobs *)
(* have one id (GrabTokenService.issue, IngestionProducer.enqueue).        *)
THEOREM AdmissionTypeCorrect == AdmissionSpec => []AdmissionTypeOK
<1>1. AdmissionInit => AdmissionTypeOK
  BY AdmissionAssumption DEF AdmissionInit, AdmissionTypeOK, NoWebhook
<1> QED
  BY <1>1, AdmissionTypeStep, PTL DEF AdmissionSpec

LEMMA AnswerInvStep == AnswerInv /\ [AdmissionNext]_admissionVars => AnswerInv'
<1> SUFFICES ASSUME AnswerInv, [AdmissionNext]_admissionVars PROVE AnswerInv'
  OBVIOUS
<1>1. CASE UNCHANGED admissionVars
  BY <1>1 DEF AnswerInv, admissionVars, CanActivate, VerifyGrabFood, VerifyToken, VerifyFoodpanda, Bearers
<1>2. CASE Elsewhere
  BY <1>2 DEF Elsewhere, NoWebhook, AnswerInv
<1>3. ASSUME NEW param \in Spellings, NEW bearer \in Bearers, NEW body \in Bodies,
             Answer(param, bearer, body)
      PROVE  AnswerInv'
  <2> DEFINE status == Status(param, bearer, body)
  <2>1. /\ last'.param = param /\ last'.bearer = bearer /\ last'.status = status
        /\ last'.order[1] = Resolve(param) /\ UNCHANGED <<env, issued, now>>
    BY <1>3 DEF Answer
  <2>2. /\ (status # 401) <=> CanActivate(param, bearer)
        /\ status \in {200, 202} => Resolve(param) # Unset
    BY StatusMeans
  <2>3. CanActivate(param, bearer)' = CanActivate(param, bearer) /\ bearer \in Bearers'
    BY <2>1 DEF CanActivate, VerifyGrabFood, VerifyToken, VerifyFoodpanda, Bearers
  <2> HIDE DEF status
  <2>4. (last'.status # 401) <=> CanActivate(last.param, last.bearer)'
    BY <2>1, <2>2, <2>3
  <2> QED
    BY <2>1, <2>2, <2>3, <2>4, ResolvedIsSupported DEF AnswerInv
<1> QED
  BY <1>1, <1>2, <1>3, OtherStepsAreElsewhere DEF AdmissionNext, Webhook

LEMMA AnswerInvAlways == AdmissionSpec => []AnswerInv
<1>1. AdmissionInit => AnswerInv
  BY DEF AdmissionInit, AnswerInv, NoWebhook
<1> QED
  BY <1>1, AnswerInvStep, PTL DEF AdmissionSpec

(* While a secret is set, a GrabFood webhook gets past the guard if and    *)
(* only if it carries a token of ours whose announced lifetime is not over *)
(* and whose secret was not replaced (GrabTokenService.issue and verify,   *)
(* WebhookAuthGuard.verifyGrabFood).                                       *)
THEOREM TokensAreHonoured == AdmissionSpec => []TokensLastAsAnnounced
<1>1. AdmissionTypeOK /\ AnswerInv => TokensLastAsAnnounced
  <2> SUFFICES ASSUME AdmissionTypeOK, AnswerInv, last.status # 0, last.param.letters = "GRABFOOD",
                      env.GRABFOOD_TOKEN_SECRET # Unset
               PROVE  (last.status # 401) =
                        \E t \in issued : /\ last.bearer = t /\ t.key = env.GRABFOOD_TOKEN_SECRET
                                          /\ now < t.iat + t.expires_in
    BY DEF TokensLastAsAnnounced
  <2>1. (last.status # 401) <=> VerifyGrabFood(last.bearer)
    BY DEF AnswerInv, CanActivate, GuardPlatform
  <2>2. Unset \notin issued
    BY AdmissionAssumption DEF AdmissionTypeOK
  <2>3. \A t \in issued : t.exp = t.iat + t.expires_in /\ t.exp \in Nat
    BY DEF AdmissionTypeOK, Tokens
  <2>4. VerifyGrabFood(last.bearer) <=>
          last.bearer \in issued /\ last.bearer.key = env.GRABFOOD_TOKEN_SECRET
            /\ last.bearer.exp > now
    BY <2>2 DEF VerifyGrabFood, VerifyToken
  <2>5. \A t \in issued : t.exp > now <=> now < t.iat + t.expires_in
    BY <2>3 DEF AdmissionTypeOK
  <2>6. VerifyGrabFood(last.bearer) <=>
          \E t \in issued : /\ last.bearer = t /\ t.key = env.GRABFOOD_TOKEN_SECRET
                            /\ now < t.iat + t.expires_in
    BY <2>4, <2>5
  <2> QED
    BY <2>1, <2>6
<1> QED
  BY <1>1, AdmissionTypeCorrect, AnswerInvAlways, PTL

(* What is taken in as the order of a platform whose secret is set came    *)
(* with what that platform authenticates by, however the platform's name   *)
(* was spelt in the route                                                  *)
(* (WebhookAuthGuard.canActivate, PlatformRegistry.resolve).               *)
THEOREM GuardAndRegistryAgree == AdmissionSpec => []CheckedAsParsed
<1>1. AnswerInv => CheckedAsParsed
  <2> SUFFICES ASSUME AnswerInv, last.status \in {200, 202} PROVE CheckedAsParsed
    BY DEF CheckedAsParsed
  <2>1. CanActivate(last.param, last.bearer) /\ last.order[1] = last.param.letters
    BY DEF AnswerInv
  <2>2. ASSUME last.param.letters = "GRABFOOD", env.GRABFOOD_TOKEN_SECRET # Unset
        PROVE  \E t \in issued : last.bearer = t /\ t.key = env.GRABFOOD_TOKEN_SECRET
    BY <2>1, <2>2 DEF CanActivate, GuardPlatform, VerifyGrabFood, VerifyToken
  <2>3. ASSUME last.param.letters = "FOODPANDA", env.FOODPANDA_WEBHOOK_SECRET # Unset
        PROVE  last.bearer = env.FOODPANDA_WEBHOOK_SECRET
    BY <2>1, <2>3 DEF CanActivate, GuardPlatform, VerifyFoodpanda
  <2> QED
    BY <2>1, <2>2, <2>3 DEF CheckedAsParsed
<1> QED
  BY <1>1, AnswerInvAlways, PTL

-----------------------------------------------------------------------------
(* The marker and the job.                                                 *)

(* One webhook, with its markers and jobs told by its order's key.         *)
LEMMA AnswerByKey ==
  ASSUME TakenInv, NEW param \in Spellings, NEW bearer \in Bearers, NEW body \in Bodies,
         Answer(param, bearer, body), Status(param, bearer, body) \in {200, 202}
  PROVE  LET o == <<Resolve(param), body.orderId>>
             key == KeyOf(Resolve(param), body.orderId)
         IN  /\ o \in KnownOrders /\ last'.order = o
             /\ last'.status = Status(param, bearer, body)
             /\ Status(param, bearer, body) = 200 =>
                  key \in markers /\ UNCHANGED <<markers, jobs, taken>>
             /\ Status(param, bearer, body) = 202 =>
                  /\ key \notin markers
                  /\ markers' = markers \cup {key} /\ taken' = taken \cup {o}
                  /\ jobs' = IF \E j \in jobs : j.id = Sanitized(key) THEN jobs
                             ELSE jobs \cup {[id |-> Sanitized(key), order |-> o]}
<1>1. Resolve(param) \in SUPPORTED_PLATFORMS
  BY StatusMeans, ResolvedIsSupported
<1>2. body.orderId \in Seq(Symbols)
  <2>1. Characters \subseteq Symbols
    BY Zenon DEF Symbols
  <2>2. body.orderId \in OrderIds \cup {<<>>}
    BY DEF Bodies
  <2>3. body.orderId \in Seq(Characters)
    <3>1. OrderIds \subseteq Seq(Characters)
      BY AdmissionAssumption, Zenon
    <3>2. <<>> \in Seq(Characters)
      BY EmptySeq
    <3> DEFINE id == body.orderId
    <3>3. id \in OrderIds \/ id = <<>>
      BY <2>2
    <3> HIDE DEF id
    <3>4. id \in Seq(Characters)
      BY <3>1, <3>2, <3>3, Zenon
    <3> QED
      BY <3>4, Zenon DEF id
  <2> QED
    BY <2>1, <2>3, SeqMonotonic
<1>3. <<Resolve(param), body.orderId>> \in KnownOrders
  BY <1>1, <1>2 DEF KnownOrders
<1>4. /\ DedupeKey(param, body.orderId) = KeyOf(Resolve(param), body.orderId)
      /\ JobIdOf(param, body.orderId) = Sanitized(KeyOf(Resolve(param), body.orderId))
  BY WebhookKeys
<1>5. /\ last'.order = <<Resolve(param), body.orderId>>
      /\ last'.status = Status(param, bearer, body)
      /\ Status(param, bearer, body) = 200 => UNCHANGED <<markers, jobs, taken>>
      /\ Status(param, bearer, body) = 202 =>
           /\ markers' = markers \cup {DedupeKey(param, body.orderId)}
           /\ jobs' = IF \E j \in jobs : j.id = JobIdOf(param, body.orderId) THEN jobs
                      ELSE jobs \cup {[id |-> JobIdOf(param, body.orderId),
                                       order |-> <<Resolve(param), body.orderId>>]}
           /\ taken' = taken \cup {<<Resolve(param), body.orderId>>}
  BY DEF Answer
<1>6. /\ Status(param, bearer, body) = 200 => DedupeKey(param, body.orderId) \in markers
      /\ Status(param, bearer, body) = 202 => DedupeKey(param, body.orderId) \notin markers
  BY StatusMeans
<1> QED
  BY <1>3, <1>4, <1>5, <1>6

(* No answer but 200 and 202 says anything of an order.                    *)
LEMMA TakenInvStep ==
  ASSUME TakenInv, [AdmissionNext]_admissionVars
  PROVE  TakenInv'
<1>1. CASE UNCHANGED <<markers, jobs, taken>>
  BY <1>1 DEF TakenInv
<1>2. ASSUME NEW param \in Spellings, NEW bearer \in Bearers, NEW body \in Bodies,
             Answer(param, bearer, body)
      PROVE  TakenInv'
  <2> DEFINE o == <<Resolve(param), body.orderId>>
             key == KeyOf(Resolve(param), body.orderId)
  <2>1. CASE Status(param, bearer, body) # 202
    BY <1>1, <1>2, <2>1 DEF Answer
  <2>2. CASE Status(param, bearer, body) = 202
    <3>1. /\ o \in KnownOrders /\ markers' = markers \cup {key} /\ taken' = taken \cup {o}
          /\ jobs' = IF \E j \in jobs : j.id = Sanitized(key) THEN jobs
                     ELSE jobs \cup {[id |-> Sanitized(key), order |-> o]}
      BY <1>2, <2>2, AnswerByKey
    <3>2. key = KeyOf(o[1], o[2])
      OBVIOUS
    <3> HIDE DEF o, key
    <3>3. taken' \subseteq KnownOrders /\ markers' = {KeyOf(a[1], a[2]) : a \in taken'}
      BY <3>1, <3>2 DEF TakenInv
    <3>4. \E j \in jobs' : j.id = Sanitized(key)
      <4>1. CASE \E j \in jobs : j.id = Sanitized(key)
        BY <3>1, <4>1
      <4>2. CASE ~\E j \in jobs : j.id = Sanitized(key)
        <5>1. [id |-> Sanitized(key), order |-> o] \in jobs'
          BY <3>1, <4>2
        <5> QED
          BY <5>1
      <4> QED
        BY <4>1, <4>2
    <3>5. \A a \in taken' : \E j \in jobs' : j.id = Sanitized(KeyOf(a[1], a[2]))
      BY <3>1, <3>2, <3>4 DEF TakenInv
    <3>6. \A j \in jobs' : j.order \in taken' /\ j.id = Sanitized(KeyOf(j.order[1], j.order[2]))
      BY <3>1, <3>2 DEF TakenInv
    <3> QED
      BY <3>3, <3>5, <3>6 DEF TakenInv
  <2> QED
    BY <2>1, <2>2
<1>3. CASE Elsewhere
  BY <1>1, <1>3 DEF Elsewhere
<1> QED
  BY <1>1, <1>2, <1>3, OtherStepsAreElsewhere DEF AdmissionNext, Webhook, admissionVars

LEMMA TakenInvAlways == AdmissionSpec => []TakenInv
<1>1. AdmissionInit => TakenInv
  BY DEF AdmissionInit, TakenInv
<1> QED
  BY <1>1, TakenInvStep, PTL DEF AdmissionSpec

(* An accepted order has a job that carries it, or its id differs in       *)
(* nothing but ':' and '_' from that of an order of the same platform that *)
(* has one (IngestionProducer.enqueue).                                   *)
THEOREM AcceptedOrdersHaveJobs == AdmissionSpec => []AcceptedHasItsJob
<1>1. TakenInv => AcceptedHasItsJob
  <2> SUFFICES ASSUME TakenInv, NEW o \in taken
               PROVE  \E j \in jobs : j.order[1] = o[1] /\ SameBut(j.order[2], o[2])
    BY DEF AcceptedHasItsJob
  <2>1. PICK j \in jobs : j.id = Sanitized(KeyOf(o[1], o[2]))
    BY DEF TakenInv
  <2>2. j.order \in KnownOrders /\ o \in KnownOrders /\ j.id = Sanitized(KeyOf(j.order[1], j.order[2]))
    BY DEF TakenInv
  <2> QED
    BY <2>1, <2>2, SameJobId
<1> QED
  BY <1>1, TakenInvAlways, PTL

(* An order is accepted once, however its platform is spelt, and no order  *)
(* is called a duplicate for another (IdempotencyInterceptor.intercept).   *)
THEOREM OrdersAreAcceptedOnce == AdmissionSpec => OneAcceptancePerOrder
<1>1. TakenInv /\ [AdmissionNext]_admissionVars =>
        [/\ last'.status = 202 => last'.order \notin taken
         /\ last'.status = 200 => last'.order \in taken]_admissionVars
  <2> SUFFICES ASSUME TakenInv, AdmissionNext, last'.status \in {200, 202}
               PROVE  /\ last'.status = 202 => last'.order \notin taken
                      /\ last'.status = 200 => last'.order \in taken
    OBVIOUS
  <2>1. ~Elsewhere
    BY DEF Elsewhere, NoWebhook
  <2>2. PICK param \in Spellings, bearer \in Bearers, body \in Bodies : Answer(param, bearer, body)
    BY <2>1, OtherStepsAreElsewhere DEF AdmissionNext, Webhook
  <2>3. Status(param, bearer, body) = last'.status
    BY <2>2 DEF Answer
  <2> DEFINE o == <<Resolve(param), body.orderId>>
             key == KeyOf(Resolve(param), body.orderId)
  <2>4. /\ o \in KnownOrders /\ last'.order = o
        /\ last'.status = 200 => key \in markers
        /\ last'.status = 202 => key \notin markers
    BY <2>2, <2>3, AnswerByKey
  <2>5. key = KeyOf(o[1], o[2])
    OBVIOUS
  <2> HIDE DEF o, key
  <2>6. o \in taken => key \in markers
    BY <2>5 DEF TakenInv
  <2>7. ASSUME key \in markers PROVE o \in taken
    <3>1. PICK a \in taken : key = KeyOf(a[1], a[2])
      BY <2>7 DEF TakenInv
    <3>2. a \in KnownOrders
      BY DEF TakenInv
    <3>3. KeyOf(a[1], a[2]) = KeyOf(o[1], o[2])
      BY <2>5, <3>1, Zenon
    <3>4. \A b \in KnownOrders : KeyOf(a[1], a[2]) = KeyOf(b[1], b[2]) => a = b
      BY <3>2, KeysDiffer
    <3>5. a = o
      BY <2>4, <3>3, <3>4
    <3> QED
      BY <3>5
  <2> QED
    BY <2>4, <2>6, <2>7
<1> QED
  BY <1>1, TakenInvAlways, PTL DEF AdmissionSpec, OneAcceptancePerOrder
=============================================================================
