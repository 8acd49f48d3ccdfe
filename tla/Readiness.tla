------------------------------ MODULE Readiness ------------------------------
(***************************************************************************)
(* OperationsReadinessService tells an administrator which parts of the    *)
(* deployment are READY.  It reads the environment by rules of its own;    *)
(* the parts read it again, by theirs, when they are used.  Both are here, *)
(* with the database connection, the only thing that changes under them.   *)
(*                                                                         *)
(* A setting is a string, here one of its kind: "unset", "empty",          *)
(* "placeholder", or what the rules tell apart among other values.         *)
(***************************************************************************)
VARIABLES
    config,              \* process.env
    reachable,           \* the database answers
    givenUp              \* databaseUnavailable of PlatformStoreDatabase

readinessVars == <<config, reachable, givenUp>>

Values    == {"unset", "empty", "placeholder", "real"}
Services == {"unset", "empty", "garbage", "placeholder", "localhost", "loopback", "ip",
             "http", "account", "public"}
IceLists == {"unset", "empty", "stun", "turn"}
Sites(site) == {"unset", "empty", "localhost", "ip", site}

Complete(environment) ==
    [NODE_ENV |-> environment,
     DISABLE_DATABASE |-> FALSE, DATABASE_URL |-> "real", ALLOW_DEMO_AUTH |-> "unset",
     EMAIL_PROVIDER |-> "unset", RESEND_API_KEY |-> "re_real", EMAIL_FROM_ADDRESS |-> "real",
     RESEND_API_BASE_URL |-> "unset",
     KYC_SANDBOX_API_BASE_URL |-> "public", KYC_SANDBOX_API_KEY |-> "real",
     WEB_PUBLIC_URL |-> "web", PUBLIC_WEB_BASE_URL |-> "unset", WEB_ORIGIN |-> "unset",
     API_PUBLIC_URL |-> "api", PUBLIC_API_BASE_URL |-> "unset",
     ENVIRONMENT_CHECK_SECRET |-> "strong", AUTH_SESSION_SECRET |-> "unset",
     PROCTOR_ICE_SERVERS |-> "turn", VITE_PROCTOR_ICE_SERVERS |-> "turn"]

\* The configurations C, with any of the values S of one setting.
Vary(C, setting, S) == {[c EXCEPT ![setting] = v] : c \in C, v \in S}

\* What an operator may get wrong, one part at a time.
OfDatabase(C) ==
    Vary(Vary(Vary(C, "DISABLE_DATABASE", BOOLEAN),
              "DATABASE_URL", Values \cup {"localhost"}),
         "ALLOW_DEMO_AUTH", {"unset", "0", "1"})
OfEmail(C) ==
    Vary(Vary(Vary(Vary(C, "EMAIL_PROVIDER", {"unset", "empty", "resend", "webhook"}),
                   "RESEND_API_KEY", Values \cup {"re_real"}),
              "EMAIL_FROM_ADDRESS", Values),
         "RESEND_API_BASE_URL", {"unset", "empty", "http", "public"})
OfIdentity(C) ==
    Vary(Vary(C, "KYC_SANDBOX_API_BASE_URL", Services), "KYC_SANDBOX_API_KEY", Values)
OfWeb(C) ==
    Vary(Vary(Vary(C, "WEB_PUBLIC_URL", Sites("web")), "PUBLIC_WEB_BASE_URL", Sites("oldweb")),
         "WEB_ORIGIN", Sites("origin"))
OfApi(C) ==
    Vary(Vary(C, "API_PUBLIC_URL", Sites("api")), "PUBLIC_API_BASE_URL", Sites("oldapi"))
OfSecrets(C) ==
    Vary(Vary(C, "ENVIRONMENT_CHECK_SECRET", Values \cup {"strong"}),
         "AUTH_SESSION_SECRET", Values \cup {"strong"})
OfIce(C) ==
    Vary(Vary(C, "PROCTOR_ICE_SERVERS", IceLists), "VITE_PROCTOR_ICE_SERVERS", IceLists)

Configs ==
    LET C == {Complete("development"), Complete("production")} IN
    OfDatabase(C) \cup OfEmail(C) \cup OfIdentity(C) \cup OfWeb(C) \cup OfApi(C)
        \cup OfSecrets(C) \cup OfIce(C)

ReadinessInit == config \in Configs /\ reachable \in BOOLEAN /\ givenUp = FALSE

-----------------------------------------------------------------------------
(* Rules that both sides share. *)

Production(c) == c.NODE_ENV = "production"

Or(v, w) == IF v = "unset" THEN w ELSE v                             \* v ?? w

Given(v) == v \notin {"unset", "empty"}                              \* if (v)

HasUsableConfigValue(v) == v \notin {"unset", "empty", "placeholder", "localhost"}

IsUsablePublicHttpsUrl(v) == HasUsableConfigValue(v) /\ v # "ip"

\* providerBaseUrl
IsAllowedProviderUrl(c, v) ==
    \/ v \in {"placeholder", "account", "public"}
    \/ v \in {"localhost", "loopback"} /\ ~Production(c)

WebUrl(c) == Or(c.WEB_PUBLIC_URL, c.PUBLIC_WEB_BASE_URL)
ApiUrl(c) == Or(c.API_PUBLIC_URL, c.PUBLIC_API_BASE_URL)

-----------------------------------------------------------------------------
(* The checks. *)

When(condition, otherwise) == IF condition THEN "READY" ELSE otherwise

DatabaseCheck(c) ==
    When(~c.DISABLE_DATABASE /\ HasUsableConfigValue(c.DATABASE_URL) /\ reachable,
         "ACTION_REQUIRED")

EmailCheck(c) ==
    IF Or(c.EMAIL_PROVIDER, "resend") # "resend" THEN "WARNING"
    ELSE When(c.RESEND_API_KEY = "re_real" /\ HasUsableConfigValue(c.EMAIL_FROM_ADDRESS),
              "ACTION_REQUIRED")

\* Wrong: what the URL names is not looked at.
KycCheckOfText(c) ==
    When(/\ HasUsableConfigValue(c.KYC_SANDBOX_API_BASE_URL)
         /\ HasUsableConfigValue(c.KYC_SANDBOX_API_KEY), "ACTION_REQUIRED")

KycCheck(c) ==
    When(/\ HasUsableConfigValue(c.KYC_SANDBOX_API_BASE_URL)
         /\ HasUsableConfigValue(c.KYC_SANDBOX_API_KEY)
         /\ IsAllowedProviderUrl(c, c.KYC_SANDBOX_API_BASE_URL), "ACTION_REQUIRED")

PublicUrlCheck(c) ==
    When(IsUsablePublicHttpsUrl(WebUrl(c)) /\ IsUsablePublicHttpsUrl(ApiUrl(c)), "WARNING")

AuthCheck(c) ==
    LET secret == Or(c.ENVIRONMENT_CHECK_SECRET, c.AUTH_SESSION_SECRET) IN
    When(Production(c) => c.ALLOW_DEMO_AUTH # "1" /\ secret = "strong",
         "ACTION_REQUIRED")

CodeRunnerCheck(c) == IF Production(c) THEN "ACTION_REQUIRED" ELSE "WARNING"

ProctorCheck(c) == When(IsUsablePublicHttpsUrl(ApiUrl(c)), "WARNING")

ProctorIceCheck(c) ==
    When(Or(c.PROCTOR_ICE_SERVERS, c.VITE_PROCTOR_ICE_SERVERS) = "turn", "WARNING")

GetReadiness(c) ==
    [database |-> DatabaseCheck(c), email |-> EmailCheck(c), kyc |-> KycCheck(c),
     public_url |-> PublicUrlCheck(c), auth |-> AuthCheck(c),
     code_runner |-> CodeRunnerCheck(c), proctor |-> ProctorCheck(c), proctor_ice |-> ProctorIceCheck(c)]

OverallStatus(checks) ==
    LET all == {checks[i] : i \in DOMAIN checks} IN
    IF "ACTION_REQUIRED" \in all THEN "ACTION_REQUIRED"
    ELSE IF "WARNING" \in all THEN "WARNING" ELSE "READY"

-----------------------------------------------------------------------------
(* The parts. *)

DemoAuth(c) == c.ALLOW_DEMO_AUTH # "0" /\ ~Production(c)

FallsBack(c) == c.DISABLE_DATABASE \/ ~Production(c)

Tries(c) ==
    /\ ~c.DISABLE_DATABASE /\ Given(c.DATABASE_URL) /\ ~DemoAuth(c)
    /\ ~(givenUp /\ FallsBack(c))

Reached(c) == reachable /\ c.DATABASE_URL \in {"real", "localhost"}

\* Where the next operation of the store is served.
ServedBy(c) ==
    IF ~Tries(c) THEN "memory"
    ELSE IF Reached(c) THEN "database"
    ELSE IF FallsBack(c) THEN "memory" ELSE "nobody"

\* parseSafeOutboundUrl
IsSafeOutboundUrl(c, v) ==
    \/ v \in {"placeholder", "public"}
    \/ v \in {"localhost", "loopback"} /\ ~Production(c)

ResendUrl(c) == Or(c.RESEND_API_BASE_URL, "public")

SendsWithResend(c) ==
    /\ c.RESEND_API_KEY = "re_real" /\ Given(c.EMAIL_FROM_ADDRESS)
    /\ IsSafeOutboundUrl(c, ResendUrl(c))

CallsProvider(c) ==
    /\ IsAllowedProviderUrl(c, c.KYC_SANDBOX_API_BASE_URL) /\ Given(c.KYC_SANDBOX_API_KEY)
    /\ IsSafeOutboundUrl(c, c.KYC_SANDBOX_API_BASE_URL)

\* Links in invitations.
PublicWebBaseUrl(c) ==
    IF Given(WebUrl(c)) THEN WebUrl(c)
    ELSE IF Given(c.WEB_ORIGIN) /\ c.WEB_ORIGIN # "localhost" THEN c.WEB_ORIGIN ELSE "lan"

\* Links for the phone.
MobileAccess(c) ==
    IF ~IsUsablePublicHttpsUrl(WebUrl(c)) THEN [web |-> "lan", api |-> "lan"]
    ELSE [web |-> WebUrl(c),
          api |-> IF IsUsablePublicHttpsUrl(ApiUrl(c)) THEN ApiUrl(c) ELSE WebUrl(c)]

EnvironmentCheckSecret(c) ==
    LET configured == Or(c.ENVIRONMENT_CHECK_SECRET, c.AUTH_SESSION_SECRET) IN
    IF Given(configured) /\ (Production(c) => configured = "strong") THEN configured
    ELSE IF Production(c) THEN "refused" ELSE "local"

Judges(c) == ~Production(c)

GetProctorIceServers(c) ==
    IF Given(c.VITE_PROCTOR_ICE_SERVERS) THEN c.VITE_PROCTOR_ICE_SERVERS ELSE "stun"

-----------------------------------------------------------------------------
TryDatabase ==
    /\ Tries(config) /\ ~Reached(config) /\ FallsBack(config)
    /\ givenUp' = TRUE
    /\ UNCHANGED <<config, reachable>>

DatabaseChanges ==
    /\ reachable' = ~reachable /\ UNCHANGED <<config, givenUp>>

Restart ==
    /\ givenUp' = FALSE /\ UNCHANGED <<config, reachable>>

ReadinessNext == TryDatabase \/ DatabaseChanges \/ Restart

ReadinessSpec == ReadinessInit /\ [][ReadinessNext]_readinessVars

-----------------------------------------------------------------------------
(* What a check calls READY works when it is used: operations reach the
   database, the mail is sent, the provider called, the links of mail and phone
   agree, the evidence is signed.  Not promised, because the check looks at
   something else: the database of a process that signs in demonstration
   accounts or has given it up, a mail service at an address of one's own, a
   provider address that holds an account, TURN servers of the page when the
   API has a list of its own.  A deployment is never READY as a whole, its code
   runner is not. *)
ReadyMeansUsable ==
    LET checks == GetReadiness(config)
        Ready(i) == checks[i] = "READY" IN
    /\ Ready("database") /\ ~DemoAuth(config) /\ ~givenUp =>
          ServedBy(config) = "database"
    /\ Ready("email") /\ config.RESEND_API_BASE_URL = "unset" => SendsWithResend(config)
    /\ Ready("kyc") /\ config.KYC_SANDBOX_API_BASE_URL # "account" => CallsProvider(config)
    /\ Ready("public_url") =>
          /\ PublicWebBaseUrl(config) = WebUrl(config)
          /\ MobileAccess(config) = [web |-> WebUrl(config), api |-> ApiUrl(config)]
    /\ Ready("auth") => EnvironmentCheckSecret(config) # "refused"
    /\ Ready("code_runner") => Judges(config)
    /\ Ready("proctor_ice") /\ config.PROCTOR_ICE_SERVERS = "unset" =>
          GetProctorIceServers(config) = "turn"
    /\ OverallStatus(checks) # "READY"
=============================================================================
