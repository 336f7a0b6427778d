------------------------------- MODULE Startup -------------------------------
(* The life of one process of the deployment: the web application (create_app,  *)
(* on_startup, on_cleanup) or the timer function, whose configuration is loaded *)
(* once and hydrated again by every trigger. Secrets come from the environment  *)
(* and, with a vault, from there, each falling back to what the configuration   *)
(* holds. Process runs this component.                                          *)
EXTENDS Naturals

CONSTANTS
  Deployments,   \* settings and stores a process may find (see Deployment)
  MaxStarts      \* bound: starts of the process, or triggers of the function

Secrets == {"azure-client-secret", "llm-api-key", "bot-app-password", "cosmos-key",
            "session-secret"}

\* KEY_VAULT_URL; the secrets the vault and the environment hold; workload identity
\* federation and its identity; the sign-in's tenant and client; the Exchange sidecar and
\* its audience; the bot's credentials, by app id and type ("off" without the id, a managed
\* identity for UserAssignedMSI, a password for the two others); the Cosmos endpoint; the
\* report's two addressees.
Deployment ==
  [vault : BOOLEAN, stored : SUBSET Secrets, env : SUBSET Secrets, wif : BOOLEAN,
   wifId : BOOLEAN, entra : BOOLEAN, exo : BOOLEAN, audience : BOOLEAN,
   bot : {"off", "msi", "password"},
   cosmos : BOOLEAN, teams : BOOLEAN, mail : BOOLEAN]

ASSUME DeploymentsAssumption == Deployments \subseteq Deployment
ASSUME StartsAssumption == MaxStarts \in Nat

VARIABLES
  site,       \* the deployment
  kind,       \* "web" or "timer"
  phase,      \* web: "off", "created", "serving", "closing", "stopped"; timer: "off",
              \* "working", "mailing", "ended"; both: "refused", "crashed"
  cfg,        \* where each secret of the configuration comes from: "none", "env", "vault"
  key,        \* the secret the cookie key was derived from
  password,   \* the secret the bot's adapter was built with, "off" if it has none
  audit, sessions,   \* the stores: "none", "local", "durable"
  graph, exo,        \* the clients: "none", "open", "closed"
  starts      \* starts or triggers so far

startupVars == <<site, kind, phase, cfg, key, password, audit, sessions, graph, exo, starts>>

Origins == {"none", "env", "vault"}
Stores == {"none", "local", "durable"}
Clients == {"none", "open", "closed"}

StartupTypeOK ==
  /\ site \in Deployments
  /\ kind \in {"web", "timer"}
  /\ phase \in {"off", "created", "serving", "closing", "stopped", "working", "mailing", "ended",
                "refused", "crashed"}
  /\ cfg \in [Secrets -> Origins]
  /\ key \in Origins /\ password \in Origins \cup {"off"}
  /\ audit \in Stores /\ sessions \in Stores
  /\ graph \in Clients /\ exo \in Clients
  /\ starts \in 0 .. MaxStarts

\* AppConfig(): the secrets of the environment; the placeholder of the cookie secret
\* counts as none.
Loaded(d) == [s \in Secrets |-> IF s \in d.env THEN "env" ELSE "none"]

StartupInit ==
  /\ site \in Deployments /\ kind \in {"web", "timer"}
  /\ phase = "off" /\ cfg = Loaded(site)
  /\ key = "none" /\ password = "off"
  /\ audit = "none" /\ sessions = "none" /\ graph = "none" /\ exo = "none"
  /\ starts = 0
------------------------------------------------------------------------------
(* Secrets and validation.                                                      *)

\* The secrets the vault is asked for and has. Any of these requests may fail.
Asked == IF site.vault THEN site.stored \ (IF site.wif THEN {"azure-client-secret"} ELSE {})
         ELSE {}

\* Mutant: a secret the vault does not give is read from the environment again.
Hydrated_Env(given) ==
  [s \in Secrets |-> IF s \in given THEN "vault" ELSE Loaded(site)[s]]

\* hydrate: each secret the vault gave, and what the configuration held for the others.
Hydrated(given) == [s \in Secrets |-> IF s \in given THEN "vault" ELSE cfg[s]]

\* AppConfig.validate has no errors.
IsValid(c) ==
  /\ site.entra
  /\ IF site.wif THEN site.wifId ELSE c["azure-client-secret"] # "none"
  /\ c["llm-api-key"] # "none"
  /\ c["session-secret"] # "none"
  /\ site.exo => site.audience
------------------------------------------------------------------------------
(* The web application.                                                         *)

\* Mutant: the session middleware is set up before the secrets are hydrated.
CookieKey_Early == cfg["session-secret"]

\* session_setup: the key is derived from the hydrated secret.
CookieKey == cfg'["session-secret"]

\* create_app: hydrate, ensure_valid, and the cookie key.
CreateApp(given) ==
  /\ kind = "web" /\ phase = "off" /\ starts < MaxStarts
  /\ given \in SUBSET Asked
  /\ cfg' = Hydrated(given)
  /\ IF IsValid(cfg')
     THEN phase' = "created" /\ key' = CookieKey
     ELSE phase' = "refused" /\ UNCHANGED key
  /\ starts' = starts + 1
  /\ UNCHANGED <<site, kind, password, audit, sessions, graph, exo>>

\* initialize, of the audit and of the session service: without an endpoint, or when
\* Cosmos cannot be reached now, the store is local for as long as the process lives.
Initialized == IF site.cosmos THEN {"local", "durable"} ELSE {"local"}

\* on_startup: the services, then the bot's adapter, whose credentials, but for those of a
\* managed identity, cannot be built without a password.
OnStartup ==
  /\ phase = "created"
  /\ audit' \in Initialized /\ sessions' \in Initialized
  /\ graph' = "open" /\ exo' = IF site.exo THEN "open" ELSE "none"
  /\ IF site.bot # "password" THEN phase' = "serving" /\ password' = "off"
     ELSE IF cfg["bot-app-password"] = "none" THEN phase' = "crashed" /\ password' = "off"
     ELSE phase' = "serving" /\ password' = cfg["bot-app-password"]
  /\ UNCHANGED <<site, kind, cfg, key, starts>>

\* The server is told to stop, and has let go of its requests.
Shutdown ==
  /\ phase = "serving"
  /\ phase' = "closing"
  /\ UNCHANGED <<site, kind, cfg, key, password, audit, sessions, graph, exo, starts>>

\* Mutant: an error of the first client leaves the second one open.
AfterGraph_NotOnError(failed) == phase' = IF failed THEN "stopped" ELSE "closing"

\* on_cleanup goes on to the next client, whether or not closing this one raised.
AfterGraph(failed) == phase' = "closing"

CloseGraph ==
  /\ phase = "closing" /\ graph = "open"
  /\ graph' = "closed"
  /\ \E failed \in BOOLEAN : AfterGraph(failed)
  /\ UNCHANGED <<site, kind, cfg, key, password, audit, sessions, exo, starts>>

CloseExo ==
  /\ phase = "closing" /\ graph # "open"
  /\ exo' = IF exo = "open" THEN "closed" ELSE exo
  /\ phase' = "stopped"
  /\ UNCHANGED <<site, kind, cfg, key, password, audit, sessions, graph, starts>>

\* The platform starts the process anew; nothing in memory is left.
Restart ==
  /\ kind = "web" /\ phase \in {"stopped", "refused", "crashed"} /\ starts < MaxStarts
  /\ phase' = "off" /\ cfg' = Loaded(site)
  /\ key' = "none" /\ password' = "off"
  /\ audit' = "none" /\ sessions' = "none" /\ graph' = "none" /\ exo' = "none"
  /\ UNCHANGED <<site, kind, starts>>
------------------------------------------------------------------------------
(* The timer function, up to its report.                                        *)

\* A trigger hydrates the configuration it finds, validates it, and builds a Graph client
\* of its own, which nothing closes.
Trigger(given) ==
  /\ kind = "timer" /\ phase \in {"off", "ended", "refused"} /\ starts < MaxStarts
  /\ given \in SUBSET Asked
  /\ cfg' = Hydrated(given)
  /\ IF IsValid(cfg')
     THEN phase' = "working" /\ graph' = "open"
     ELSE phase' = "refused" /\ UNCHANGED graph
  /\ starts' = starts + 1
  /\ UNCHANGED <<site, kind, key, password, audit, sessions, exo>>
------------------------------------------------------------------------------
(* What a running process may rely on.                                          *)

\* While it serves or reports, the configuration is complete, and what was built from a
\* secret was built from the one the configuration holds: hydration came first.
RunsHydrated ==
  /\ phase \in {"created", "serving", "working", "mailing"} => IsValid(cfg)
  /\ phase \in {"created", "serving"} => key = cfg["session-secret"] /\ key # "none"
  /\ phase = "serving" /\ site.bot = "password" =>
       password = cfg["bot-app-password"] /\ password # "none"

\* Once one trigger has found a valid configuration, none of the later ones refuses, even
\* if the vault gives nothing any more and the environment never had the secrets: what
\* hydrate falls back to is the value of the trigger before.
OutageRefusesNone ==
  [][kind = "timer" /\ phase = "ended" => phase' # "refused"]_startupVars

\* A stopped application has closed its Graph client and its sidecar client, also when
\* closing the first one raised.
StoppedMeansClosed == phase = "stopped" => graph # "open" /\ exo # "open"
==============================================================================
