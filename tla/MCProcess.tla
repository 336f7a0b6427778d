------------------------------ MODULE MCProcess ------------------------------
(* Process for TLC: a developer's machine, three productions (secrets in the    *)
(* vault alone, in both places, workload identity and a bot without a password),*)
(* two misconfigured ones; the numbers of findings on both sides of every limit *)
(* and page, the others' such that they push a section over a limit.            *)
EXTENDS Process

MCTrueCounts ==
  [suspicious_sign_ins |-> {0, 3, 4, 51}, mfa_compliance |-> {0, 5, 6},
   dormant_accounts |-> {10, 11}, license_optimization |-> {0, 1},
   privileged_access |-> {2, 3, 5, 6}, guest_users |-> {20, 21, 201}]

Local ==
  [vault |-> FALSE, stored |-> {}, env |-> Secrets \ {"cosmos-key", "bot-app-password"},
   wif |-> FALSE, wifId |-> FALSE, entra |-> TRUE, exo |-> FALSE, audience |-> FALSE,
   bot |-> "off", cosmos |-> FALSE, teams |-> FALSE, mail |-> FALSE]

VaultOnly ==
  [Local EXCEPT !.vault = TRUE, !.stored = Secrets \ {"cosmos-key"}, !.env = {"cosmos-key"},
                !.exo = TRUE, !.audience = TRUE, !.bot = "password", !.cosmos = TRUE,
                !.teams = TRUE, !.mail = TRUE]
Both == [VaultOnly EXCEPT !.stored = {"llm-api-key", "session-secret"}, !.env = Secrets,
                          !.mail = FALSE]
Federated == [VaultOnly EXCEPT !.stored = {"llm-api-key"}, !.env = {"session-secret"},
                               !.bot = "msi", !.wif = TRUE, !.wifId = TRUE]
Misfederated == [Federated EXCEPT !.wifId = FALSE]
NoAudience == [Both EXCEPT !.audience = FALSE]

MCDeployments == {Local, VaultOnly, Both, Federated, Misfederated, NoAudience}

MCExtras ==
  [suspicious_sign_ins |-> {0, 1}, dormant_accounts |-> {0, 1}, privileged_access |-> {0, 4}]

MCRequests ==
  {[checks |-> <<>>, odd |-> {}], [checks |-> <<"license_optimization">>, odd |-> {}],
   [checks |-> <<"mfa">>, odd |-> {}], [checks |-> <<"guest_users", "mfa">>, odd |-> {}],
   [checks |-> <<"dormant_accounts", "suspicious_sign_ins">>, odd |-> Dated]}
==============================================================================
