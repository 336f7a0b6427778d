------------------------------- MODULE Process -------------------------------
(* The two processes of the deployment around ReportService: the web            *)
(* application makes a report whenever it is asked to, the timer function makes *)
(* one at each trigger and delivers it to Teams and by mail.                    *)
EXTENDS Startup, Report

\* What the model asks the web application for: a list of checks, and for which of the
\* dated ones it makes up a number of days beyond every date.
CONSTANT Requests

ASSUME RequestsAssumption == Requests \subseteq [checks : Seq(Names), odd : SUBSET Dated]

VARIABLES
  teams, mail   \* the two deliveries: "no", "sent", "failed", "skipped"

vars == <<startupVars, reportVars, teams, mail>>

Deliveries == {"no", "sent", "failed", "skipped"}

TypeOK == StartupTypeOK /\ ReportTypeOK /\ teams \in Deliveries /\ mail \in Deliveries

Init == StartupInit /\ ReportInit /\ teams = "no" /\ mail = "no"

\* No report, and none in the making.
Forget ==
  /\ stage' = "none" /\ todo' = <<>> /\ odd' = {} /\ read' = NoRead /\ latest' = NoSection
  /\ kinds' = {} /\ made' = 0 /\ critical' = 0 /\ warnings' = 0 /\ overall' = "none"
  /\ all' = FALSE
------------------------------------------------------------------------------
(* The web application.                                                         *)

Boot ==
  /\ (\E given \in SUBSET Secrets : CreateApp(given)) \/ OnStartup \/ Restart
  /\ UNCHANGED <<reportVars, teams, mail>>

\* trigger_report (all checks, the default days), or the tool
\* generate_weekly_insights_report.
Request(r) ==
  /\ phase = "serving" /\ stage # "running"
  /\ Begin(r.checks, r.odd)
  /\ UNCHANGED <<startupVars, teams, mail>>

\* The end of the server is the end of the request it was serving.
Stop == Shutdown /\ Forget /\ UNCHANGED <<teams, mail>>

Cleanup == (CloseGraph \/ CloseExo) /\ UNCHANGED <<reportVars, teams, mail>>
------------------------------------------------------------------------------
(* The timer function.                                                          *)

\* A trigger whose configuration is valid goes on to generate; the other raises.
Fire(given) ==
  /\ Trigger(given)
  /\ IF phase' = "working" THEN Begin(<<>>, {}) ELSE Forget
  /\ teams' = "no" /\ mail' = "no"

Go(p) ==
  /\ phase' = p
  /\ UNCHANGED <<site, kind, cfg, key, password, audit, sessions, graph, exo, starts>>

\* Mutant: a failed post to Teams ends the trigger.
AfterTeams_NotOnError == Go(IF teams' = "failed" THEN "ended" ELSE "mailing")

\* The mail follows, whatever came of the post.
AfterTeams == Go("mailing")

\* The post to the Teams channel, if both its settings are there; its failure is logged.
PostToTeams ==
  /\ phase = "working" /\ stage = "compiled"
  /\ teams' \in IF site.teams THEN {"sent", "failed"} ELSE {"skipped"}
  /\ AfterTeams
  /\ UNCHANGED <<reportVars, mail>>

\* The mail, likewise. The trigger ends well also if nobody got the report.
SendMail ==
  /\ phase = "mailing"
  /\ mail' \in IF site.mail THEN {"sent", "failed"} ELSE {"skipped"}
  /\ Go("ended")
  /\ UNCHANGED <<reportVars, teams>>
------------------------------------------------------------------------------

Generate ==
  /\ phase \in {"serving", "working"}
  /\ ReportStep
  /\ UNCHANGED <<startupVars, teams, mail>>

Next ==
  \/ Boot
  \/ \E r \in Requests : Request(r)
  \/ Stop \/ Cleanup
  \/ \E given \in SUBSET Secrets : Fire(given)
  \/ Generate
  \/ PostToTeams \/ SendMail

Spec == Init /\ [][Next]_vars

\* The process gets its turns: what it is doing goes on, each request to Graph ends (the
\* SDK has timeouts), the platform does not leave a created application unstarted.
FairSpec ==
  /\ Spec
  /\ WF_vars(OnStartup /\ UNCHANGED <<reportVars, teams, mail>>)
  /\ WF_vars(Generate) /\ WF_vars(PostToTeams) /\ WF_vars(SendMail)
  /\ WF_vars(Cleanup)
------------------------------------------------------------------------------

\* A trigger that has ended has tried every configured delivery of its report, and no
\* other: neither a failed check nor a failed post keeps the report from the mail.
BothAreTried ==
  phase = "ended" =>
    /\ stage = "compiled"
    /\ teams \in IF site.teams THEN {"sent", "failed"} ELSE {"skipped"}
    /\ mail \in IF site.mail THEN {"sent", "failed"} ELSE {"skipped"}

\* Every trigger with a valid configuration comes to its end, and every application that
\* is told to stop stops, whatever fails on the way.
AllEnds ==
  /\ (phase = "working") ~> (phase = "ended")
  /\ (phase = "closing") ~> (phase = "stopped")
==============================================================================
