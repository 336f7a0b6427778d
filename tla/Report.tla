-------------------------------- MODULE Report --------------------------------
(* ReportService.generate: the requested checks one after the other, each with  *)
(* the Graph getter it reads, its severity, and the compiled overall severity.  *)
(* Most getters turn a failure into an empty list; some leave out what lies on  *)
(* a later page or cannot be read; some list more than README.md's check names. *)
(* Process runs this component.                                                 *)
EXTENDS Naturals, Sequences

CONSTANTS
  TrueCounts,   \* bound: for each check, how many of what README.md names the tenant may have
  Extras,       \* bound: for each lax check, how many others its getter may list
  Unknown       \* names of no check, which the model may ask for

\* generate's all_checks, in order.
AllChecks ==
  <<"suspicious_sign_ins", "mfa_compliance", "dormant_accounts", "license_optimization",
    "privileged_access", "guest_users", "legacy_auth", "exchange_best_practices",
    "conditional_access_gaps", "password_hygiene">>

\* Checks whose getter the server filters, and cuts at `top` entries.
Top == [suspicious_sign_ins |-> 50, guest_users |-> 200]
Filtered == DOMAIN Top

\* Checks whose getter filters one page by itself, and may skip entries of it.
Paged == {"mfa_compliance", "dormant_accounts", "privileged_access"}

\* Checks whose getter lists more than README.md names: users whose risk was dismissed,
\* accounts without any sign-in however new, each role of one administrator.
Lax == {"suspicious_sign_ins", "dormant_accounts", "privileged_access"}

\* The check whose getter raises when it fails.
Raising == {"license_optimization"}

\* Checks whose getter computes a date from the days the request gives, before its try.
Dated == {"suspicious_sign_ins", "dormant_accounts"}

Counted == Filtered \cup Paged \cup Raising

\* Checks that read nothing: a fixed section each.
Fixed == [legacy_auth |-> "warning", exchange_best_practices |-> "ok",
          conditional_access_gaps |-> "warning", password_hygiene |-> "ok"]

Checks == Counted \cup DOMAIN Fixed

Names == Checks \cup Unknown

ASSUME CountsAssumption == TrueCounts \in [Counted -> SUBSET Nat]
ASSUME ExtrasAssumption == Extras \in [Lax -> SUBSET Nat]
ASSUME UnknownAssumption == Unknown \cap Checks = {}

Severities == {"ok", "warning", "critical"}

VARIABLES
  stage,     \* "none", "running", "compiled"
  todo,      \* the requested checks still to run
  odd,       \* the dated checks whose days are beyond every date
  read,      \* what the getter of the first of them returned, or NoRead
  latest,    \* the last section, and what it should tell of
  kinds,     \* of the sections so far: which severities, from a failed check or not
  made,      \* how many sections there are
  critical, warnings,    \* critical_count, warning_count
  overall,   \* overall_severity
  all        \* ghost: all checks were requested

reportVars == <<stage, todo, odd, read, latest, kinds, made, critical, warnings, overall, all>>

\* How much of the data a section rests on: "whole" of it, a "part", "none" although it
\* reads as an empty list, or it "failed", openly.
Data == {"whole", "part", "none", "failed", "fixed"}

Reads == [truth : Nat, count : Nat, extra : BOOLEAN, data : Data]
NoRead == [truth |-> 0, count |-> 0, extra |-> FALSE, data |-> "unread"]

Kinds == [severity : Severities, failed : BOOLEAN]
Sections ==
  [check : Checks, severity : Severities, data : Data, truth : Nat, extra : BOOLEAN]
NoSection ==
  [check |-> "none", severity |-> "ok", data |-> "unread", truth |-> 0, extra |-> FALSE]

ReportTypeOK ==
  /\ stage \in {"none", "running", "compiled"}
  /\ todo \in Seq(Names) /\ odd \subseteq Dated
  /\ read \in Reads \cup {NoRead}
  /\ latest \in Sections \cup {NoSection}
  /\ kinds \in SUBSET Kinds
  /\ made \in Nat /\ critical \in Nat /\ warnings \in Nat /\ critical + warnings <= made
  /\ overall \in Severities \cup {"none"}
  /\ all \in BOOLEAN

ReportInit ==
  /\ stage = "none" /\ todo = <<>> /\ odd = {} /\ read = NoRead /\ latest = NoSection
  /\ kinds = {} /\ made = 0 /\ critical = 0 /\ warnings = 0 /\ overall = "none" /\ all = FALSE
------------------------------------------------------------------------------
(* The checks.                                                                  *)

\* Mutant: the counts of the last report are not reset.
Begin_KeepsCounts(requested, days) ==
  /\ stage' = "running"
  /\ todo' = IF requested = <<>> THEN AllChecks ELSE requested
  /\ odd' = days
  /\ read' = NoRead /\ latest' = NoSection
  /\ kinds' = {} /\ made' = 0 /\ overall' = "none" /\ all' = (requested = <<>>)
  /\ UNCHANGED <<critical, warnings>>

\* `checks or all_checks`: an empty list asks for all of them.
Begin(requested, days) ==
  /\ stage' = "running"
  /\ todo' = IF requested = <<>> THEN AllChecks ELSE requested
  /\ odd' = days
  /\ read' = NoRead /\ latest' = NoSection
  /\ kinds' = {} /\ made' = 0 /\ critical' = 0 /\ warnings' = 0 /\ overall' = "none"
  /\ all' = (requested = <<>>)

\* The severity a check gives to n findings.
Severity(c, n) ==
  LET graded(amber, red) == IF n > red THEN "critical" ELSE IF n > amber THEN "warning" ELSE "ok" IN
  CASE c = "suspicious_sign_ins" -> graded(0, 3)
    [] c = "mfa_compliance"      -> graded(0, 5)
    [] c = "dormant_accounts"    -> graded(0, 10)
    [] c = "privileged_access"   -> graded(2, 5)
    [] c = "guest_users"         -> IF n > 20 THEN "warning" ELSE "ok"
    [] OTHER                     -> IF n > 0 THEN "warning" ELSE "ok"

\* The first of the remaining checks is one of cs, and has not read anything yet.
Reading(cs) == stage = "running" /\ todo # <<>> /\ read = NoRead /\ Head(todo) \in cs

\* The getter lists k entries for n of what the check names, x of them something else.
Got(n, k, x, d) ==
  /\ read' = [truth |-> n, count |-> k, extra |-> x > 0, data |-> d]
  /\ UNCHANGED <<stage, todo, odd, latest, kinds, made, critical, warnings, overall, all>>

More(c) == IF c \in Lax THEN Extras[c] ELSE {0}

\* The server cuts what it filtered.
Cut(c, n) == IF n > Top[c] THEN Top[c] ELSE n

ReadFiltered ==
  /\ Reading(Filtered \ odd)
  /\ \E n \in TrueCounts[Head(todo)], x \in More(Head(todo)) :
       Got(n, Cut(Head(todo), n + x), x, "whole")

\* Mutant: a user whose methods cannot be read counts as one without.
Listed_Unread(n) == 0 .. n + 1

\* What the getter can find of n entries: some lie on a later page, of some users the
\* second request fails or shows a method that is no second factor, and a group holds a
\* role for several administrators.
Listed(n) == 0 .. n

ReadPaged ==
  /\ Reading(Paged \ odd)
  /\ \E n \in TrueCounts[Head(todo)], x \in More(Head(todo)) :
       \/ Got(n, n + x, x, "whole")
       \/ \E k \in Listed(n) : Got(n, k + x, x, "part")

ReadLicenses ==
  /\ Reading(Raising)
  /\ \E n \in TrueCounts[Head(todo)] : Got(n, n, 0, "whole")

\* The getter fails, and returns an empty list.
ReadNothing ==
  /\ Reading((Filtered \cup Paged) \ odd)
  /\ \E n \in TrueCounts[Head(todo)] : Got(n, 0, 0, "none")

\* sections.append, and on to the next check.
Add(s, d, n, e) ==
  /\ latest' = [check |-> Head(todo), severity |-> s, data |-> d, truth |-> n, extra |-> e]
  /\ kinds' = kinds \cup {[severity |-> s, failed |-> d = "failed"]}
  /\ made' = made + 1
  /\ todo' = Tail(todo) /\ read' = NoRead
  /\ UNCHANGED <<stage, odd, overall, all>>

Count(s) ==
  /\ critical' = critical + (IF s = "critical" THEN 1 ELSE 0)
  /\ warnings' = warnings + (IF s = "warning" THEN 1 ELSE 0)

Judge ==
  /\ stage = "running" /\ read # NoRead
  /\ LET s == Severity(Head(todo), read.count) IN
     Add(s, read.data, read.truth, read.extra) /\ Count(s)

\* A check that reads nothing.
Recite ==
  /\ Reading(DOMAIN Fixed)
  /\ LET s == Fixed[Head(todo)] IN Add(s, "fixed", 0, FALSE) /\ Count(s)

\* Mutant: the exception ends the report.
CheckFails_Escapes ==
  /\ Reading(Raising \cup odd)
  /\ stage' = "none" /\ todo' = <<>>
  /\ UNCHANGED <<odd, read, latest, kinds, made, critical, warnings, overall, all>>

\* The getter raises, or cannot go back so many days: a section that says so, which no
\* count includes.
CheckFails ==
  /\ Reading(Raising \cup odd)
  /\ \E n \in TrueCounts[Head(todo)] : Add("warning", "failed", n, FALSE)
  /\ UNCHANGED <<critical, warnings>>

\* A name without a check is passed over.
Skip ==
  /\ stage = "running" /\ todo # <<>> /\ Head(todo) \in Unknown
  /\ todo' = Tail(todo)
  /\ UNCHANGED <<stage, odd, read, latest, kinds, made, critical, warnings, overall, all>>

\* Mutant: the warnings are looked at first.
Overall_WarningsFirst ==
  IF warnings > 0 THEN "warning" ELSE IF critical > 0 THEN "critical" ELSE "ok"

Overall == IF critical > 0 THEN "critical" ELSE IF warnings > 0 THEN "warning" ELSE "ok"

Compile ==
  /\ stage = "running" /\ todo = <<>>
  /\ stage' = "compiled" /\ overall' = Overall
  /\ UNCHANGED <<todo, odd, read, latest, kinds, made, critical, warnings, all>>

ReportStep ==
  \/ ReadFiltered \/ ReadPaged \/ ReadLicenses \/ ReadNothing
  \/ Judge \/ Recite \/ CheckFails \/ Skip \/ Compile
------------------------------------------------------------------------------
(* What a report is worth.                                                      *)

Rank == [ok |-> 0, warning |-> 1, critical |-> 2]

\* The severity logic of README.md's table of checks: red above, amber above.
Red == [suspicious_sign_ins |-> 3, mfa_compliance |-> 5, dormant_accounts |-> 10,
        privileged_access |-> 5]
Amber == [suspicious_sign_ins |-> 0, license_optimization |-> 0, guest_users |-> 20]

Exceeds(limits) == latest.check \in DOMAIN limits /\ latest.truth > limits[latest.check]

\* A section departs from README.md's table for two reasons only. It is milder than the
\* table has it only if the getter could not read everything: no page of the server hides
\* a limit. It is more severe only if the getter lists what the table does not name: what
\* cannot be read never counts against the tenant.
SeveritiesExplained ==
  LET red   == latest.severity = "critical"
      amber == latest.severity # "ok" IN
  /\ latest.data = "whole" => (Exceeds(Red) => red) /\ (Exceeds(Amber) => amber)
  /\ latest.data \in {"whole", "part", "none"} /\ ~latest.extra =>
       /\ red => Exceeds(Red)
       /\ amber /\ latest.check \in DOMAIN Amber => Exceeds(Amber)

\* The overall severity is the worst of the sections, although failed checks are counted
\* nowhere: the full report always has amber sections. Only of a subset that the model
\* asks for can a failed section be missing from it.
OverallIsWorst ==
  stage = "compiled" =>
    /\ \A k \in kinds : all \/ ~k.failed => Rank[k.severity] <= Rank[overall]
    /\ overall # "ok" => \E k \in kinds : k.severity = overall

\* SECURITY.md, "No silent failure": unavailable capabilities return truthful results. A
\* check that could not read the tenant does not report it clean.
NoSilentFailure == latest.severity = "ok" => latest.data # "none"
==============================================================================
