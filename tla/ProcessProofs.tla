---------------------------- MODULE ProcessProofs ----------------------------
(* Theorems about Process: every deployment, any number of starts, any findings *)
(* and any lists of checks.                                                     *)
EXTENDS Process, TLAPS

(* The report.                                                                  *)

\* All of n entries of check c, up to the server's cut.
Shown(c, n) == IF c \in Filtered THEN Cut(c, n) ELSE n

\* What a getter returned belongs to the check at the head of todo: all there is, up to
\* the server's cut, if the whole was read, and no more than there is if nothing else was
\* listed.
ReadInv ==
  read # NoRead =>
    /\ stage = "running" /\ todo # <<>> /\ Head(todo) \in Counted
    /\ read \in Reads /\ read.data \in {"whole", "part", "none"}
    /\ ~read.extra => read.count <= read.truth
    /\ read.data = "whole" => read.count >= Shown(Head(todo), read.truth)

\* The counts tell which severities the sections have, but for failed ones, which are
\* amber; the list of all checks has an amber section or comes to one.
CountInv ==
  /\ critical > 0 <=> \E k \in kinds : k.severity = "critical" /\ ~k.failed
  /\ warnings > 0 <=> \E k \in kinds : k.severity = "warning" /\ ~k.failed
  /\ \A k \in kinds : k.failed => k.severity = "warning"
  /\ stage = "running" /\ all => warnings > 0 \/ \E i \in 1 .. Len(todo) : todo[i] = "legacy_auth"

ReportInv == ReportTypeOK /\ ReadInv /\ SeveritiesExplained /\ CountInv /\ OverallIsWorst

\* The names of the checks.
LEMMA CheckNames ==
  /\ Filtered = {"suspicious_sign_ins", "guest_users"}
  /\ Counted = {"suspicious_sign_ins", "guest_users", "mfa_compliance", "dormant_accounts",
                "privileged_access", "license_optimization"}
  /\ DOMAIN Fixed = {"legacy_auth", "exchange_best_practices", "conditional_access_gaps",
                     "password_hygiene"}
  /\ Checks = Counted \cup DOMAIN Fixed
BY DEF Filtered, Top, Counted, Paged, Raising, Fixed, Checks

\* A check that counts gives one of the three severities.
LEMMA SeverityTyped ==
  ASSUME NEW c, NEW n \in Nat
  PROVE  Severity(c, n) \in Severities
BY DEF Severity, Severities

\* The limits of README.md.
LEMMA Limits ==
  /\ DOMAIN Red = {"suspicious_sign_ins", "mfa_compliance", "dormant_accounts",
                   "privileged_access"}
  /\ DOMAIN Amber = {"suspicious_sign_ins", "license_optimization", "guest_users"}
  /\ Red["suspicious_sign_ins"] = 3 /\ Red["mfa_compliance"] = 5
  /\ Red["dormant_accounts"] = 10 /\ Red["privileged_access"] = 5
  /\ Amber["suspicious_sign_ins"] = 0 /\ Amber["license_optimization"] = 0
  /\ Amber["guest_users"] = 20
BY DEF Red, Amber

\* A cut at the page size of the server is no cut below the limits of the check.
LEMMA CutIsHarmless ==
  ASSUME NEW c \in Counted, NEW n \in Nat
  PROVE  /\ Shown(c, n) \in Nat /\ Shown(c, n) <= n
         /\ c \in DOMAIN Red /\ n > Red[c] => Shown(c, n) > Red[c]
         /\ c \in DOMAIN Amber /\ n > Amber[c] => Shown(c, n) > Amber[c]
<1>1. Top["suspicious_sign_ins"] = 50 /\ Top["guest_users"] = 200 BY DEF Top
<1> QED BY <1>1, CheckNames, Limits DEF Shown, Cut

\* More entries, no less is shown.
LEMMA CutIsMonotone ==
  ASSUME NEW c \in Filtered, NEW n \in Nat, NEW x \in Nat
  PROVE  Cut(c, n + x) \in Nat /\ Cut(c, n + x) >= Cut(c, n) /\ Cut(c, n + 0) <= n
<1>1. Top["suspicious_sign_ins"] = 50 /\ Top["guest_users"] = 200 BY DEF Top
<1> QED BY <1>1, CheckNames DEF Cut

\* The severities are those of the limits in README.md.
LEMMA SeverityDocumented ==
  ASSUME NEW c \in Counted, NEW n \in Nat
  PROVE  /\ (Severity(c, n) = "critical") <=> (c \in DOMAIN Red /\ n > Red[c])
         /\ c \in DOMAIN Amber => ((Severity(c, n) # "ok") <=> (n > Amber[c]))
BY CheckNames, Limits DEF Severity

LEMMA ReadsTyped ==
  ASSUME NEW c \in Counted, NEW n \in TrueCounts[c]
  PROVE  n \in Nat
BY CountsAssumption

LEMMA ExtrasTyped ==
  ASSUME NEW c, NEW x \in More(c)
  PROVE  x \in Nat
BY ExtrasAssumption DEF More

LEMMA BeginKeeps ==
  ASSUME NEW requested \in Seq(Names), NEW days \in SUBSET Dated, Begin(requested, days)
  PROVE  ReportInv'
<1>1. AllChecks \in Seq(Names) /\ \E i \in 1 .. Len(AllChecks) : AllChecks[i] = "legacy_auth"
  <2>1. AllChecks \in Seq(Names) BY CheckNames DEF AllChecks, Names
  <2>2. Len(AllChecks) = 10 BY DEF AllChecks
  <2>3. AllChecks[7] = "legacy_auth" BY DEF AllChecks
  <2> QED BY <2>1, <2>2, <2>3
<1>2. todo' \in Seq(Names) /\ (all' => todo' = AllChecks)
  BY <1>1 DEF Begin
<1>3. ReportTypeOK'
  BY <1>2 DEF Begin, ReportTypeOK, Severities
<1>4. ReadInv'
  BY DEF Begin, ReadInv
<1>5. SeveritiesExplained'
  BY DEF Begin, SeveritiesExplained, NoSection
<1>6. CountInv'
  BY <1>1, <1>2 DEF Begin, CountInv
<1>7. OverallIsWorst'
  BY DEF Begin, OverallIsWorst
<1> QED BY <1>3, <1>4, <1>5, <1>6, <1>7 DEF ReportInv

LEMMA ForgetKeeps == Forget => ReportInv'
<1> SUFFICES ASSUME Forget PROVE ReportInv' OBVIOUS
<1>1. ReportTypeOK'
  <2>1. <<>> \in Seq(Names) OBVIOUS
  <2>2. all' \in BOOLEAN /\ odd' \subseteq Dated BY DEF Forget
  <2> QED BY <2>1, <2>2 DEF Forget, ReportTypeOK, Severities
<1>2. ReadInv' /\ CountInv' /\ OverallIsWorst'
  BY DEF Forget, ReadInv, CountInv, OverallIsWorst
<1>3. SeveritiesExplained'
  BY DEF Forget, SeveritiesExplained, NoSection
<1> QED BY <1>1, <1>2, <1>3 DEF ReportInv

\* A getter that returns: nothing else changes, and what it returned fits its check.
LEMMA GotKeeps ==
  ASSUME ReportInv, NEW n \in Nat, NEW k \in Nat, NEW x \in Nat,
         NEW d \in {"whole", "part", "none"}, Got(n, k, x, d), Reading(Counted),
         x = 0 => k <= n,
         d = "whole" => k >= Shown(Head(todo), n)
  PROVE  ReportInv'
<1> DEFINE e == x > 0
<1>1. e \in BOOLEAN /\ (~e => k <= n) OBVIOUS
<1>2. read' = [truth |-> n, count |-> k, extra |-> e, data |-> d]
      /\ UNCHANGED <<stage, todo, odd, latest, kinds, made, critical, warnings, overall, all>>
  BY DEF Got
<1> HIDE DEF e
<1>3. read' \in Reads BY <1>1, <1>2 DEF Reads, Data
<1>4. ReportTypeOK'
  BY <1>2, <1>3 DEF ReportInv, ReportTypeOK
<1>5. ReadInv'
  <2>1. read'.data = d /\ read'.count = k /\ read'.truth = n /\ read'.extra = e BY <1>2
  <2>2. todo' = todo /\ stage' = "running" /\ todo # <<>> /\ Head(todo) \in Counted
    BY <1>2 DEF Reading
  <2> QED BY <1>1, <1>3, <2>1, <2>2 DEF ReadInv, Shown, Cut
<1>6. SeveritiesExplained' /\ CountInv' /\ OverallIsWorst'
  BY <1>2 DEF ReportInv, SeveritiesExplained, Exceeds, CountInv, OverallIsWorst
<1> QED BY <1>4, <1>5, <1>6 DEF ReportInv

LEMMA ReadKeeps ==
  ASSUME ReportInv, ReadFiltered \/ ReadPaged \/ ReadLicenses \/ ReadNothing
  PROVE  ReportInv'
<1> USE CheckNames DEF Paged, Raising
<1>1. CASE ReadFiltered
  <2>1. PICK n \in TrueCounts[Head(todo)], x \in More(Head(todo)) :
               Got(n, Cut(Head(todo), n + x), x, "whole")
    BY <1>1 DEF ReadFiltered
  <2>2. Reading(Counted) /\ Head(todo) \in Filtered BY <1>1 DEF ReadFiltered, Reading
  <2>3. n \in Nat /\ x \in Nat BY <2>2, ReadsTyped, ExtrasTyped DEF Reading
  <2>4. /\ Cut(Head(todo), n + x) \in Nat /\ Cut(Head(todo), n + x) >= Cut(Head(todo), n)
        /\ x = 0 => Cut(Head(todo), n + x) <= n
    BY <2>2, <2>3, CutIsMonotone
  <2> QED BY <2>1, <2>2, <2>3, <2>4, GotKeeps DEF Shown
<1>2. CASE ReadPaged
  <2>1. PICK n \in TrueCounts[Head(todo)], x \in More(Head(todo)) :
               Got(n, n + x, x, "whole") \/ \E k \in Listed(n) : Got(n, k + x, x, "part")
    BY <1>2 DEF ReadPaged
  <2>2. Reading(Counted) /\ Head(todo) \notin Filtered BY <1>2 DEF ReadPaged, Reading
  <2>3. n \in Nat /\ x \in Nat BY <2>2, ReadsTyped, ExtrasTyped DEF Reading
  <2>4. CASE Got(n, n + x, x, "whole")
    <3>1. n + x \in Nat /\ n + x >= n /\ (x = 0 => n + x <= n) BY <2>3
    <3>2. Shown(Head(todo), n) = n BY <2>2 DEF Shown
    <3> QED BY <2>2, <2>3, <2>4, <3>1, <3>2, GotKeeps
  <2>5. ASSUME NEW k \in Listed(n), Got(n, k + x, x, "part") PROVE ReportInv'
    <3>1. k + x \in Nat /\ (x = 0 => k + x <= n) BY <2>3 DEF Listed
    <3> QED BY <2>2, <2>3, <2>5, <3>1, GotKeeps
  <2> QED BY <2>1, <2>4, <2>5
<1>3. CASE ReadLicenses
  <2>1. PICK n \in TrueCounts[Head(todo)] : Got(n, n, 0, "whole")
    BY <1>3 DEF ReadLicenses
  <2>2. Reading(Counted) /\ Head(todo) \notin Filtered BY <1>3 DEF ReadLicenses, Reading
  <2>3. n \in Nat /\ n <= n /\ 0 \in Nat BY <2>2, ReadsTyped DEF Reading
  <2> QED BY <2>1, <2>2, <2>3, GotKeeps DEF Shown
<1>4. CASE ReadNothing
  <2>1. PICK n \in TrueCounts[Head(todo)] : Got(n, 0, 0, "none")
    BY <1>4 DEF ReadNothing
  <2>2. Reading(Counted) BY <1>4 DEF ReadNothing, Reading
  <2>3. n \in Nat /\ 0 <= n /\ 0 \in Nat BY <2>2, ReadsTyped DEF Reading
  <2> QED BY <2>1, <2>2, <2>3, GotKeeps
<1> QED BY <1>1, <1>2, <1>3, <1>4

\* A section is added and counted: the types and the counts.
LEMMA AddKeeps ==
  ASSUME ReportInv, stage = "running", todo # <<>>, Head(todo) \in Checks,
         NEW s \in Severities, NEW d \in Data, NEW n \in Nat, NEW e \in BOOLEAN,
         Add(s, d, n, e),
         \/ d # "failed" /\ Count(s)
         \/ d = "failed" /\ s = "warning" /\ UNCHANGED <<critical, warnings>>,
         Head(todo) = "legacy_auth" => s = "warning" /\ d # "failed"
  PROVE  ReportTypeOK' /\ ReadInv' /\ CountInv' /\ OverallIsWorst'
<1> USE DEF ReportInv
<1>1. critical' \in Nat /\ warnings' \in Nat /\ made' \in Nat /\ critical' + warnings' <= made'
  BY DEF ReportTypeOK, Add, Count
<1>2. latest' \in Sections /\ todo' \in Seq(Names) /\ kinds' \in SUBSET Kinds
  <2>1. latest' \in Sections BY DEF Add, Sections
  <2>2. todo' \in Seq(Names) BY DEF ReportTypeOK, Add
  <2>3. [severity |-> s, failed |-> d = "failed"] \in Kinds
    <3>1. (d = "failed") \in BOOLEAN OBVIOUS
    <3> QED BY <3>1 DEF Kinds
  <2>4. kinds' \in SUBSET Kinds BY <2>3 DEF ReportTypeOK, Add
  <2> QED BY <2>1, <2>2, <2>4
<1>3. ReportTypeOK'
  BY <1>1, <1>2 DEF ReportTypeOK, Add
<1>4. ReadInv' /\ OverallIsWorst'
  BY DEF ReadInv, OverallIsWorst, Add
<1>5. CountInv'
  <2> DEFINE k == [severity |-> s, failed |-> d = "failed"]
  <2>1. kinds' = kinds \cup {k} /\ k.severity = s /\ (k.failed <=> d = "failed")
    BY DEF Add
  <2>2. critical' > 0 <=> critical > 0 \/ (s = "critical" /\ d # "failed")
    BY DEF ReportTypeOK, Count, Severities
  <2>3. warnings' > 0 <=> warnings > 0 \/ (s = "warning" /\ d # "failed")
    BY DEF ReportTypeOK, Count, Severities
  <2>4. /\ critical' > 0 <=> \E x \in kinds' : x.severity = "critical" /\ ~x.failed
        /\ warnings' > 0 <=> \E x \in kinds' : x.severity = "warning" /\ ~x.failed
        /\ \A x \in kinds' : x.failed => x.severity = "warning"
    <3> HIDE DEF k
    <3> QED BY <2>1, <2>2, <2>3 DEF CountInv
  <2>5. ASSUME stage' = "running", all'
        PROVE  warnings' > 0 \/ \E i \in 1 .. Len(todo') : todo'[i] = "legacy_auth"
    <3>1. CASE warnings > 0 BY <2>3, <3>1
    <3>2. CASE Head(todo) = "legacy_auth" BY <2>3, <3>2
    <3>3. ASSUME NEW i \in 1 .. Len(todo), todo[i] = "legacy_auth", i # 1
          PROVE  \E j \in 1 .. Len(todo') : todo'[j] = "legacy_auth"
      <4>1. i - 1 \in 1 .. Len(todo') /\ todo'[i - 1] = todo[i]
        BY <3>3 DEF ReportTypeOK, Add
      <4> QED BY <4>1, <3>3
    <3> QED BY <2>5, <3>1, <3>2, <3>3 DEF CountInv, Add, ReportTypeOK
  <2> QED BY <2>4, <2>5 DEF CountInv
<1> QED BY <1>3, <1>4, <1>5

LEMMA JudgeKeeps == ReportInv /\ Judge => ReportInv'
<1> SUFFICES ASSUME ReportInv, Judge PROVE ReportInv' OBVIOUS
<1> DEFINE c == Head(todo)
           s == Severity(c, read.count)
<1>1. /\ stage = "running" /\ todo # <<>> /\ c \in Counted
      /\ read.truth \in Nat /\ read.count \in Nat /\ read.extra \in BOOLEAN
      /\ read.data \in {"whole", "part", "none"}
      /\ ~read.extra => read.count <= read.truth
      /\ read.data = "whole" => read.count >= Shown(c, read.truth)
  BY DEF ReportInv, ReadInv, Judge, Reads
<1>2. s \in Severities
  BY <1>1, SeverityTyped
<1>3. Add(s, read.data, read.truth, read.extra) /\ Count(s)
  BY DEF Judge
<1>4. c \in Checks /\ c # "legacy_auth" /\ read.data \in Data /\ read.data # "failed"
  BY <1>1, CheckNames DEF Data
<1>5. /\ (s = "critical") <=> (c \in DOMAIN Red /\ read.count > Red[c])
      /\ c \in DOMAIN Amber => ((s # "ok") <=> (read.count > Amber[c]))
  BY <1>1, SeverityDocumented
<1> HIDE DEF s
<1>6. ReportTypeOK' /\ ReadInv' /\ CountInv' /\ OverallIsWorst'
  BY <1>1, <1>2, <1>3, <1>4, AddKeeps
<1>7. /\ latest'.check = c /\ latest'.severity = s /\ latest'.data = read.data
      /\ latest'.truth = read.truth /\ latest'.extra = read.extra
  BY <1>3 DEF Add
<1>8. ASSUME NEW m \in Nat
      PROVE  /\ read.data = "whole" /\ read.truth > m /\ Shown(c, read.truth) > m => read.count > m
             /\ ~read.extra /\ read.count > m => read.truth > m
  BY <1>1, CutIsHarmless
<1>9. /\ c \in DOMAIN Red => Red[c] \in Nat
      /\ c \in DOMAIN Amber => Amber[c] \in Nat
  BY Limits
<1>10. SeveritiesExplained'
  <2>1. ASSUME read.data = "whole"
        PROVE  /\ c \in DOMAIN Red /\ read.truth > Red[c] => s = "critical"
               /\ c \in DOMAIN Amber /\ read.truth > Amber[c] => s # "ok"
    BY <1>1, <1>5, <1>8, <1>9, <2>1, CutIsHarmless
  <2>2. ASSUME ~read.extra
        PROVE  /\ s = "critical" => c \in DOMAIN Red /\ read.truth > Red[c]
               /\ s # "ok" /\ c \in DOMAIN Amber => read.truth > Amber[c]
    BY <1>5, <1>8, <1>9, <2>2
  <2> QED BY <1>7, <2>1, <2>2 DEF SeveritiesExplained, Exceeds
<1> QED BY <1>6, <1>10 DEF ReportInv

LEMMA OthersKeep == ReportInv /\ (Recite \/ CheckFails \/ Skip \/ Compile) => ReportInv'
<1> SUFFICES ASSUME ReportInv, Recite \/ CheckFails \/ Skip \/ Compile PROVE ReportInv' OBVIOUS
<1>1. CASE Recite
  <2> DEFINE s == Fixed[Head(todo)]
  <2>1. stage = "running" /\ todo # <<>> /\ Head(todo) \in DOMAIN Fixed
        /\ Add(s, "fixed", 0, FALSE) /\ Count(s)
    BY <1>1 DEF Recite, Reading
  <2>2. s \in Severities /\ (Head(todo) = "legacy_auth" => s = "warning")
    BY <2>1 DEF Fixed, Severities
  <2>3. Head(todo) \in Checks /\ "fixed" \in Data
    BY <2>1, CheckNames DEF Data
  <2> HIDE DEF s
  <2>4. ReportTypeOK' /\ ReadInv' /\ CountInv' /\ OverallIsWorst'
    BY <2>1, <2>2, <2>3, AddKeeps
  <2>5. SeveritiesExplained'
    BY <2>1 DEF Add, SeveritiesExplained
  <2> QED BY <2>4, <2>5 DEF ReportInv
<1>2. CASE CheckFails
  <2>1. PICK n \in TrueCounts[Head(todo)] : Add("warning", "failed", n, FALSE)
    BY <1>2 DEF CheckFails
  <2>2. /\ stage = "running" /\ todo # <<>> /\ Head(todo) \in Counted
        /\ UNCHANGED <<critical, warnings>>
    BY <1>2, CheckNames DEF CheckFails, Reading, Raising, Dated, ReportInv, ReportTypeOK
  <2>3. n \in Nat /\ Head(todo) \in Checks /\ Head(todo) # "legacy_auth" /\ "failed" \in Data /\ "warning" \in Severities
    BY <2>2, CheckNames, ReadsTyped DEF Data, Severities
  <2>4. ReportTypeOK' /\ ReadInv' /\ CountInv' /\ OverallIsWorst'
    BY <2>1, <2>2, <2>3, AddKeeps
  <2>5. SeveritiesExplained'
    BY <2>1 DEF Add, SeveritiesExplained
  <2> QED BY <2>4, <2>5 DEF ReportInv
<1>3. CASE Skip
  <2>1. ReportTypeOK'
    BY <1>3 DEF ReportInv, ReportTypeOK, Skip
  <2>2. ReadInv'
    <3>1. Head(todo) \notin Counted
      BY <1>3, UnknownAssumption, CheckNames DEF Skip
    <3> QED BY <1>3, <3>1 DEF ReportInv, ReadInv, Skip
  <2>3. CountInv'
    <3>1. Head(todo) # "legacy_auth"
      BY <1>3, UnknownAssumption, CheckNames DEF Skip
    <3>2. ASSUME NEW i \in 1 .. Len(todo), todo[i] = "legacy_auth"
          PROVE  \E j \in 1 .. Len(todo') : todo'[j] = "legacy_auth"
      <4>1. i # 1 BY <1>3, <3>1, <3>2 DEF Skip, ReportInv, ReportTypeOK
      <4>2. i - 1 \in 1 .. Len(todo') /\ todo'[i - 1] = todo[i]
        BY <1>3, <3>2, <4>1 DEF ReportInv, ReportTypeOK, Skip
      <4> QED BY <3>2, <4>2
    <3> QED BY <1>3, <3>2 DEF ReportInv, CountInv, Skip
  <2>4. SeveritiesExplained' /\ OverallIsWorst'
    BY <1>3 DEF ReportInv, SeveritiesExplained, Exceeds, OverallIsWorst, Skip
  <2> QED BY <2>1, <2>2, <2>3, <2>4 DEF ReportInv
<1>4. CASE Compile
  <2>1. ReportTypeOK' /\ ReadInv' /\ CountInv'
    BY <1>4 DEF ReportInv, ReportTypeOK, ReadInv, CountInv, Compile, Overall, Severities
  <2>2. SeveritiesExplained'
    BY <1>4 DEF ReportInv, SeveritiesExplained, Exceeds, Compile
  <2>3. OverallIsWorst'
    <3>1. Rank["ok"] = 0 /\ Rank["warning"] = 1 /\ Rank["critical"] = 2 BY DEF Rank
    <3>2. overall' = Overall /\ kinds' = kinds /\ (all' <=> all)
      BY <1>4 DEF Compile
    <3>3. all => warnings > 0
      BY <1>4 DEF Compile, ReportInv, CountInv
    <3>4. ASSUME NEW k \in kinds, all \/ ~k.failed
          PROVE  Rank[k.severity] <= Rank[Overall]
      <4>1. k.severity \in Severities BY DEF ReportInv, ReportTypeOK, Kinds
      <4> QED BY <3>1, <3>3, <3>4, <4>1 DEF ReportInv, CountInv, Overall, Severities
    <3>5. Overall # "ok" => \E k \in kinds : k.severity = Overall
      BY DEF ReportInv, CountInv, Overall
    <3> QED BY <3>2, <3>4, <3>5 DEF OverallIsWorst
  <2> QED BY <2>1, <2>2, <2>3 DEF ReportInv
<1> QED BY <1>1, <1>2, <1>3, <1>4

LEMMA ReportStepKeeps == ReportInv /\ ReportStep => ReportInv'
BY ReadKeeps, JudgeKeeps, OthersKeep DEF ReportStep
------------------------------------------------------------------------------
(* The two processes.                                                           *)

\* What a trigger that is about to send its mail has done.
Delivered ==
  phase = "mailing" =>
    stage = "compiled" /\ teams \in IF site.teams THEN {"sent", "failed"} ELSE {"skipped"}

\* A trigger that came to its end leaves a configuration that is valid.
EndedValid == phase = "ended" => IsValid(cfg)

Inv ==
  /\ TypeOK /\ ReportInv
  /\ RunsHydrated /\ StoppedMeansClosed /\ EndedValid
  /\ Delivered /\ BothAreTried

LEMMA InitInv == Init => Inv
<1> SUFFICES ASSUME Init PROVE Inv OBVIOUS
<1> USE DEF Init, StartupInit, ReportInit
<1>1. StartupTypeOK
  <2>1. cfg \in [Secrets -> Origins] BY DEF Loaded, Origins
  <2> QED BY <2>1, StartsAssumption DEF StartupTypeOK, Origins, Stores, Clients
<1>2. ReportTypeOK
  <2>1. <<>> \in Seq(Names) OBVIOUS
  <2>2. all \in BOOLEAN /\ odd \subseteq Dated OBVIOUS
  <2> QED BY <2>1, <2>2 DEF ReportTypeOK, Severities
<1>3. ReadInv /\ CountInv /\ OverallIsWorst
  BY DEF ReadInv, CountInv, OverallIsWorst
<1>4. SeveritiesExplained
  BY DEF SeveritiesExplained, NoSection
<1>5. RunsHydrated /\ StoppedMeansClosed /\ EndedValid /\ Delivered /\ BothAreTried
  BY DEF RunsHydrated, StoppedMeansClosed, EndedValid, Delivered, BothAreTried
<1> QED BY <1>1, <1>2, <1>3, <1>4, <1>5 DEF Inv, TypeOK, ReportInv, Deliveries

LEMMA HydratedTyped ==
  ASSUME StartupTypeOK, NEW given \in SUBSET Secrets
  PROVE  Hydrated(given) \in [Secrets -> Origins]
BY DEF StartupTypeOK, Hydrated, Origins

\* Hydration never loses a secret.
LEMMA HydratedValid ==
  ASSUME NEW given \in SUBSET Secrets, IsValid(cfg)
  PROVE  IsValid(Hydrated(given))
<1>1. \A s \in Secrets : cfg[s] # "none" => Hydrated(given)[s] # "none" BY DEF Hydrated
<1>2. {"azure-client-secret", "llm-api-key", "session-secret"} \subseteq Secrets BY DEF Secrets
<1> QED BY <1>1, <1>2 DEF IsValid

LEMMA SecretNames == "session-secret" \in Secrets /\ "bot-app-password" \in Secrets
BY DEF Secrets

\* What Boot, Stop and Cleanup do to the application.
LEMMA WebKeeps ==
  ASSUME Inv,
         \/ \E given \in SUBSET Secrets : CreateApp(given)
         \/ OnStartup \/ Restart \/ Shutdown \/ CloseGraph \/ CloseExo
  PROVE  /\ StartupTypeOK' /\ RunsHydrated' /\ StoppedMeansClosed'
         /\ phase' \notin {"mailing", "ended"}
<1> USE DEF Inv, TypeOK
<1>1. ASSUME NEW given \in SUBSET Secrets, CreateApp(given)
      PROVE  /\ StartupTypeOK' /\ RunsHydrated' /\ StoppedMeansClosed'
             /\ phase' \notin {"mailing", "ended"}
  <2>1. cfg' \in [Secrets -> Origins] BY <1>1, HydratedTyped DEF CreateApp
  <2>2. phase' \in {"created", "refused"} /\ UNCHANGED <<site, kind, password, audit, sessions,
                                                         graph, exo>>
        /\ starts' \in 0 .. MaxStarts
    BY <1>1, StartsAssumption DEF CreateApp, StartupTypeOK
  <2>3. key' \in Origins
    BY <1>1, <2>1, SecretNames DEF CreateApp, CookieKey, StartupTypeOK
  <2>4. StartupTypeOK'
    BY <2>1, <2>2, <2>3 DEF StartupTypeOK
  <2>5. phase' = "created" => IsValid(cfg') /\ key' = cfg'["session-secret"] /\ key' # "none"
    BY <1>1 DEF CreateApp, CookieKey, IsValid
  <2>6. RunsHydrated'
    BY <2>2, <2>5 DEF RunsHydrated, IsValid
  <2> QED BY <2>2, <2>4, <2>6 DEF StoppedMeansClosed
<1>2. CASE OnStartup
  <2>1. phase' \in {"serving", "crashed"} /\ UNCHANGED <<site, kind, cfg, key, starts>>
    BY <1>2 DEF OnStartup
  <2>2. StartupTypeOK'
    BY <1>2, SecretNames DEF OnStartup, StartupTypeOK, Initialized, Stores, Clients, Origins
  <2>3. phase' = "serving" /\ site.bot = "password" =>
          password' = cfg["bot-app-password"] /\ password' # "none"
    BY <1>2 DEF OnStartup
  <2>4. IsValid(cfg)' /\ key' = cfg'["session-secret"] /\ key' # "none"
    BY <1>2, <2>1 DEF OnStartup, RunsHydrated, IsValid
  <2>5. RunsHydrated'
    BY <2>1, <2>3, <2>4 DEF RunsHydrated
  <2> QED BY <2>1, <2>2, <2>5 DEF StoppedMeansClosed
<1>3. CASE Restart
  <2>1. cfg' \in [Secrets -> Origins] BY <1>3 DEF Restart, Loaded, Origins
  <2> QED BY <1>3, <2>1 DEF Restart, StartupTypeOK, RunsHydrated, StoppedMeansClosed, Origins,
                            Stores, Clients
<1>4. CASE Shutdown
  BY <1>4 DEF Shutdown, StartupTypeOK, RunsHydrated, StoppedMeansClosed
<1>5. CASE CloseGraph
  BY <1>5 DEF CloseGraph, AfterGraph, StartupTypeOK, RunsHydrated, StoppedMeansClosed, Clients
<1>6. CASE CloseExo
  BY <1>6 DEF CloseExo, StartupTypeOK, RunsHydrated, StoppedMeansClosed, Clients
<1> QED BY <1>1, <1>2, <1>3, <1>4, <1>5, <1>6

LEMMA TriggerKeeps ==
  ASSUME Inv, NEW given \in SUBSET Secrets, Trigger(given)
  PROVE  /\ StartupTypeOK' /\ RunsHydrated' /\ StoppedMeansClosed'
         /\ phase' \in {"working", "refused"}
<1> USE DEF Inv, TypeOK
<1>1. cfg' \in [Secrets -> Origins] BY HydratedTyped DEF Trigger
<1>2. /\ phase' \in {"working", "refused"} /\ (phase' = "working" => IsValid(cfg'))
      /\ UNCHANGED <<site, kind, key, password, audit, sessions, exo>>
      /\ graph' \in {graph, "open"} /\ starts' \in 0 .. MaxStarts
  BY StartsAssumption DEF Trigger, StartupTypeOK
<1>3. StartupTypeOK'
  BY <1>1, <1>2 DEF StartupTypeOK, Clients
<1>4. RunsHydrated'
  BY <1>2 DEF RunsHydrated, IsValid
<1> QED BY <1>2, <1>3, <1>4 DEF StoppedMeansClosed

LEMMA ReportUnchanged == ReportInv /\ UNCHANGED reportVars => ReportInv'
BY DEF ReportInv, ReportTypeOK, ReadInv, SeveritiesExplained, Exceeds, CountInv, OverallIsWorst,
       reportVars, Shown, Cut

LEMMA StartupUnchanged ==
  StartupTypeOK /\ RunsHydrated /\ StoppedMeansClosed /\ UNCHANGED startupVars
    => StartupTypeOK' /\ RunsHydrated' /\ StoppedMeansClosed'
BY DEF StartupTypeOK, RunsHydrated, StoppedMeansClosed, startupVars, IsValid

LEMMA EndedStaysValid == Inv /\ [Next]_vars => EndedValid'
<1> SUFFICES ASSUME Inv, [Next]_vars, phase' = "ended" PROVE IsValid(cfg)' BY DEF EndedValid
<1>1. CASE SendMail
  <2>1. IsValid(cfg) /\ UNCHANGED <<site, cfg>>
    BY <1>1 DEF SendMail, Go, Inv, RunsHydrated
  <2> QED BY <2>1 DEF IsValid
<1>2. CASE UNCHANGED startupVars
  BY <1>2 DEF startupVars, Inv, EndedValid, IsValid
<1>3. SendMail \/ UNCHANGED startupVars
  BY DEF Next, vars, Boot, CreateApp, OnStartup, Restart, Request, Stop, Shutdown, Cleanup,
         CloseGraph, AfterGraph, CloseExo, Fire, Trigger, Generate, PostToTeams, AfterTeams, Go
<1> QED BY <1>1, <1>2, <1>3

LEMMA NextInv == Inv /\ [Next]_vars => Inv'
<1> SUFFICES ASSUME Inv, [Next]_vars PROVE Inv' OBVIOUS
<1>0. EndedValid' BY EndedStaysValid
<1>1. CASE Boot
  <2>1. /\ StartupTypeOK' /\ RunsHydrated' /\ StoppedMeansClosed'
        /\ phase' \notin {"mailing", "ended"}
    BY <1>1, WebKeeps DEF Boot
  <2>2. UNCHANGED <<reportVars, teams, mail>> BY <1>1 DEF Boot
  <2>3. ReportInv' BY <2>2, ReportUnchanged DEF Inv
  <2> QED BY <1>0, <2>1, <2>2, <2>3 DEF Inv, TypeOK, ReportInv, Delivered, BothAreTried
<1>2. ASSUME NEW r \in Requests, Request(r) PROVE Inv'
  <2>1. ReportInv'
    <3>1. r.checks \in Seq(Names) /\ r.odd \in SUBSET Dated BY RequestsAssumption
    <3> QED BY <1>2, <3>1, BeginKeeps DEF Request
  <2>2. phase = "serving" /\ UNCHANGED <<startupVars, teams, mail>> BY <1>2 DEF Request
  <2>3. StartupTypeOK' /\ RunsHydrated' /\ StoppedMeansClosed'
    BY <2>2, StartupUnchanged DEF Inv, TypeOK
  <2> QED BY <1>0, <2>1, <2>2, <2>3 DEF Inv, TypeOK, ReportInv, Delivered, BothAreTried, startupVars
<1>3. CASE Stop
  <2>1. /\ StartupTypeOK' /\ RunsHydrated' /\ StoppedMeansClosed'
        /\ phase' \notin {"mailing", "ended"}
    BY <1>3, WebKeeps DEF Stop
  <2>2. ReportInv' /\ UNCHANGED <<teams, mail>> BY <1>3, ForgetKeeps DEF Stop
  <2> QED BY <1>0, <2>1, <2>2 DEF Inv, TypeOK, ReportInv, Delivered, BothAreTried
<1>4. CASE Cleanup
  <2>1. /\ StartupTypeOK' /\ RunsHydrated' /\ StoppedMeansClosed'
        /\ phase' \notin {"mailing", "ended"}
    BY <1>4, WebKeeps DEF Cleanup
  <2>2. UNCHANGED <<reportVars, teams, mail>> BY <1>4 DEF Cleanup
  <2>3. ReportInv' BY <2>2, ReportUnchanged DEF Inv
  <2> QED BY <1>0, <2>1, <2>2, <2>3 DEF Inv, TypeOK, ReportInv, Delivered, BothAreTried
<1>5. ASSUME NEW given \in SUBSET Secrets, Fire(given) PROVE Inv'
  <2>1. /\ StartupTypeOK' /\ RunsHydrated' /\ StoppedMeansClosed'
        /\ phase' \in {"working", "refused"}
    BY <1>5, TriggerKeeps DEF Fire
  <2>2. ReportInv'
    <3>1. <<>> \in Seq(Names) /\ {} \in SUBSET Dated OBVIOUS
    <3> QED BY <1>5, <3>1, BeginKeeps, ForgetKeeps DEF Fire
  <2>3. teams' \in Deliveries /\ mail' \in Deliveries BY <1>5 DEF Fire, Deliveries
  <2> QED BY <1>0, <2>1, <2>2, <2>3 DEF Inv, TypeOK, ReportInv, Delivered, BothAreTried
<1>6. CASE Generate
  <2>1. ReportInv' BY <1>6, ReportStepKeeps DEF Generate, Inv
  <2>2. phase \in {"serving", "working"} /\ UNCHANGED <<startupVars, teams, mail>>
    BY <1>6 DEF Generate
  <2>3. StartupTypeOK' /\ RunsHydrated' /\ StoppedMeansClosed'
    BY <2>2, StartupUnchanged DEF Inv, TypeOK
  <2> QED BY <1>0, <2>1, <2>2, <2>3 DEF Inv, TypeOK, ReportInv, Delivered, BothAreTried, startupVars
<1>7. CASE PostToTeams
  <2>1. /\ phase = "working" /\ stage = "compiled" /\ phase' = "mailing"
        /\ teams' \in IF site.teams THEN {"sent", "failed"} ELSE {"skipped"}
        /\ UNCHANGED <<site, kind, cfg, key, password, audit, sessions, graph, exo, starts>>
        /\ UNCHANGED <<reportVars, mail>>
    BY <1>7 DEF PostToTeams, AfterTeams, Go
  <2>2. ReportInv' BY <2>1, ReportUnchanged DEF Inv
  <2>3. StartupTypeOK' /\ RunsHydrated' /\ StoppedMeansClosed'
    BY <2>1 DEF Inv, TypeOK, StartupTypeOK, RunsHydrated, StoppedMeansClosed, IsValid
  <2>4. Delivered' /\ BothAreTried'
    BY <2>1 DEF Delivered, BothAreTried, reportVars
  <2> QED BY <1>0, <2>1, <2>2, <2>3, <2>4 DEF Inv, TypeOK, ReportInv, Deliveries
<1>8. CASE SendMail
  <2>1. /\ phase = "mailing" /\ phase' = "ended"
        /\ mail' \in IF site.mail THEN {"sent", "failed"} ELSE {"skipped"}
        /\ UNCHANGED <<site, kind, cfg, key, password, audit, sessions, graph, exo, starts>>
        /\ UNCHANGED <<reportVars, teams>>
    BY <1>8 DEF SendMail, Go
  <2>2. ReportInv' BY <2>1, ReportUnchanged DEF Inv
  <2>3. StartupTypeOK' /\ RunsHydrated' /\ StoppedMeansClosed'
    BY <2>1 DEF Inv, TypeOK, StartupTypeOK, RunsHydrated, StoppedMeansClosed, IsValid
  <2>4. Delivered' /\ BothAreTried'
    BY <2>1 DEF Inv, Delivered, BothAreTried, reportVars
  <2> QED BY <1>0, <2>1, <2>2, <2>3, <2>4 DEF Inv, TypeOK, ReportInv, Deliveries
<1>9. CASE UNCHANGED vars
  <2>1. UNCHANGED <<startupVars, reportVars, teams, mail>> BY <1>9 DEF vars
  <2>2. ReportInv' BY <2>1, ReportUnchanged DEF Inv
  <2>3. StartupTypeOK' /\ RunsHydrated' /\ StoppedMeansClosed'
    BY <2>1, StartupUnchanged DEF Inv, TypeOK
  <2> QED BY <1>0, <2>1, <2>2, <2>3 DEF Inv, TypeOK, ReportInv, Delivered, BothAreTried, startupVars,
                                  reportVars
<1> QED BY <1>1, <1>2, <1>3, <1>4, <1>5, <1>6, <1>7, <1>8, <1>9 DEF Next

\* The inductive invariant holds throughout, whatever fails: the theorems below are its parts.
THEOREM Invariant == Spec => []Inv
BY InitInv, NextInv, PTL DEF Spec

\* The configuration, the services, the report and the deliveries keep their types, and no
\* report counts more amber and red sections than it has.
THEOREM Typing == Spec => []TypeOK
<1>1. Inv => TypeOK BY DEF Inv
<1> QED BY <1>1, Invariant, PTL

\* Whatever the vault gives or withholds, in whatever deployment, a process that serves or
\* reports has a complete configuration, and its cookie key and its bot credentials are
\* those of the configuration.
THEOREM Hydration == Spec => []RunsHydrated
<1>1. Inv => RunsHydrated BY DEF Inv
<1> QED BY <1>1, Invariant, PTL

\* on_cleanup leaves neither client open, also when closing the first one raises.
THEOREM Closing == Spec => []StoppedMeansClosed
<1>1. Inv => StoppedMeansClosed BY DEF Inv
<1> QED BY <1>1, Invariant, PTL

\* For any numbers of findings, of entries listed besides and of entries missed, a section
\* departs from README.md's table only for those two reasons: no page size hides a limit,
\* no failed request makes a section more severe.
THEOREM ExplainedSeverities == Spec => []SeveritiesExplained
<1>1. Inv => SeveritiesExplained BY DEF Inv, ReportInv
<1> QED BY <1>1, Invariant, PTL

\* For any list of checks, the overall severity is the worst of the sections that ran.
THEOREM WorstWins == Spec => []OverallIsWorst
<1>1. Inv => OverallIsWorst BY DEF Inv, ReportInv
<1> QED BY <1>1, Invariant, PTL

\* A trigger that ended has tried every configured delivery.
THEOREM BothTried == Spec => []BothAreTried
<1>1. Inv => BothAreTried BY DEF Inv
<1> QED BY <1>1, Invariant, PTL

\* In any deployment and whatever the vault withholds, a trigger that follows a good one
\* works.
THEOREM OutagesSurvived == Spec => OutageRefusesNone
<1> DEFINE Kept == kind = "timer" /\ phase = "ended" => phase' # "refused"
<1>1. ASSUME Inv, [Next]_vars PROVE [Kept]_startupVars
  <2> SUFFICES ASSUME kind = "timer", phase = "ended", phase' = "refused" PROVE FALSE
    BY DEF startupVars
  <2>1. PICK given \in SUBSET Secrets : Trigger(given)
    BY <1>1 DEF Next, vars, startupVars, Boot, CreateApp, OnStartup, Restart, Request, Stop,
                Shutdown, Cleanup, CloseGraph, CloseExo, Fire, Generate, PostToTeams, SendMail
  <2>2. IsValid(cfg) BY <1>1 DEF Inv, EndedValid
  <2>3. cfg' = Hydrated(given) /\ site' = site /\ ~IsValid(cfg') BY <2>1 DEF Trigger
  <2> QED BY <2>2, <2>3, HydratedValid
<1>2. Inv /\ [Next]_vars => [Kept]_startupVars BY <1>1
<1> QED BY <1>2, Invariant, PTL DEF Spec, OutageRefusesNone
==============================================================================
