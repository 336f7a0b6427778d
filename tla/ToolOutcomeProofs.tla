-------------------------- MODULE ToolOutcomeProofs --------------------------
(* Theorems about ToolOutcome: every write tool, bulk operations over any set   *)
(* of users and of any length, and the contract that Approvals relies on.       *)
EXTENDS ToolOutcome, TLAPS

\* What kind of job it is decides how much it promises.
LEMMA JobShapes ==
  ASSUME NEW j \in Jobs
  PROVE  \/ j.tool \in OneCall \cup Sidecar \cup Reports /\ j.how = "plain"
         \/ j.tool = "create_user" /\ j.how \in {"plain", "licensed"}
         \/ j.tool = "enforce_mfa" /\ j.how \in Methods
         \/ j.tool = "bulk_operation" /\ j.how = "plain" /\ j.users \in Seq(Users)
<1>1. CASE j \in [tool : {"bulk_operation"}, how : {"plain"},
                  users : UNION {[1 .. n -> Users] : n \in 0 .. MaxBulk}]
  <2>1. PICK n \in 0 .. MaxBulk : j.users \in [1 .. n -> Users] BY <1>1
  <2>2. n \in Nat BY BulkAssumption
  <2>3. j.users \in Seq(Users) /\ Len(j.users) = n BY <2>1, <2>2
  <2> QED BY <1>1, <2>2, <2>3
<1>2. CASE j \in [tool : OneCall \cup Sidecar \cup Reports, how : {"plain"}] BY <1>2
<1>3. CASE j \in [tool : {"create_user"}, how : {"plain", "licensed"}] BY <1>3
<1>4. CASE j \in [tool : {"enforce_mfa"}, how : Methods] BY <1>4
<1> QED BY <1>1, <1>2, <1>3, <1>4 DEF Jobs

\* Two promised steps are a user and a licence; more are a bulk operation.
LEMMA PromisedShapes ==
  ASSUME NEW j \in Jobs
  PROVE  /\ Len(Promised(j)) \in Nat
         /\ j.tool = "bulk_operation" => Promised(j) = j.users
         /\ j.tool # "bulk_operation" /\ j.how = "licensed" => Len(Promised(j)) = 2
         /\ j.tool # "bulk_operation" /\ j.how # "licensed" => Len(Promised(j)) = 1
<1>1. CASE j.tool = "bulk_operation"
  <2>1. Promised(j) = j.users BY <1>1 DEF Promised
  <2>2. j.users \in Seq(Users)
    BY <1>1, JobShapes DEF OneCall, Sidecar, Reports
  <2> QED BY <1>1, <2>1, <2>2
<1>2. CASE j.tool # "bulk_operation" /\ j.how = "licensed"
  <2>1. Promised(j) = <<"user", "license">> BY <1>2 DEF Promised
  <2> QED BY <1>2, <2>1
<1>3. CASE j.tool # "bulk_operation" /\ j.how # "licensed"
  <2>1. Promised(j) = <<"change">> BY <1>3 DEF Promised
  <2> QED BY <1>3, <2>1
<1> QED BY <1>1, <1>2, <1>3

\* A call whose failure is not caught is the first.
LEMMA UncaughtIsFirst ==
  ASSUME NEW j \in Jobs, NEW i \in Nat, i > 0, i <= Len(Calls(j)), ~Catches(j, i)
  PROVE  i = 1
<1> DEFINE n == Len(Promised(j))
<1>1. i <= n /\ n \in Nat
  <2>1. Len(<<>>) = 0 OBVIOUS
  <2> QED BY <2>1, PromisedShapes DEF Calls
<1>2. j.tool # "bulk_operation" /\ ~(j.how = "licensed" /\ i = 2)
  BY DEF Catches
<1>3. CASE j.how = "licensed"
  <2>1. n = 2 BY <1>2, <1>3, PromisedShapes
  <2> HIDE DEF n
  <2> QED BY <1>1, <1>2, <1>3, <2>1
<1>4. CASE j.how # "licensed"
  <2>1. n = 1 BY <1>2, <1>4, PromisedShapes
  <2> HIDE DEF n
  <2> QED BY <1>1, <2>1
<1> QED BY <1>3, <1>4

\* Where the run stands: nothing is called before the job, or without a call to make; an
\* error on the way is one that was caught; and an ending is what its handler makes of it.
Progress ==
  /\ run = "idle" => job = NoJob /\ effect = <<>> /\ notes = <<>> /\ row = "none"
  /\ run # "idle" => job \in Jobs /\ Len(effect) = Len(Promised(job))
  /\ run # "idle" /\ CallsNothing(job) => \A i \in 1 .. Len(effect) : effect[i] = "unsent"
  /\ run = "executing" => row = "none"
  /\ run \in {"executing", "done", "could_not"} => \A i \in 1 .. Len(notes) : notes[i] = "error" => Catches(job, i)
  /\ run \in {"done", "could_not"} => Len(notes) >= Len(Calls(job))
  /\ run = "could_not" => ReportsFailure
  /\ run = "done" => ~ReportsFailure
  /\ run = "failed" \/ row = "error" => notes = <<"error">> /\ ~Catches(job, 1)

Applications == \A i \in 1 .. Len(notes) : notes[i] = "success" => effect[i] = "applied"

Inv == TypeOK /\ Progress /\ Applications /\ NobodyBeyond

LEMMA InitInv == Init => Inv
<1> SUFFICES ASSUME Init PROVE Inv OBVIOUS
<1>1. <<>> \in Seq(Effects) /\ <<>> \in Seq({"success", "error"}) /\ Len(<<>>) = 0 OBVIOUS
<1> QED BY <1>1 DEF Init, Inv, TypeOK, Progress, Applications, NobodyBeyond

LEMMA CallsShort == ASSUME NEW j \in Jobs PROVE Len(Calls(j)) <= Len(Promised(j)) /\ Len(Calls(j)) \in Nat
BY PromisedShapes DEF Calls

LEMMA NextInv == Inv /\ [Next]_vars => Inv'
<1> SUFFICES ASSUME Inv, [Next]_vars PROVE Inv' OBVIOUS
<1> USE DEF Inv
<1>1. ASSUME NEW j \in Jobs, Begin(j) PROVE Inv'
  <2> DEFINE e == [i \in 1 .. Len(Promised(j)) |-> "unsent"]
  <2>1. Len(Promised(j)) \in Nat BY PromisedShapes
  <2>2. e \in Seq(Effects) /\ Len(e) = Len(Promised(j))
    BY <2>1 DEF Effects
  <2>3. run = "idle" /\ notes = <<>> /\ job' = j /\ effect' = e /\ notes' = <<>> /\ run' = "executing"
        /\ row' = "none" /\ config' = config
    BY <1>1 DEF Begin, Progress
  <2>4. Len(notes') = 0 BY <2>3
  <2>5. \A i \in 1 .. Len(e) : e[i] = "unsent" BY <2>1
  <2> HIDE DEF e
  <2>6. TypeOK' BY <2>1, <2>2, <2>3, <2>4 DEF TypeOK
  <2> QED BY <2>2, <2>3, <2>4, <2>5, <2>6 DEF Progress, Applications, NobodyBeyond
<1>2. ASSUME Due PROVE /\ run = "executing" /\ job \in Jobs /\ ~CallsNothing(job)
                       /\ Current \in 1 .. Len(effect)
                       /\ Current = Len(notes) + 1 /\ Len(notes) \in Nat
  <2>1. job \in Jobs /\ Len(effect) = Len(Promised(job)) /\ Len(notes) \in Nat
    BY <1>2 DEF Due, Progress, TypeOK
  <2>2. Len(Calls(job)) <= Len(Promised(job)) /\ Len(Calls(job)) \in Nat BY <2>1, CallsShort
  <2>3. Len(<<>>) = 0 OBVIOUS
  <2> QED BY <1>2, <2>1, <2>2, <2>3 DEF Due, Current, Calls
<1>3. CASE Send
  <2>1. Due /\ effect' = [effect EXCEPT ![Current] = "sent"] /\ effect[Current] = "unsent"
        /\ UNCHANGED <<config, job, run, notes, row>>
    BY <1>3 DEF Send
  <2>2. effect' \in Seq(Effects) /\ Len(effect') = Len(effect)
    BY <1>2, <2>1 DEF TypeOK, Effects
  <2>3. TypeOK' BY <2>1, <2>2 DEF TypeOK
  <2>4. Progress' BY <1>2, <2>1, <2>2 DEF Progress, CallsNothing, ReportsFailure, SaysNo, AnyError, Calls
  <2>5. Applications' BY <1>2, <2>1, <2>2 DEF Applications, TypeOK
  <2>6. NobodyBeyond' BY <1>2, <2>1, <2>2 DEF NobodyBeyond, Current, TypeOK
  <2> QED BY <2>3, <2>4, <2>5, <2>6
<1>4. ASSUME NEW i \in 1 .. Len(effect), Settle(i) PROVE Inv'
  <2>1. PICK e \in {"applied", "refused"} : effect' = [effect EXCEPT ![i] = e]
    BY <1>4 DEF Settle
  <2>2. effect[i] = "sent" /\ UNCHANGED <<config, job, run, notes, row>>
    BY <1>4 DEF Settle
  <2>3. effect' \in Seq(Effects) /\ Len(effect') = Len(effect)
    BY <2>1 DEF TypeOK, Effects
  <2>4. TypeOK' BY <2>2, <2>3 DEF TypeOK
  <2>5. Progress'
    <3>1. run # "idle" /\ ~CallsNothing(job) BY <1>4, <2>2 DEF Progress
    <3> QED BY <2>2, <2>3, <3>1 DEF Progress, CallsNothing, ReportsFailure, SaysNo, AnyError, Calls
  <2>6. Applications' BY <2>1, <2>2, <2>3 DEF Applications, TypeOK
  <2>7. NobodyBeyond' BY <2>1, <2>2, <2>3 DEF NobodyBeyond, Current, TypeOK
  <2> QED BY <2>4, <2>5, <2>6, <2>7
<1>5. CASE Succeed
  <2>1. Due /\ effect[Current] = "applied" /\ notes' = Append(notes, "success")
        /\ UNCHANGED <<config, job, run, effect, row>>
    BY <1>5 DEF Succeed
  <2>2. /\ notes' \in Seq({"success", "error"}) /\ Len(notes') = Len(notes) + 1
        /\ notes'[Len(notes) + 1] = "success" /\ \A i \in 1 .. Len(notes) : notes'[i] = notes[i]
    BY <2>1 DEF TypeOK
  <2>3. TypeOK' BY <1>2, <2>1, <2>2 DEF TypeOK
  <2>4. ASSUME NEW i \in 1 .. Len(notes'), notes'[i] = "error" PROVE Catches(job, i)'
    <3>1. i \in 1 .. Len(notes) /\ notes[i] = "error" BY <1>2, <2>2, <2>4
    <3> QED BY <1>2, <2>1, <3>1 DEF Progress, Catches
  <2>5. Progress' BY <1>2, <2>1, <2>4 DEF Progress, CallsNothing
  <2>6. Applications' BY <1>2, <2>1, <2>2 DEF Applications
  <2>7. NobodyBeyond' BY <1>2, <2>1, <2>2 DEF NobodyBeyond, Current
  <2> QED BY <2>3, <2>5, <2>6, <2>7
<1>6. CASE CallFails
  <2>1. Due /\ Catches(job, Current) /\ notes' = Append(notes, "error")
        /\ UNCHANGED <<config, job, run, effect, row>>
    BY <1>6 DEF CallFails
  <2>2. /\ notes' \in Seq({"success", "error"}) /\ Len(notes') = Len(notes) + 1
        /\ notes'[Len(notes) + 1] = "error" /\ \A i \in 1 .. Len(notes) : notes'[i] = notes[i]
    BY <2>1 DEF TypeOK
  <2>3. TypeOK' BY <1>2, <2>1, <2>2 DEF TypeOK
  <2>4. ASSUME NEW i \in 1 .. Len(notes'), notes'[i] = "error" PROVE Catches(job, i)'
    <3>1. i = Current \/ (i \in 1 .. Len(notes) /\ notes[i] = "error") BY <1>2, <2>1, <2>2, <2>4
    <3> QED BY <1>2, <2>1, <3>1 DEF Progress, Catches
  <2>5. Progress' BY <1>2, <2>1, <2>4 DEF Progress, CallsNothing
  <2>6. Applications' BY <1>2, <2>1, <2>2 DEF Applications
  <2>7. NobodyBeyond' BY <1>2, <2>1, <2>2 DEF NobodyBeyond, Current
  <2> QED BY <2>3, <2>5, <2>6, <2>7
<1>7. CASE Raise
  <2>1. Due /\ ~Catches(job, Current) /\ run' \in {"failed", "lost"} /\ row' \in {"error", "lost"}
        /\ notes' = Append(notes, "error") /\ UNCHANGED <<config, job, effect>>
    BY <1>7 DEF Raise, Log, Answer
  <2>2. Current = 1
    BY <1>2, <2>1, UncaughtIsFirst DEF Due
  <2>3. notes = <<>>
    <3>1. Len(notes) = 0 /\ notes \in Seq({"success", "error"}) BY <1>2, <2>1, <2>2 DEF TypeOK
    <3> QED BY <3>1
  <2>4. notes' = <<"error">> /\ Len(notes') = 1 /\ notes'[1] = "error"
        /\ notes' \in Seq({"success", "error"})
    BY <2>1, <2>3
  <2>5. TypeOK' BY <1>2, <2>1, <2>2, <2>4 DEF TypeOK
  <2>6. ~Catches(job, 1)' BY <2>1, <2>2 DEF Catches
  <2>8. Progress' BY <1>2, <2>1, <2>4, <2>6 DEF Progress, CallsNothing
  <2>7. Applications' BY <2>1, <2>4 DEF Applications
  <2>9. NobodyBeyond' BY <1>2, <2>1, <2>3, <2>4 DEF NobodyBeyond, Current
  <2> QED BY <2>5, <2>7, <2>8, <2>9
<1>8. CASE Return
  <2>1. /\ run = "executing" /\ Current > Len(Calls(job))
        /\ run' \in {IF ReportsFailure THEN "could_not" ELSE "done", "lost"}
        /\ row' \in {"success", "lost"} /\ UNCHANGED <<config, job, effect, notes>>
    BY <1>8 DEF Return, Log, Answer
  <2>2. job \in Jobs /\ Len(notes) \in Nat /\ Len(Calls(job)) \in Nat
    BY <2>1, CallsShort DEF Progress, TypeOK
  <2>3. Len(notes) >= Len(Calls(job)) BY <2>1, <2>2 DEF Current
  <2>4. TypeOK' BY <2>1 DEF TypeOK
  <2>5. (ReportsFailure)' <=> ReportsFailure
    BY <2>1 DEF ReportsFailure, SaysNo, AnyError, CallsNothing
  <2>6. Progress' BY <2>1, <2>3, <2>5 DEF Progress, CallsNothing, Catches, Calls
  <2>7. Applications' /\ NobodyBeyond' BY <2>1 DEF Applications, NobodyBeyond, Current
  <2> QED BY <2>4, <2>6, <2>7
<1>10. CASE Cut
  <2>1. run = "executing" /\ run' = "lost" /\ UNCHANGED <<config, job, effect, notes, row>>
    BY <1>10 DEF Cut
  <2>2. TypeOK' BY <2>1 DEF TypeOK
  <2>3. Progress' BY <2>1 DEF Progress, CallsNothing, Catches
  <2>4. Applications' /\ NobodyBeyond' BY <2>1 DEF Applications, NobodyBeyond, Current
  <2> QED BY <2>2, <2>3, <2>4
<1>9. CASE UNCHANGED vars
  BY <1>9 DEF vars, TypeOK, Progress, Applications, CallsNothing, Catches, Calls, ReportsFailure,
              SaysNo, AnyError, NobodyBeyond, Current
<1> QED BY <1>1, <1>3, <1>4, <1>5, <1>6, <1>7, <1>8, <1>9, <1>10 DEF Next

\* The inductive invariant.
THEOREM Invariant == Spec => []Inv
BY InitInv, NextInv, PTL DEF Spec

\* The job, its effects, the handler's notes and the audit row keep their types, for any
\* users and any length of a bulk operation.
THEOREM Typing == Spec => []TypeOK
<1>1. Inv => TypeOK BY DEF Inv
<1> QED BY <1>1, Invariant, PTL

\* "Could not complete", of any tool but the sidecar's, means that nothing was sent.
THEOREM Untouched == Spec => []DeclinedMeansUntouched
<1>1. Inv => DeclinedMeansUntouched
  <2> SUFFICES ASSUME Inv, run = "could_not", job.tool \notin Sidecar
               PROVE  \A i \in 1 .. Len(effect) : effect[i] = "unsent"
    BY DEF DeclinedMeansUntouched
  <2>1. CallsNothing(job) BY DEF Inv, Progress, ReportsFailure, SaysNo
  <2> QED BY <2>1 DEF Inv, Progress
<1> QED BY <1>1, Invariant, PTL

\* However a run ends, nothing beyond its current call has been touched, for bulk operations
\* of any length.
THEOREM Beyond == Spec => []NobodyBeyond
<1>1. Inv => NobodyBeyond BY DEF Inv
<1> QED BY <1>1, Invariant, PTL

\* A run that raised, or whose row is one of an error, had confirmed no step.
THEOREM NoneConfirmed == Spec => []FailedMeansNoneConfirmed
<1>1. Inv => FailedMeansNoneConfirmed
  <2> SUFFICES ASSUME Inv, run = "failed" \/ row = "error", NEW i \in DOMAIN notes
               PROVE notes[i] # "success"
    BY DEF FailedMeansNoneConfirmed
  <2>1. notes = <<"error">> BY DEF Inv, Progress
  <2> QED BY <2>1
<1> QED BY <1>1, Invariant, PTL
------------------------------------------------------------------------------
(* The contract of Approvals.                                                   *)

\* A job that is not under suspicion and ends "done" has applied its steps.
LEMMA DoneIsApplied ==
  ASSUME Inv, run = "executing", Current > Len(Calls(job)), ~ReportsFailure,
         ~HidesFailure(job)
  PROVE  Made
<1>1. job \in Jobs /\ Len(effect) = Len(Promised(job)) /\ Len(notes) \in Nat
  BY DEF Inv, Progress, TypeOK
<1>2. ~CallsNothing(job)
  BY DEF ReportsFailure, SaysNo, HidesFailure, CallsNothing
<1>3. Len(notes) >= Len(effect)
  BY <1>1, <1>2, PromisedShapes DEF Calls, Current
<1>4. \A i \in 1 .. Len(notes) : notes[i] # "error"
  BY DEF Inv, Progress, Catches, HidesFailure, ReportsFailure, AnyError, TypeOK
<1>5. \A i \in 1 .. Len(notes) : notes[i] = "success"
  BY <1>4 DEF Inv, TypeOK
<1>6. Len(effect) \in Nat BY <1>1, PromisedShapes
<1>7. effect # <<>>
  <2>1. Len(effect) > 0 BY <1>1, PromisedShapes DEF HidesFailure
  <2>2. Len(<<>>) = 0 OBVIOUS
  <2> QED BY <2>1, <2>2
<1> QED BY <1>1, <1>3, <1>5, <1>6, <1>7 DEF Made, Inv, Applications

LEMMA InitContract == Init => Contract!Init
BY DEF Init, Contract!Init, HidesFailure, NoJob, Reports

LEMMA StepContract == Inv /\ [Next]_vars => [Contract!Next]_(Contract!vars)
<1> SUFFICES ASSUME Inv, [Next]_vars PROVE [Contract!Next]_(Contract!vars) OBVIOUS
<1>1. ASSUME NEW j \in Jobs, Begin(j) PROVE Contract!Begin
  <2>1. run = "idle" /\ run' = "executing" /\ UNCHANGED row BY <1>1 DEF Begin
  <2>2. ~Made'
    <3>1. Len(Promised(j)) \in Nat /\ effect' = [i \in 1 .. Len(Promised(j)) |-> "unsent"]
      BY <1>1, PromisedShapes DEF Begin
    <3>2. CASE Len(Promised(j)) = 0 BY <3>1, <3>2 DEF Made
    <3>3. CASE Len(Promised(j)) > 0
      <4>1. 1 \in 1 .. Len(effect') /\ effect'[1] = "unsent" BY <3>1, <3>3
      <4> QED BY <4>1 DEF Made
    <3> QED BY <3>1, <3>2, <3>3
  <2>3. HidesFailure(job)' \in BOOLEAN BY DEF HidesFailure
  <2> QED BY <2>1, <2>2, <2>3 DEF Contract!Begin
<1>2. CASE Send
  <2>1. Due /\ effect[Current] = "unsent" /\ effect' = [effect EXCEPT ![Current] = "sent"]
        /\ UNCHANGED <<config, job, run, notes, row>> BY <1>2 DEF Send
  <2>2. Current \in 1 .. Len(effect) /\ effect \in Seq(Effects)
    <3>1. Len(Calls(job)) <= Len(effect) /\ Len(effect) \in Nat /\ Len(notes) \in Nat
          /\ Len(Calls(job)) \in Nat
      BY <2>1, CallsShort DEF Due, Inv, Progress, TypeOK
    <3> QED BY <2>1, <3>1 DEF Due, Current, Inv, TypeOK
  <2>3. ~Made /\ ~Made' BY <2>1, <2>2 DEF Made
  <2> QED BY <2>1, <2>3 DEF Contract!vars, HidesFailure
<1>3. ASSUME NEW i \in 1 .. Len(effect), Settle(i) PROVE [Contract!Next]_(Contract!vars)
  <2>1. effect[i] = "sent" /\ UNCHANGED <<config, job, run, notes, row>> BY <1>3 DEF Settle
  <2>2. ~Made BY <2>1 DEF Made
  <2>3. run # "idle"
    <3>1. Len(<<>>) = 0 OBVIOUS
    <3> QED BY <1>3, <3>1 DEF Inv, Progress
  <2>4. (HidesFailure(job)') = HidesFailure(job) BY <2>1 DEF HidesFailure
  <2>5. CASE Made' BY <2>1, <2>2, <2>3, <2>4, <2>5 DEF Contract!Next, Contract!Applied
  <2>6. CASE ~Made' BY <2>1, <2>2, <2>4, <2>6 DEF Contract!vars
  <2> QED BY <2>5, <2>6
<1>4. CASE Succeed \/ CallFails
  <2>1. UNCHANGED <<config, job, run, effect, row>> BY <1>4 DEF Succeed, CallFails
  <2> QED BY <2>1 DEF Contract!vars, Made, HidesFailure
<1>5. CASE Raise
  <2>1. run = "executing" /\ run' \in {"failed", "lost"} /\ row' \in {"error", "lost"}
        /\ UNCHANGED <<config, job, effect>>
    BY <1>5 DEF Raise, Due, Log, Answer
  <2> QED BY <2>1 DEF Contract!Next, Contract!Fail, Contract!Cut, Made, HidesFailure
<1>6. CASE Return
  <2>1. /\ run = "executing" /\ Current > Len(Calls(job))
        /\ run' \in {IF ReportsFailure THEN "could_not" ELSE "done", "lost"}
        /\ row' \in {"success", "lost"} /\ UNCHANGED <<config, job, effect, notes>>
    BY <1>6 DEF Return, Log, Answer
  <2>2. run' # "lost" /\ ReportsFailure => Contract!Finish("could_not")
    BY <2>1 DEF Contract!Finish, Made, HidesFailure
  <2>3. ~ReportsFailure => Made \/ HidesFailure(job)
    BY <2>1, DoneIsApplied
  <2>4. run' # "lost" /\ ~ReportsFailure => Contract!Finish("done")
    BY <2>1, <2>3 DEF Contract!Finish, Made, HidesFailure
  <2>5. run' = "lost" => Contract!Cut
    BY <2>1 DEF Contract!Cut, Made, HidesFailure
  <2> QED BY <2>2, <2>4, <2>5 DEF Contract!Next
<1>7. CASE Cut
  <2>1. row = "none" BY <1>7 DEF Cut, Inv, Progress
  <2> QED BY <1>7, <2>1 DEF Cut, Contract!Next, Contract!Cut, Made, HidesFailure
<1>8. CASE UNCHANGED vars
  BY <1>8 DEF vars, Contract!vars, Made, HidesFailure
<1> QED BY <1>1, <1>2, <1>3, <1>4, <1>5, <1>6, <1>7, <1>8 DEF Next, Contract!Next

\* A run of any write tool, over any users or none, however its calls fail and wherever the
\* process ends, ends as Approvals assumes: once, with at most one row, of the right kind,
\* and done only if the change is applied or its tool hides failures.
THEOREM Implements == Spec => ImplementsContract
<1>1. Spec => Contract!Spec
  BY InitContract, StepContract, Invariant, PTL DEF Spec, Contract!Spec
<1> QED BY <1>1 DEF ImplementsContract
==============================================================================
