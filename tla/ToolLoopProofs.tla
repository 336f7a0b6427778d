---------------------------- MODULE ToolLoopProofs ----------------------------
(* Theorems about ToolLoop: any catalogue of tools, any argument values and     *)
(* normalization, responses, rounds and conversations of any length.            *)
EXTENDS ToolLoop, SequenceTheorems, TLAPS

------------------------------------------------------------------------------
(* Pairing of tool calls and results, in a transcript s some of whose results   *)
(* are still to come, for the calls w.                                          *)

Waiting == Seq([call : Call, id : Nat])

\* Each call of a message is answered where it should be, or still waits in order.
Answered(s, w, i) ==
  /\ i + Len(s[i].ids) <= Len(s) + Len(w)
  /\ \A j \in 1 .. Len(s[i].ids) :
       /\ i + j <= Len(s) => s[i + j].role = "tool" /\ s[i + j].ids = <<s[i].ids[j]>>
       /\ i + j > Len(s) => w[i + j - Len(s)].id = s[i].ids[j]

\* A result stands behind the message whose calls it belongs to.
Owned(s, i) == \E k \in 1 .. (i - 1) : s[k].kind = "calls" /\ i - k \in 1 .. Len(s[k].ids)

Tied(s, w) ==
  \A i \in 1 .. Len(s) : /\ s[i].kind = "calls" => Answered(s, w, i)
                         /\ s[i].role = "tool" => Owned(s, i)

\* The calls that wait are the rest of one message's.
Rest(s, w) ==
  w # <<>> => \E k \in 1 .. Len(s) : s[k].kind = "calls" /\ k + Len(s[k].ids) = Len(s) + Len(w)

\* As PairedHistory, of any transcript.
Paired(s) ==
  \A i \in 1 .. Len(s) : /\ s[i].kind = "calls" => i + Len(s[i].ids) < Len(s) /\ Answered(s, <<>>, i)
                         /\ s[i].role = "tool" => Owned(s, i)

\* A message has a role, a kind and a sequence of ids.
LEMMA MessageShape ==
  ASSUME NEW s \in Seq(Message), NEW i \in 1 .. Len(s)
  PROVE  s[i] \in Message /\ s[i].ids \in Seq(Nat) /\ Len(s[i].ids) \in Nat
<1>1. s[i] \in Message BY ElementOfSeq
<1>2. s[i].ids \in Seq(Nat) BY <1>1 DEF Message
<1> QED BY <1>1, <1>2

\* What an appended message does to a transcript.
LEMMA Longer ==
  ASSUME NEW s \in Seq(Message), NEW m \in Message
  PROVE  /\ Append(s, m) \in Seq(Message)
         /\ Len(s) \in Nat
         /\ Len(Append(s, m)) = Len(s) + 1
         /\ \A i \in 1 .. Len(s) : Append(s, m)[i] = s[i]
         /\ Append(s, m)[Len(s) + 1] = m
BY AppendProperties

\* A result keeps its owner in a longer transcript.
LEMMA StillOwned ==
  ASSUME NEW s \in Seq(Message), NEW m \in Message, NEW i \in 1 .. Len(s), Owned(s, i)
  PROVE  Owned(Append(s, m), i)
<1>1. PICK k \in 1 .. (i - 1) : s[k].kind = "calls" /\ i - k \in 1 .. Len(s[k].ids) BY DEF Owned
<1>2. k \in 1 .. Len(s) /\ Append(s, m)[k] = s[k] BY Longer
<1> QED BY <1>1, <1>2 DEF Owned

\* A text after a complete transcript leaves it complete, and makes it one to save.
LEMMA TextAppended ==
  ASSUME NEW s \in Seq(Message), Tied(s, <<>>),
         NEW m \in Message, m.kind # "calls", m.role # "tool"
  PROVE  Tied(Append(s, m), <<>>) /\ Paired(Append(s, m))
<1> DEFINE t == Append(s, m)
<1>1. t \in Seq(Message) /\ Len(s) \in Nat /\ Len(t) = Len(s) + 1 /\ t[Len(s) + 1] = m
      /\ \A i \in 1 .. Len(s) : t[i] = s[i]
  BY Longer
<1>2. Len(<<>>) = 0 OBVIOUS
<1> HIDE DEF t
<1>3. ASSUME NEW i \in 1 .. Len(t), t[i].kind = "calls"
      PROVE  i + Len(t[i].ids) < Len(t) /\ Answered(t, <<>>, i)
  <2>1. i \in 1 .. Len(s) /\ t[i] = s[i] BY <1>1, <1>3
  <2>2. Answered(s, <<>>, i) BY <2>1, <1>3 DEF Tied
  <2>3. Len(s[i].ids) \in Nat BY <2>1, MessageShape
  <2>4. i + Len(s[i].ids) <= Len(s) BY <2>2, <2>3, <1>1, <1>2 DEF Answered
  <2>5. ASSUME NEW j \in 1 .. Len(t[i].ids)
        PROVE  /\ i + j <= Len(t) => t[i + j].role = "tool" /\ t[i + j].ids = <<t[i].ids[j]>>
               /\ i + j > Len(t) => <<>>[i + j - Len(t)].id = t[i].ids[j]
    <3>1. i + j \in 1 .. Len(s) BY <2>1, <2>3, <2>4, <1>1
    <3>2. s[i + j].role = "tool" /\ s[i + j].ids = <<s[i].ids[j]>>
      BY <2>1, <2>2, <3>1, <1>1 DEF Answered
    <3> QED BY <2>1, <3>1, <3>2, <1>1
  <2> QED BY <2>1, <2>3, <2>4, <2>5, <1>1, <1>2 DEF Answered
<1>4. ASSUME NEW i \in 1 .. Len(t), t[i].role = "tool" PROVE Owned(t, i)
  <2>1. i \in 1 .. Len(s) /\ t[i] = s[i] BY <1>1, <1>4
  <2>2. Owned(s, i) BY <2>1, <1>4 DEF Tied
  <2> QED BY <2>1, <2>2, StillOwned DEF t
<1>5. Tied(t, <<>>) BY <1>3, <1>4 DEF Tied
<1>6. Paired(t) BY <1>3, <1>4 DEF Paired
<1> QED BY <1>5, <1>6 DEF t

\* The model's calls open the pairing of their results.
LEMMA CallsAppended ==
  ASSUME NEW s \in Seq(Message), Tied(s, <<>>), NEW m \in Message, m.kind = "calls",
         m.role # "tool", NEW w \in Waiting, Len(w) = Len(m.ids),
         \A j \in 1 .. Len(w) : w[j].id = m.ids[j]
  PROVE  Tied(Append(s, m), w) /\ Rest(Append(s, m), w)
<1> DEFINE t == Append(s, m)
<1>1. t \in Seq(Message) /\ Len(s) \in Nat /\ Len(t) = Len(s) + 1 /\ t[Len(s) + 1] = m
      /\ \A i \in 1 .. Len(s) : t[i] = s[i]
  BY Longer
<1>2. Len(<<>>) = 0 /\ Len(w) \in Nat /\ Len(m.ids) \in Nat BY DEF Waiting
<1> HIDE DEF t
<1>3. ASSUME NEW i \in 1 .. Len(t), t[i].kind = "calls" PROVE Answered(t, w, i)
  <2>1. CASE i = Len(s) + 1 BY <2>1, <1>1, <1>2 DEF Answered
  <2>2. CASE i # Len(s) + 1
    <3>1. i \in 1 .. Len(s) /\ t[i] = s[i] BY <2>2, <1>1
    <3>2. Answered(s, <<>>, i) BY <3>1, <1>3 DEF Tied
    <3>3. Len(s[i].ids) \in Nat BY <3>1, MessageShape
    <3>4. i + Len(s[i].ids) <= Len(s) BY <3>2, <3>3, <1>1, <1>2 DEF Answered
    <3>5. ASSUME NEW j \in 1 .. Len(t[i].ids)
          PROVE  /\ i + j <= Len(t)
                 /\ t[i + j].role = "tool" /\ t[i + j].ids = <<t[i].ids[j]>>
      <4>1. i + j \in 1 .. Len(s) BY <3>1, <3>3, <3>4, <1>1
      <4>2. s[i + j].role = "tool" /\ s[i + j].ids = <<s[i].ids[j]>>
        BY <3>1, <3>2, <4>1, <1>1 DEF Answered
      <4> QED BY <3>1, <4>1, <4>2, <1>1
    <3>6. i + Len(t[i].ids) <= Len(t) + Len(w)
      <4>1. Len(t[i].ids) = Len(s[i].ids) BY <3>1
      <4>2. Len(t) = Len(s) + 1 /\ Len(s) \in Nat BY <1>1
      <4>3. Len(w) \in Nat BY <1>2
      <4>4. i \in Nat /\ Len(s[i].ids) \in Nat BY <3>1, <3>3
      <4>5. \A a, b, c, d \in Nat : a + b <= c => a + b <= c + 1 + d OBVIOUS
      <4>6. i + Len(s[i].ids) <= Len(s) + 1 + Len(w) BY <3>4, <4>2, <4>3, <4>4, <4>5
      <4> QED BY <4>1, <4>2, <4>6
    <3>7. \A j \in 1 .. Len(t[i].ids) : i + j \in Nat /\ ~(i + j > Len(t))
      BY <3>5, <3>1, <3>3, <1>1
    <3> QED BY <3>5, <3>6, <3>7 DEF Answered
  <2> QED BY <2>1, <2>2
<1>4. ASSUME NEW i \in 1 .. Len(t), t[i].role = "tool" PROVE Owned(t, i)
  <2>1. i \in 1 .. Len(s) /\ t[i] = s[i] BY <1>1, <1>4
  <2>2. Owned(s, i) BY <2>1, <1>4 DEF Tied
  <2> QED BY <2>1, <2>2, StillOwned DEF t
<1>5. Tied(t, w) BY <1>3, <1>4 DEF Tied
<1>6. Rest(t, w)
  <2>1. t[Len(t)] = m /\ Len(t) \in 1 .. Len(t) BY <1>1
  <2>2. t[Len(t)].kind = "calls" /\ Len(t[Len(t)].ids) = Len(w) BY <2>1
  <2>3. Len(t) + Len(t[Len(t)].ids) = Len(t) + Len(w) BY <2>2
  <2> QED BY <2>1, <2>2, <2>3 DEF Rest
<1> QED BY <1>5, <1>6 DEF t

\* A result answers the first call that waits.
LEMMA ResultAppended ==
  ASSUME NEW s \in Seq(Message), NEW w \in Waiting, Tied(s, w), Rest(s, w), w # <<>>,
         NEW m \in Message, m.kind # "calls", m.role = "tool", m.ids = <<w[1].id>>
  PROVE  Tied(Append(s, m), Tail(w)) /\ Rest(Append(s, m), Tail(w))
<1> DEFINE t == Append(s, m)
           v == Tail(w)
<1>1. t \in Seq(Message) /\ Len(s) \in Nat /\ Len(t) = Len(s) + 1 /\ t[Len(s) + 1] = m
      /\ \A i \in 1 .. Len(s) : t[i] = s[i]
  BY Longer
<1>2. Len(w) \in Nat /\ Len(w) > 0 /\ Len(v) = Len(w) - 1
      /\ \A i \in 1 .. Len(v) : v[i] = w[i + 1]
  BY HeadTailProperties DEF Waiting
<1>3. PICK k \in 1 .. Len(s) : s[k].kind = "calls" /\ k + Len(s[k].ids) = Len(s) + Len(w)
  BY DEF Rest
<1>4. Len(s[k].ids) \in Nat BY MessageShape
<1> HIDE DEF t, v
<1>5. ASSUME NEW i \in 1 .. Len(t), t[i].kind = "calls" PROVE Answered(t, v, i)
  <2>1. i \in 1 .. Len(s) /\ t[i] = s[i] BY <1>1, <1>5
  <2>2. Answered(s, w, i) BY <2>1, <1>5 DEF Tied
  <2>3. Len(s[i].ids) \in Nat BY <2>1, MessageShape
  <2>4. i + Len(t[i].ids) <= Len(t) + Len(v) BY <2>1, <2>2, <2>3, <1>1, <1>2 DEF Answered
  <2>5. ASSUME NEW j \in 1 .. Len(t[i].ids)
        PROVE  /\ i + j <= Len(t) => t[i + j].role = "tool" /\ t[i + j].ids = <<t[i].ids[j]>>
               /\ i + j > Len(t) => v[i + j - Len(t)].id = t[i].ids[j]
    <3>1. CASE i + j <= Len(s)
      <4>1. s[i + j].role = "tool" /\ s[i + j].ids = <<s[i].ids[j]>> /\ i + j \in 1 .. Len(s)
        BY <2>1, <2>2, <2>3, <3>1, <1>1 DEF Answered
      <4> QED BY <2>1, <3>1, <4>1, <1>1
    <3>2. CASE i + j = Len(s) + 1
      <4>1. w[i + j - Len(s)].id = s[i].ids[j] BY <2>1, <2>2, <2>3, <3>2, <1>1 DEF Answered
      <4>2. i + j - Len(s) = 1 /\ i + j = Len(t) BY <3>2, <1>1
      <4>3. t[i + j] = m BY <3>2, <1>1
      <4>4. t[i].ids[j] = w[1].id BY <2>1, <4>1, <4>2
      <4>5. t[i + j].role = "tool" /\ t[i + j].ids = <<t[i].ids[j]>> BY <4>3, <4>4
      <4> QED BY <4>2, <4>5, <1>1
    <3>3. CASE i + j > Len(s) + 1
      <4>1. w[i + j - Len(s)].id = s[i].ids[j]
        <5>1. i + j > Len(s) /\ Len(s[i].ids) = Len(t[i].ids) BY <2>1, <2>3, <3>3, <1>1
        <5> QED BY <2>1, <2>2, <5>1 DEF Answered
      <4>2. i + j - Len(t) \in 1 .. Len(v) /\ i + j - Len(t) + 1 = i + j - Len(s)
        BY <2>1, <2>3, <2>4, <3>3, <1>1, <1>2
      <4>3. v[i + j - Len(t)] = w[i + j - Len(s)] BY <4>2, <1>2
      <4> QED BY <2>1, <3>3, <4>1, <4>3, <1>1
    <3>4. i + j <= Len(s) \/ i + j = Len(s) + 1 \/ i + j > Len(s) + 1
      <4>1. i \in Int /\ j \in Int /\ Len(s) \in Int BY <2>1, <1>1
      <4> QED BY <4>1
    <3> QED BY <3>1, <3>2, <3>3, <3>4
  <2> QED BY <2>4, <2>5 DEF Answered
<1>6. ASSUME NEW i \in 1 .. Len(t), t[i].role = "tool" PROVE Owned(t, i)
  <2>1. CASE i \in 1 .. Len(s)
    <3>1. t[i] = s[i] /\ Owned(s, i) BY <2>1, <1>1, <1>6 DEF Tied
    <3> QED BY <2>1, <3>1, StillOwned DEF t
  <2>2. CASE i \notin 1 .. Len(s)
    <3>1. i = Len(s) + 1 BY <2>2, <1>1
    <3>2. t[k].kind = "calls" /\ Len(t[k].ids) = Len(s[k].ids) BY <1>1, <1>3
    <3>3. k \in 1 .. (i - 1) /\ i - k \in 1 .. Len(t[k].ids)
      BY <3>1, <3>2, <1>1, <1>2, <1>3, <1>4
    <3> QED BY <3>2, <3>3 DEF Owned
  <2> QED BY <2>1, <2>2
<1>7. Tied(t, v) BY <1>5, <1>6 DEF Tied
<1>8. Rest(t, v)
  <2>1. t[k] = s[k] /\ k \in 1 .. Len(t) BY <1>1
  <2>2. k + Len(t[k].ids) = Len(t) + Len(v)
    <3>1. Len(t[k].ids) = Len(s[k].ids) BY <2>1
    <3>2. Len(t) = Len(s) + 1 /\ Len(s) \in Nat BY <1>1
    <3>3. Len(w) \in Nat /\ Len(v) = Len(w) - 1 BY <1>2
    <3> QED BY <3>1, <3>2, <3>3, <1>3, <1>4
  <2> QED BY <2>1, <2>2, <1>3 DEF Rest
<1> QED BY <1>7, <1>8 DEF t, v
------------------------------------------------------------------------------
(* The inductive invariant.                                                     *)

\* A turn waits for the model only while a round is left, and runs tools exactly while
\* calls wait.
Rounds == /\ phase = "chat" => round < MaxIterations
          /\ phase = "tools" <=> todo # <<>>

\* A record carries the fingerprint of its own tool and arguments.
Minted(r) == r.fingerprint = <<r.tool, r.args>>

Records == /\ proposal # None => Minted(proposal)
           /\ stored # None => Minted(stored)
           /\ \A i \in 1 .. Len(gated) : Minted(gated[i])

\* The executor holds the last proposal of its turn.
Latest == proposal = IF gated = <<>> THEN None ELSE gated[Len(gated)]

Pairs == Tied(messages, todo) /\ Rest(messages, todo) /\ Paired(history)

Inv == TypeOK /\ Rounds /\ Records /\ Latest /\ Pairs

\* What execute does to the variables it may change.
LEMMA ExecuteTypes ==
  ASSUME TypeOK, Records, Latest,
         NEW c \in Call, NEW kind \in Kinds, NEW by \in {"model", "human"},
         NEW grant, Execute(c, grant, by, kind)
  PROVE  /\ proposal' \in Record \cup {None}
         /\ audit' \in Seq(Row)
         /\ ran' \in Seq([tool : Tools, args : Args, by : {"model", "human"}])
         /\ gated' \in Seq(Record)
         /\ proposal' # None => Minted(proposal')
         /\ \A i \in 1 .. Len(gated') : Minted(gated'[i])
         /\ Latest'
         /\ kind \in {"ok", "raised", "invalid", "unknown", "confirm"}
<1> DEFINE args == Normalize[c.args]
<1>1. args \in Args \cup {Invalid} BY NormalizeAssumption DEF Call
<1> HIDE DEF args
<1>2. CASE Refused(c, kind)
  <2>1. UNCHANGED <<proposal, audit, ran, gated>> BY <1>2 DEF Refused
  <2>2. kind \in {"unknown", "invalid"} BY <1>2 DEF Refused
  <2> QED BY <2>1, <2>2 DEF TypeOK, Records, Latest
<1>3. CASE Gated(c, grant, kind)
  <2> DEFINE rec == [tool |-> c.tool, args |-> args, fingerprint |-> <<c.tool, args>>]
  <2>1. /\ kind = "confirm" /\ c.tool \in Writes /\ args # Invalid
        /\ proposal' = rec /\ gated' = Append(gated, rec)
        /\ Log(c.tool, "pending_confirmation") /\ ran' = ran
    BY <1>3 DEF Gated, Fingerprint, args
  <2>2. args \in Args BY <1>1, <2>1
  <2>3. rec \in Record BY <2>1, <2>2 DEF Record
  <2>4. Minted(rec) BY DEF Minted
  <2>5. audit' \in Seq(Row)
    <3>1. [tool |-> c.tool, status |-> "pending_confirmation"] \in Row BY <2>1 DEF Row, Tools
    <3> QED BY <2>1, <3>1, AppendProperties DEF Log, TypeOK
  <2> HIDE DEF rec
  <2>6. gated \in Seq(Record) BY DEF TypeOK
  <2>7. /\ gated' \in Seq(Record) /\ gated' # <<>> /\ Len(gated) \in Nat
        /\ Len(gated') = Len(gated) + 1
        /\ \A i \in 1 .. Len(gated) : gated'[i] = gated[i]
        /\ gated'[Len(gated) + 1] = rec
    BY <2>1, <2>3, <2>6, AppendProperties, LenProperties
  <2>8. \A i \in 1 .. Len(gated') : Minted(gated'[i])
    <3>1. ASSUME NEW i \in 1 .. Len(gated') PROVE Minted(gated'[i])
      <4>1. CASE i \in 1 .. Len(gated)
        <5>1. Minted(gated[i]) BY <4>1 DEF Records
        <5> QED BY <4>1, <5>1, <2>7
      <4>2. CASE i = Len(gated) + 1 BY <4>2, <2>4, <2>7
      <4> QED BY <4>1, <4>2, <2>7
    <3> QED BY <3>1
  <2>9. Latest' BY <2>1, <2>7 DEF Latest
  <2> QED BY <2>1, <2>3, <2>4, <2>5, <2>7, <2>8, <2>9 DEF TypeOK
<1>4. CASE Handled(c, grant, by, kind)
  <2>1. /\ kind \in {"ok", "raised"} /\ c.tool \in Tools /\ args # Invalid
        /\ ran' = Append(ran, [tool |-> c.tool, args |-> args, by |-> by])
        /\ Log(c.tool, IF kind = "ok" THEN "success" ELSE "error")
        /\ UNCHANGED <<proposal, gated>>
    BY <1>4 DEF Handled, args
  <2>2. args \in Args BY <1>1, <2>1
  <2>3. [tool |-> c.tool, args |-> args, by |-> by]
          \in [tool : Tools, args : Args, by : {"model", "human"}]
    BY <2>1, <2>2
  <2>4. ran' \in Seq([tool : Tools, args : Args, by : {"model", "human"}])
    BY <2>1, <2>3, AppendProperties DEF TypeOK
  <2>5. audit' \in Seq(Row)
    <3>1. [tool |-> c.tool, status |-> IF kind = "ok" THEN "success" ELSE "error"] \in Row
      BY <2>1 DEF Row
    <3> QED BY <2>1, <3>1, AppendProperties DEF Log, TypeOK
  <2>6. Latest' BY <2>1 DEF Latest
  <2>7. proposal' # None => Minted(proposal') BY <2>1 DEF Records
  <2>8. \A i \in 1 .. Len(gated') : Minted(gated'[i])
    <3>1. gated' = gated BY <2>1
    <3> QED BY <3>1 DEF Records
  <2> QED BY <2>1, <2>4, <2>5, <2>6, <2>7, <2>8 DEF TypeOK
<1> QED BY <1>2, <1>3, <1>4 DEF Execute

\* An approval is validated, passes the gate, and runs the tool and arguments on offer:
\* neither refused nor stopped a second time.
LEMMA ApprovedIsHandled ==
  ASSUME Inv, NEW kind \in Kinds, Approve(kind)
  PROVE  /\ stored \in Record
         /\ UNCHANGED <<proposal, gated>>
         /\ ran' = Append(ran, [tool |-> stored.tool, args |-> stored.args, by |-> "human"])
         /\ \E status \in {"success", "error"} :
              audit' = Append(audit, [tool |-> stored.tool, status |-> status])
<1> DEFINE c == [tool |-> stored.tool, args |-> Reread[stored.args], confirm |-> FALSE]
<1>1. stored \in Record /\ Minted(stored) BY DEF Approve, Inv, TypeOK, Records
<1>2. stored.tool \in Writes /\ stored.args \in Args BY <1>1 DEF Record
<1>3. Normalize[Reread[stored.args]] = stored.args /\ stored.args # Invalid
  BY <1>2, NormalizeAssumption, RoundTripAssumption
<1>4. stored.tool # Unknown BY <1>2, ToolsAssumption DEF Tools
<1>5. Execute(c, stored.fingerprint, "human", kind) BY DEF Approve
<1>6. c.tool = stored.tool /\ c.args = Reread[stored.args] OBVIOUS
<1> HIDE DEF c
<1>7. ~Refused(c, kind) BY <1>3, <1>4, <1>6 DEF Refused
<1>8. Fingerprint(c) = stored.fingerprint BY <1>1, <1>3, <1>6 DEF Fingerprint, Minted
<1>9. stored.fingerprint # None
  <2>1. stored.fingerprint \in Writes \X Args BY <1>1, <1>2 DEF Minted
  <2> QED BY <2>1, NoneAssumption
<1>10. ~Gated(c, stored.fingerprint, kind) BY <1>8, <1>9 DEF Gated, Granted
<1>11. Handled(c, stored.fingerprint, "human", kind) BY <1>5, <1>7, <1>10 DEF Execute
<1>12. \E status \in {"success", "error"} : Log(stored.tool, status)
  BY <1>6, <1>11 DEF Handled
<1> QED BY <1>1, <1>3, <1>6, <1>11, <1>12 DEF Handled, Log

\* No conversation: nothing said, nothing proposed.
LEMMA InitInv == Init => Inv
<1> SUFFICES ASSUME Init PROVE Inv OBVIOUS
<1>1. \A S : <<>> \in Seq(S) OBVIOUS
<1>2. Len(<<>>) = 0 OBVIOUS
<1>3. TypeOK BY <1>1, BoundsAssumption DEF Init, TypeOK
<1>4. Rounds BY DEF Init, Rounds
<1>5. Records BY <1>2 DEF Init, Records
<1>6. Latest BY DEF Init, Latest
<1>7. Pairs BY <1>2 DEF Init, Pairs, Tied, Rest, Paired
<1> QED BY <1>3, <1>4, <1>5, <1>6, <1>7 DEF Inv

\* What the loop says itself: a text, with no calls to answer.
LEMMA TextIsMessage ==
  ASSUME NEW role \in {"user", "assistant"}
  PROVE  /\ Said(role, "text", <<>>) \in Message
         /\ Said(role, "text", <<>>).kind # "calls"
         /\ Said(role, "text", <<>>).role # "tool"
<1>1. <<>> \in Seq(Nat) OBVIOUS
<1> QED BY <1>1 DEF Said, Message, Kinds

\* A complete transcript has nothing open.
LEMMA PairedIsTied == ASSUME NEW s \in Seq(Message), Paired(s) PROVE Tied(s, <<>>)
BY DEF Paired, Tied

LEMMA StartTurnInv == Inv /\ StartTurn => Inv'
<1> SUFFICES ASSUME Inv, StartTurn PROVE Inv' OBVIOUS
<1> DEFINE m == Said("user", "text", <<>>)
<1>1. history \in Seq(Message) /\ m \in Message /\ m.kind # "calls" /\ m.role # "tool"
  BY TextIsMessage DEF Inv, TypeOK
<1>2. /\ phase = "idle" /\ phase' = "chat" /\ turns' = turns + 1 /\ round' = 0 /\ turns < MaxTurns
      /\ messages' = Append(history, m) /\ proposal' = None /\ gated' = <<>>
      /\ UNCHANGED <<history, todo, issued, stored, audit, ran>>
  BY DEF StartTurn
<1>3. todo = <<>> BY <1>2 DEF Inv, Rounds
<1> HIDE DEF m
<1>4. TypeOK'
  <2>1. messages' \in Seq(Message) BY <1>1, <1>2
  <2>2. <<>> \in Seq(Record) OBVIOUS
  <2>3. turns' \in 0 .. MaxTurns /\ round' \in 0 .. MaxIterations
    BY <1>2, BoundsAssumption DEF Inv, TypeOK
  <2> QED BY <1>2, <2>1, <2>2, <2>3 DEF Inv, TypeOK
<1>5. Rounds' BY <1>2, <1>3, BoundsAssumption DEF Rounds
<1>6. Records'
  <2>1. Len(<<>>) = 0 OBVIOUS
  <2> QED BY <1>2, <2>1 DEF Inv, Records
<1>7. Latest' BY <1>2 DEF Latest
<1>8. Pairs'
  <2>1. Tied(history, <<>>) BY <1>1, PairedIsTied DEF Inv, Pairs
  <2>2. Tied(messages', <<>>) BY <1>1, <1>2, <2>1, TextAppended
  <2> QED BY <1>2, <1>3, <2>2 DEF Inv, Pairs, Rest
<1> QED BY <1>4, <1>5, <1>6, <1>7, <1>8 DEF Inv

LEMMA CallToolsInv ==
  ASSUME Inv, NEW n \in 1 .. MaxCalls, NEW cs \in [1 .. n -> Call], CallTools(cs)
  PROVE  Inv'
<1> DEFINE ids == [i \in 1 .. Len(cs) |-> issued + i]
           w   == [i \in 1 .. Len(cs) |-> [call |-> cs[i], id |-> ids[i]]]
           m   == Said("assistant", "calls", ids)
<1>1. n \in Nat /\ n > 0 /\ issued \in Nat BY BoundsAssumption DEF Inv, TypeOK
<1>2. cs \in Seq(Call) /\ Len(cs) = n BY <1>1
<1>3. /\ phase = "chat" /\ phase' = "tools" /\ issued + Len(cs) <= MaxTotal
      /\ messages' = Append(messages, m) /\ todo' = w
      /\ issued' = issued + Len(cs) /\ round' = round + 1
      /\ UNCHANGED <<turns, history, proposal, stored, audit, ran, gated>>
  BY DEF CallTools
<1>4. ids \in Seq(Nat) /\ Len(ids) = n
  <2>1. ids \in [1 .. n -> Nat] BY <1>1, <1>2
  <2> QED BY <1>1, <2>1
<1>5. w \in Waiting /\ Len(w) = n /\ w # <<>> /\ \A j \in 1 .. n : w[j].id = ids[j]
  <2>1. w \in [1 .. n -> [call : Call, id : Nat]]
    <3>1. \A i \in 1 .. n : cs[i] \in Call /\ ids[i] \in Nat BY <1>1, <1>2
    <3> HIDE DEF ids
    <3> QED BY <1>2, <3>1
  <2>2. w \in Seq([call : Call, id : Nat]) /\ Len(w) = n BY <1>1, <2>1
  <2>3. \A j \in 1 .. n : w[j].id = ids[j] BY <1>2
  <2> HIDE DEF w
  <2>4. w # <<>> BY <1>1, <2>2
  <2> QED BY <2>2, <2>3, <2>4 DEF Waiting
<1> HIDE DEF w, ids
<1>6. m \in Message /\ m.kind = "calls" /\ m.role # "tool" /\ m.ids = ids
  BY <1>4 DEF Said, Message, Kinds
<1> HIDE DEF m
<1>7. todo = <<>> BY <1>3 DEF Inv, Rounds
<1>8. messages \in Seq(Message) /\ Tied(messages, <<>>) BY <1>7 DEF Inv, TypeOK, Pairs
<1>9. TypeOK'
  <2>1. messages' \in Seq(Message) BY <1>3, <1>6, <1>8
  <2>2. issued' \in 0 .. MaxTotal BY <1>1, <1>2, <1>3, BoundsAssumption
  <2>3. round' \in 0 .. MaxIterations
    BY <1>3, BoundsAssumption DEF Inv, TypeOK, Rounds
  <2>4. todo' \in Seq([call : Call, id : Nat]) BY <1>3, <1>5 DEF Waiting
  <2> QED BY <1>3, <2>1, <2>2, <2>3, <2>4 DEF Inv, TypeOK
<1>10. Rounds' BY <1>3, <1>5 DEF Rounds
<1>11. Records' BY <1>3 DEF Inv, Records
<1>12. Latest' BY <1>3 DEF Inv, Latest
<1>13. Pairs'
  <2>1. Tied(messages', todo') /\ Rest(messages', todo')
    BY <1>3, <1>4, <1>5, <1>6, <1>8, CallsAppended
  <2> QED BY <1>3, <2>1 DEF Inv, Pairs
<1> QED BY <1>9, <1>10, <1>11, <1>12, <1>13 DEF Inv

LEMMA RunToolInv == ASSUME Inv, NEW kind \in Kinds, RunTool(kind) PROVE Inv'
<1> DEFINE c == Head(todo).call
           m == Result(kind, Head(todo).id)
<1>1. /\ phase = "tools" /\ Execute(c, None, "model", kind) /\ messages' = Append(messages, m)
      /\ todo' = Tail(todo) /\ phase' = IF Len(todo) = 1 THEN AfterRound ELSE "tools"
      /\ UNCHANGED <<turns, history, round, issued, stored>>
  BY DEF RunTool, ToolMessage
<1>2. todo \in Waiting /\ todo # <<>> BY <1>1 DEF Inv, TypeOK, Rounds, Waiting
<1>3. /\ Head(todo) = todo[1] /\ Head(todo) \in [call : Call, id : Nat]
      /\ Tail(todo) \in Waiting /\ Len(todo) \in Nat /\ Len(Tail(todo)) = Len(todo) - 1
  <2>1. todo \in Seq([call : Call, id : Nat]) /\ todo # <<>> BY <1>2 DEF Waiting
  <2>2. Head(todo) = todo[1] /\ Len(todo) \in Nat BY <2>1
  <2> QED BY <2>1, <2>2, HeadTailProperties DEF Waiting
<1>4. c \in Call /\ Head(todo).id \in Nat BY <1>3
<1> HIDE DEF c
<1>5. /\ proposal' \in Record \cup {None} /\ audit' \in Seq(Row)
      /\ ran' \in Seq([tool : Tools, args : Args, by : {"model", "human"}])
      /\ gated' \in Seq(Record)
      /\ proposal' # None => Minted(proposal')
      /\ \A i \in 1 .. Len(gated') : Minted(gated'[i])
      /\ Latest'
      /\ kind \in {"ok", "raised", "invalid", "unknown", "confirm"}
  BY <1>1, <1>4, ExecuteTypes DEF Inv
<1>6. m \in Message /\ m.kind # "calls" /\ m.role = "tool" /\ m.ids = <<todo[1].id>>
  <2>1. <<Head(todo).id>> \in Seq(Nat) BY <1>4
  <2>2. m = [role |-> "tool", kind |-> kind, ids |-> <<Head(todo).id>>] BY DEF Result, Said
  <2> HIDE DEF m
  <2>3. m \in Message BY <2>1, <2>2 DEF Message
  <2> QED BY <2>2, <2>3, <1>3, <1>5
<1> HIDE DEF m
<1>7. messages \in Seq(Message) /\ Tied(messages, todo) /\ Rest(messages, todo)
  BY DEF Inv, TypeOK, Pairs
<1>8. TypeOK'
  <2>1. messages' \in Seq(Message) BY <1>1, <1>6, <1>7
  <2>2. todo' \in Seq([call : Call, id : Nat]) BY <1>1, <1>3 DEF Waiting
  <2>3. phase' \in {"idle", "chat", "tools", "giveup"} BY <1>1 DEF AfterRound
  <2> QED BY <1>1, <1>5, <2>1, <2>2, <2>3 DEF Inv, TypeOK
<1>9. Rounds'
  <2>1. Tail(todo) = <<>> <=> Len(todo) = 1
    <3>1. Tail(todo) = <<>> <=> Len(Tail(todo)) = 0 BY <1>3, EmptySeq DEF Waiting
    <3> QED BY <1>3, <3>1
  <2>2. CASE Len(todo) = 1 BY <1>1, <2>1, <2>2 DEF AfterRound, Rounds
  <2>3. CASE Len(todo) # 1 BY <1>1, <2>1, <2>3 DEF Rounds
  <2> QED BY <2>2, <2>3
<1>10. Records'
  <2>1. stored' # None => Minted(stored') BY <1>1 DEF Inv, Records
  <2> QED BY <1>5, <2>1 DEF Records
<1>11. Pairs'
  <2>1. Tied(messages', todo') /\ Rest(messages', todo')
    BY <1>1, <1>2, <1>6, <1>7, ResultAppended
  <2> QED BY <1>1, <2>1 DEF Inv, Pairs
<1> QED BY <1>5, <1>8, <1>9, <1>10, <1>11 DEF Inv

LEMMA EndTurnInv == Inv /\ EndTurn => Inv'
<1> SUFFICES ASSUME Inv, EndTurn PROVE Inv' OBVIOUS
<1> DEFINE m == Said("assistant", "text", <<>>)
<1>1. m \in Message /\ m.kind # "calls" /\ m.role # "tool" BY TextIsMessage
<1>2. /\ phase \in {"chat", "giveup"} /\ phase' = "idle" /\ history' = Append(messages, m)
      /\ stored' = IF proposal # None THEN proposal ELSE stored
      /\ UNCHANGED <<turns, messages, round, todo, issued, proposal, audit, ran, gated>>
  BY DEF EndTurn, StoreProposal
<1> HIDE DEF m
<1>3. todo = <<>> BY <1>2 DEF Inv, Rounds
<1>4. messages \in Seq(Message) /\ Tied(messages, <<>>) BY <1>3 DEF Inv, TypeOK, Pairs
<1>5. history' \in Seq(Message) BY <1>1, <1>2, <1>4
<1>6. TypeOK' BY <1>2, <1>5 DEF Inv, TypeOK
<1>7. Rounds' BY <1>2, <1>3 DEF Rounds
<1>8. Records' BY <1>2 DEF Inv, Records
<1>9. Latest' BY <1>2 DEF Inv, Latest
<1>10. Pairs'
  <2>1. Paired(history') BY <1>1, <1>2, <1>4, TextAppended
  <2> QED BY <1>2, <2>1 DEF Inv, Pairs
<1> QED BY <1>6, <1>7, <1>8, <1>9, <1>10 DEF Inv

LEMMA ChatFailsInv == Inv /\ ChatFails => Inv'
<1> SUFFICES ASSUME Inv, ChatFails PROVE Inv' OBVIOUS
<1>1. TypeOK' BY DEF ChatFails, Inv, TypeOK
<1>2. Rounds' BY DEF ChatFails, Inv, Rounds
<1>3. Records' BY DEF ChatFails, Inv, Records
<1>4. Latest' BY DEF ChatFails, Inv, Latest
<1>5. Pairs' BY DEF ChatFails, Inv, Pairs
<1> QED BY <1>1, <1>2, <1>3, <1>4, <1>5 DEF Inv

LEMMA ApproveInv == ASSUME Inv, NEW kind \in Kinds, Approve(kind) PROVE Inv'
<1> DEFINE m == Said("assistant", "text", <<>>)
           c == [tool |-> stored.tool, args |-> Reread[stored.args], confirm |-> FALSE]
<1>1. m \in Message /\ m.kind # "calls" /\ m.role # "tool" BY TextIsMessage
<1>2. /\ phase = "idle" /\ stored # None /\ stored' = None
      /\ history' = IF kind = "raised" THEN history ELSE Append(history, m)
      /\ Execute(c, stored.fingerprint, "human", kind)
      /\ UNCHANGED <<phase, turns, messages, round, todo, issued>>
  BY DEF Approve
<1> HIDE DEF m
<1>3. c \in Call
  <2>1. stored \in Record BY <1>2 DEF Inv, TypeOK
  <2>2. stored.tool \in Writes /\ stored.args \in Args BY <2>1 DEF Record
  <2>3. Reread[stored.args] \in Args \cup RawArgs BY <2>2, RoundTripAssumption
  <2> QED BY <2>2, <2>3 DEF Call, Tools
<1> HIDE DEF c
<1>4. /\ proposal' \in Record \cup {None} /\ audit' \in Seq(Row)
      /\ ran' \in Seq([tool : Tools, args : Args, by : {"model", "human"}])
      /\ gated' \in Seq(Record)
      /\ proposal' # None => Minted(proposal')
      /\ \A i \in 1 .. Len(gated') : Minted(gated'[i])
      /\ Latest'
  BY <1>2, <1>3, ExecuteTypes DEF Inv
<1>5. history \in Seq(Message) /\ Paired(history) BY DEF Inv, TypeOK, Pairs
<1>6. history' \in Seq(Message) BY <1>1, <1>2, <1>5
<1>7. TypeOK' BY <1>2, <1>4, <1>6 DEF Inv, TypeOK
<1>8. Rounds' BY <1>2 DEF Inv, Rounds
<1>9. Records' BY <1>2, <1>4 DEF Records
<1>10. Pairs'
  <2>1. Tied(history, <<>>) BY <1>5, PairedIsTied
  <2>2. Paired(Append(history, m)) BY <1>1, <1>5, <2>1, TextAppended
  <2>3. Paired(history') BY <1>2, <1>5, <2>2
  <2> QED BY <1>2, <2>3 DEF Inv, Pairs
<1> QED BY <1>4, <1>7, <1>8, <1>9, <1>10 DEF Inv

LEMMA CancelInv == Inv /\ Cancel => Inv'
<1> SUFFICES ASSUME Inv, Cancel PROVE Inv' OBVIOUS
<1>1. TypeOK' BY DEF Cancel, Inv, TypeOK
<1>2. Rounds' BY DEF Cancel, Inv, Rounds
<1>3. Records' BY DEF Cancel, Inv, Records
<1>4. Latest' BY DEF Cancel, Inv, Latest
<1>5. Pairs' BY DEF Cancel, Inv, Pairs
<1> QED BY <1>1, <1>2, <1>3, <1>4, <1>5 DEF Inv

LEMMA StutterInv == Inv /\ UNCHANGED vars => Inv'
<1> SUFFICES ASSUME Inv, UNCHANGED vars PROVE Inv' OBVIOUS
<1>1. TypeOK' BY DEF vars, Inv, TypeOK
<1>2. Rounds' BY DEF vars, Inv, Rounds
<1>3. Records' BY DEF vars, Inv, Records
<1>4. Latest' BY DEF vars, Inv, Latest
<1>5. Pairs' BY DEF vars, Inv, Pairs
<1> QED BY <1>1, <1>2, <1>3, <1>4, <1>5 DEF Inv

LEMMA NextInv == Inv /\ [Next]_vars => Inv'
BY StartTurnInv, CallToolsInv, RunToolInv, EndTurnInv, ChatFailsInv, ApproveInv, CancelInv,
   StutterInv DEF Next
------------------------------------------------------------------------------
(* The theorems.                                                                *)

\* The invariant all the others rest on.
THEOREM Invariant == Spec => []Inv
<1>1. Init => Inv BY InitInv
<1>2. Inv /\ [Next]_vars => Inv' BY NextInv
<1> QED BY <1>1, <1>2, PTL DEF Spec

\* Every variable keeps its type: no round past the last, no record without a tool.
THEOREM Typing == Spec => []TypeOK
<1>1. Inv => TypeOK BY DEF Inv
<1> QED BY <1>1, Invariant, PTL

\* The saved transcript is one a provider accepts: each tool call has its result, in
\* order, and each result its call, however many rounds, refusals and errors there were.
THEOREM AlwaysPaired == Spec => []PairedHistory
<1>1. Inv => PairedHistory
  <2> SUFFICES ASSUME Inv PROVE PairedHistory OBVIOUS
  <2>1. history \in Seq(Message) /\ Paired(history) BY DEF Inv, TypeOK, Pairs
  <2>2. ASSUME NEW i \in 1 .. Len(history), history[i].kind = "calls"
        PROVE  /\ i + Len(history[i].ids) < Len(history)
               /\ \A j \in 1 .. Len(history[i].ids) : /\ history[i + j].role = "tool"
                                                      /\ history[i + j].ids = <<history[i].ids[j]>>
    <3>1. i + Len(history[i].ids) < Len(history) /\ Answered(history, <<>>, i)
      BY <2>1, <2>2 DEF Paired
    <3>2. Len(history[i].ids) \in Nat /\ Len(history) \in Nat BY <2>1, MessageShape
    <3>3. \A j \in 1 .. Len(history[i].ids) : i + j <= Len(history) BY <3>1, <3>2
    <3> QED BY <3>1, <3>3 DEF Answered
  <2>3. ASSUME NEW i \in 1 .. Len(history), history[i].role = "tool"
        PROVE  \E k \in 1 .. (i - 1) : /\ history[k].kind = "calls"
                                       /\ i - k \in 1 .. Len(history[k].ids)
    BY <2>1, <2>3 DEF Paired, Owned
  <2> QED BY <2>2, <2>3 DEF PairedHistory
<1> QED BY <1>1, Invariant, PTL

\* Whatever the model calls, a write handler runs only in an approval, and runs the tool
\* and the arguments that were on offer.
THEOREM HumansOnly == Spec => OnlyHumansWrite
<1> DEFINE Kept == \A i \in Len(ran) + 1 .. Len(ran') :
                     ran'[i].tool \in Writes =>
                       /\ ran'[i].by = "human"
                       /\ stored # None /\ ran'[i].tool = stored.tool /\ ran'[i].args = stored.args
<1>1. ASSUME Inv, [Next]_vars PROVE Kept
  <2>1. /\ ran \in Seq([tool : Tools, args : Args, by : {"model", "human"}])
        /\ Len(ran) \in Nat
    BY <1>1 DEF Inv, TypeOK
  <2>2. ran' \in Seq([tool : Tools, args : Args, by : {"model", "human"}])
    BY <1>1, NextInv DEF Inv, TypeOK
  <2>3. CASE UNCHANGED ran
    <3>1. Len(ran) + 1 .. Len(ran') = {} BY <2>1, <2>3
    <3> QED BY <3>1
  <2>4. ASSUME NEW kind \in Kinds, RunTool(kind) PROVE Kept
    <3> DEFINE c == Head(todo).call
    <3>1. Execute(c, None, "model", kind) BY <2>4 DEF RunTool
    <3> HIDE DEF c
    <3>2. CASE UNCHANGED ran BY <2>3, <3>2
    <3>3. CASE Handled(c, None, "model", kind)
      <4>1. c.tool \notin Writes BY <3>3 DEF Handled, Granted
      <4> DEFINE run == [tool |-> c.tool, args |-> Normalize[c.args], by |-> "model"]
      <4>2. ran' = Append(ran, run) /\ run.tool \notin Writes BY <3>3, <4>1 DEF Handled
      <4> HIDE DEF run
      <4>3. Len(ran') = Len(ran) + 1 /\ ran'[Len(ran) + 1] = run BY <4>2, <2>1
      <4>4. \A i \in Len(ran) + 1 .. Len(ran') : i = Len(ran) + 1 BY <4>3, <2>1
      <4> QED BY <4>2, <4>3, <4>4
    <3> QED BY <3>1, <3>2, <3>3 DEF Execute, Refused, Gated
  <2>5. ASSUME NEW kind \in Kinds, Approve(kind) PROVE Kept
    <3> DEFINE run == [tool |-> stored.tool, args |-> stored.args, by |-> "human"]
    <3>1. ran' = Append(ran, run) BY <1>1, <2>5, ApprovedIsHandled
    <3>2. stored # None /\ run.by = "human" /\ run.tool = stored.tool /\ run.args = stored.args
      BY <2>5 DEF Approve
    <3> HIDE DEF run
    <3>3. Len(ran') = Len(ran) + 1 /\ ran'[Len(ran) + 1] = run BY <3>1, <2>1
    <3>4. \A i \in Len(ran) + 1 .. Len(ran') : i = Len(ran) + 1 BY <3>3, <2>1
    <3> QED BY <3>2, <3>3, <3>4
  <2> HIDE DEF Kept
  <2> QED
    BY <1>1, <2>3, <2>4, <2>5 DEF Next, vars, StartTurn, CallTools, EndTurn, ChatFails, Cancel
<1>2. Inv /\ [Next]_vars => [Kept]_vars BY <1>1
<1> QED BY <1>2, Invariant, PTL DEF Spec, OnlyHumansWrite

\* An approved change runs: validation accepts its normalized arguments again, and the
\* gate finds the fingerprint it granted.
THEOREM ApprovedAlwaysRuns == Spec => ApprovedRuns
<1> DEFINE Kept == phase = "idle" /\ stored # None /\ stored' = None
                     /\ (audit' # audit \/ history' # history) => Len(ran') = Len(ran) + 1
<1>1. ASSUME Inv, [Next]_vars PROVE Kept
  <2>1. Len(ran) \in Nat /\ ran \in Seq([tool : Tools, args : Args, by : {"model", "human"}])
    BY <1>1 DEF Inv, TypeOK
  <2>2. ASSUME NEW kind \in Kinds, Approve(kind) PROVE Kept
    <3>1. ran' = Append(ran, [tool |-> stored.tool, args |-> stored.args, by |-> "human"])
      BY <1>1, <2>2, ApprovedIsHandled
    <3> QED BY <3>1, <2>1
  <2>3. ASSUME phase = "idle", stored # None, stored' = None,
               audit' # audit \/ history' # history
        PROVE  \E kind \in Kinds : Approve(kind)
    BY <1>1, <2>3 DEF Next, vars, StartTurn, CallTools, RunTool, EndTurn, ChatFails, Cancel
  <2> QED BY <2>2, <2>3
<1>2. Inv /\ [Next]_vars => [Kept]_vars BY <1>1
<1> QED BY <1>2, Invariant, PTL DEF Spec, ApprovedRuns

\* What a finished turn leaves on offer is the last write it proposed.
THEOREM LastIsOffered == Spec => LastProposalOffered
<1> DEFINE Kept == Saves /\ gated # <<>> => stored' = Last(gated)
<1>1. ASSUME Inv, [Next]_vars PROVE Kept
  <2> SUFFICES ASSUME Saves, gated # <<>> PROVE stored' = Last(gated) OBVIOUS
  <2>1. EndTurn
    BY <1>1 DEF Saves, Next, vars, StartTurn, CallTools, RunTool, ChatFails, Approve, Cancel,
                AfterRound
  <2>2. gated \in Seq(Record) /\ Len(gated) \in 1 .. Len(gated)
    BY <1>1, LenProperties, EmptySeq DEF Inv, TypeOK
  <2>3. gated[Len(gated)] \in Record BY <2>2, ElementOfSeq
  <2>4. proposal = gated[Len(gated)] /\ proposal # None
    BY <1>1, <2>3, NoneAssumption DEF Inv, Latest
  <2>5. stored' = proposal BY <2>1, <2>4 DEF EndTurn, StoreProposal
  <2> QED BY <2>4, <2>5 DEF Last
<1>2. Inv /\ [Next]_vars => [Kept]_vars BY <1>1
<1> QED BY <1>2, Invariant, PTL DEF Spec, LastProposalOffered
------------------------------------------------------------------------------
(* ToolLoop implements WriteGate.                                               *)

\* A pending record is a write with its arguments, and never mistaken for none.
LEMMA RequestedShape ==
  /\ Requested(None) = None
  /\ \A r \in Record : /\ r # None /\ Requested(r) = <<r.tool, r.args>> /\ Requested(r) # None
                       /\ r.tool \in Writes /\ r.args \in Args
<1>1. Requested(None) = None BY DEF Requested
<1>2. ASSUME NEW r \in Record
      PROVE  /\ r # None /\ Requested(r) = <<r.tool, r.args>> /\ Requested(r) # None
             /\ r.tool \in Writes /\ r.args \in Args
  <2>1. r.tool \in Writes /\ r.args \in Args BY DEF Record
  <2>2. <<r.tool, r.args>> \in Writes \X Args BY <2>1
  <2>3. r # None /\ <<r.tool, r.args>> # None BY <2>2, NoneAssumption
  <2> QED BY <2>1, <2>3 DEF Requested
<1> QED BY <1>1, <1>2

\* A call of the model is a look, a request for a write, or nothing.
LEMMA ModelSteps ==
  ASSUME Inv, NEW kind \in Kinds, RunTool(kind)
  PROVE  [Gate!Next]_(Gate!vars)
<1> DEFINE c    == Head(todo).call
           args == Normalize[c.args]
<1>1. /\ phase = "tools" /\ Execute(c, None, "model", kind) /\ phase' \in {"tools", "chat", "giveup"}
      /\ stored' = stored
  BY DEF RunTool, AfterRound
<1>2. phase # "idle" /\ phase' # "idle" BY <1>1
<1>3. c \in Call
  <2>1. todo \in Seq([call : Call, id : Nat]) /\ todo # <<>>
    BY <1>1 DEF Inv, TypeOK, Rounds
  <2>2. Head(todo) \in [call : Call, id : Nat] BY <2>1, HeadTailProperties
  <2> QED BY <2>2
<1>4. args \in Args \cup {Invalid} BY <1>3, NormalizeAssumption DEF Call
<1> HIDE DEF c
<1>5. CASE Refused(c, kind) BY <1>1, <1>2, <1>5 DEF Refused, Gate!vars
<1>6. CASE Gated(c, None, kind)
  <2> DEFINE rec == [tool |-> c.tool, args |-> args, fingerprint |-> <<c.tool, args>>]
  <2>1. /\ c.tool \in Writes /\ args # Invalid /\ proposal' = rec /\ ran' = ran
        /\ Log(c.tool, "pending_confirmation")
    BY <1>6 DEF Gated, Fingerprint
  <2>2. args \in Args BY <1>4, <2>1
  <2>3. rec \in Record BY <2>1, <2>2 DEF Record
  <2>4. Requested(rec) = <<c.tool, args>> BY <2>3, RequestedShape
  <2> HIDE DEF rec, args
  <2>5. Gate!Ask(c.tool, args)
    BY <1>1, <1>2, <2>1, <2>4 DEF Gate!Ask, Gate!Row, Log
  <2> QED BY <2>1, <2>2, <2>5 DEF Gate!Next
<1>7. CASE Handled(c, None, "model", kind)
  <2>1. c.tool \in Reads BY <1>7 DEF Handled, Granted, Tools
  <2>2. args \in Args BY <1>4, <1>7 DEF Handled
  <2>3. PICK status \in {"success", "error"} : Log(c.tool, status) BY <1>7 DEF Handled
  <2>4. /\ ran' = Append(ran, [tool |-> c.tool, args |-> args, by |-> "model"])
        /\ UNCHANGED proposal
    BY <1>7 DEF Handled
  <2> HIDE DEF args
  <2>5. Gate!Look(c.tool, args, status)
    BY <1>1, <1>2, <2>3, <2>4 DEF Gate!Look, Gate!Row, Gate!Run, Log
  <2> QED BY <2>1, <2>2, <2>5 DEF Gate!Next, Gate!Ended
<1> QED BY <1>1, <1>5, <1>6, <1>7 DEF Execute

\* An approval carries out what is on offer.
LEMMA HumanSteps ==
  ASSUME Inv, NEW kind \in Kinds, Approve(kind)
  PROVE  Gate!Next
<1>1. /\ stored \in Record /\ UNCHANGED proposal
      /\ ran' = Append(ran, [tool |-> stored.tool, args |-> stored.args, by |-> "human"])
  BY ApprovedIsHandled
<1>2. PICK status \in {"success", "error"} :
        audit' = Append(audit, [tool |-> stored.tool, status |-> status])
  BY ApprovedIsHandled
<1>3. phase = "idle" /\ phase' = "idle" /\ stored' = None BY DEF Approve
<1>4. Requested(stored) = <<stored.tool, stored.args>> /\ stored.tool \in Writes
      /\ stored.args \in Args /\ Requested(stored') = None
  BY <1>1, <1>3, RequestedShape
<1>5. Gate!CarryOut(stored.tool, stored.args, status)
  BY <1>1, <1>2, <1>3, <1>4 DEF Gate!CarryOut, Gate!Run, Gate!Row
<1> QED BY <1>4, <1>5 DEF Gate!Next, Gate!Ended

LEMMA GateSteps == Inv /\ [Next]_vars => [Gate!Next]_(Gate!vars)
<1> SUFFICES ASSUME Inv, [Next]_vars PROVE [Gate!Next]_(Gate!vars) OBVIOUS
<1>1. CASE StartTurn
  <2>1. Gate!Begin BY <1>1, RequestedShape DEF StartTurn, Gate!Begin
  <2> QED BY <2>1 DEF Gate!Next
<1>2. ASSUME NEW n \in 1 .. MaxCalls, NEW cs \in [1 .. n -> Call], CallTools(cs)
      PROVE  UNCHANGED Gate!vars
  BY <1>2 DEF CallTools, Gate!vars
<1>3. CASE EndTurn
  <2>1. /\ phase # "idle" /\ phase' = "idle" /\ UNCHANGED <<proposal, ran, audit>>
        /\ stored' = IF proposal # None THEN proposal ELSE stored
    BY <1>3 DEF EndTurn, StoreProposal
  <2>2. proposal # None => Requested(proposal) # None
    BY RequestedShape DEF Inv, TypeOK
  <2>3. Requested(stored)' = IF Requested(proposal) = None THEN Requested(stored)
                             ELSE Requested(proposal)
    BY <2>1, <2>2, RequestedShape
  <2>4. Gate!Offer BY <2>1, <2>3 DEF Gate!Offer
  <2> QED BY <2>4 DEF Gate!Next
<1>4. CASE ChatFails
  <2>1. Gate!Drop BY <1>4 DEF ChatFails, Gate!Drop
  <2> QED BY <2>1 DEF Gate!Next
<1>5. CASE Cancel
  <2>1. stored \in Record BY <1>5 DEF Cancel, Inv, TypeOK
  <2>2. Gate!Withdraw BY <1>5, <2>1, RequestedShape DEF Cancel, Gate!Withdraw
  <2> QED BY <2>2 DEF Gate!Next
<1>6. CASE UNCHANGED vars BY <1>6 DEF vars, Gate!vars
<1> QED BY <1>1, <1>2, <1>3, <1>4, <1>5, <1>6, ModelSteps, HumanSteps DEF Next

\* For any catalogue, any arguments and any conversation: the rounds, the normalization,
\* the fingerprints and the transcript implement seven steps, of which only a human's
\* approval writes, once, what the last turn to end well asked for last.
THEOREM ImplementsWriteGate == Spec => ImplementsGate
<1>1. Init => Gate!Init BY RequestedShape DEF Init, Gate!Init
<1> QED BY <1>1, GateSteps, Invariant, PTL DEF Spec, ImplementsGate, Gate!Spec
==============================================================================
