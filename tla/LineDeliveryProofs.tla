------------------------- MODULE LineDeliveryProofs -------------------------
(***************************************************************************)
(* What holds of the delivery of a response for any number of messages and  *)
(* artifacts and any size of batch: nothing is left out of a delivery that  *)
(* is reported as a success, none leaves a hole or sends twice what fits in *)
(* one request, and a file is linked and named only after a lost answer.    *)
(* It ends whatever LINE answers. And of its text, whatever its length and   *)
(* the longest chunk: it is cut without a loss (SplitText), and the loop     *)
(* that cuts it ends.                                                       *)
(***************************************************************************)
EXTENDS LineDelivery, SplitText, SequenceTheorems, FiniteSetTheorems, TLAPS

\* What the messages are built of: the text first, then every artifact behind
\* us that can be sent and is not in the chat as a link.
Built ==
  /\ at <= Len(artifacts) + 1
  /\ Len(messages) <= text + (at - 1)
  /\ text <= Len(messages)
  /\ \A i \in 1..text : messages[i] = Text(i)
  /\ \A j \in 1..Len(artifacts) :
       j < at /\ artifacts[j] # "unsendable" =>
         \/ \E p \in 1..Len(messages) : messages[p] = Artifact(j)
         \/ j \in linked
  /\ stage \in {"hostReply", "hostPush"} => at <= Len(artifacts)
  /\ stage \in {"reply", "push", "report", "done"} => at = Len(artifacts) + 1

\* Of a message LINE has taken r batches by the reply token, then those before
\* the batch in hand.
Times(i, r) == (IF i <= r THEN 1 ELSE 0) + (IF i < from THEN 1 ELSE 0)

\* Where a delivery stands, stage by stage.
Progress ==
  LET M == 1..Len(messages)
  IN  /\ stage \in {"artifacts", "hostReply", "hostPush"} =>
           from = 1 /\ result = "none" /\ \A i \in Positions : sent[i] = 0
      /\ stage = "reply" =>
           /\ token /\ result = "none"
           /\ from <= Len(messages)
           /\ from = 1 \/ from > BatchSize
           /\ \A i \in M : sent[i] = Times(i, 0)
      /\ stage = "push" =>
           /\ result = "none"
           /\ from <= Len(messages)
           /\ \E r \in 0..(Len(messages) - 1) :
                /\ r = 0 \/ (token /\ r >= BatchSize)
                /\ \A i \in M : sent[i] = Times(i, r)
      /\ stage \in {"report", "done"} =>
           /\ NoHoles /\ TwiceOnlyAcrossBatches
           /\ result = "success" => \A i \in M : sent[i] > 0

DInv == TypeOK /\ Built /\ Progress

-----------------------------------------------------------------------------

\* The initial states are as described.
LEMMA InitDInv == Init => DInv
<1> SUFFICES ASSUME Init PROVE DInv
  OBVIOUS
<1> USE DeliveryAssumption DEF Init
<1>1. artifacts \in Seq(Kinds) /\ Len(artifacts) <= MaxArtifacts
  <2>1. PICK n \in 0..MaxArtifacts : artifacts \in [1..n -> Kinds]
    OBVIOUS
  <2>2. artifacts \in Seq(Kinds)
    BY <2>1, SeqDef
  <2>3. Len(artifacts) = n
    BY <2>1, <2>2, LenProperties
  <2>4. QED
    BY <2>2, <2>3
<1>2. /\ messages \in Seq(Parts)
      /\ Len(messages) = text
      /\ \A i \in 1..text : messages[i] = Text(i)
  <2>1. \A i \in 1..text : Text(i) \in Parts
    BY DEF Parts
  <2>2. messages \in [1..text -> Parts]
    BY <2>1
  <2>3. messages \in Seq(Parts)
    BY <2>2, SeqDef
  <2>4. Len(messages) = text
    BY <2>2, <2>3, LenProperties
  <2>5. QED
    BY <2>3, <2>4
<1>3. TypeOK
  BY <1>1, <1>2 DEF TypeOK, Stages
<1>4. Built
  BY <1>1, <1>2 DEF Built
<1>5. Progress
  BY DEF Progress
<1>6. QED
  BY <1>3, <1>4, <1>5 DEF DInv

\* Appending the artifact in hand, or leaving it to its link, keeps what the
\* messages are built of.
LEMMA AppendBuilt ==
  ASSUME DInv, stage \in {"artifacts", "hostReply", "hostPush"},
         at <= Len(artifacts),
         UNCHANGED inputVars, at' = at + 1, stage' = "artifacts",
         linked \subseteq linked',
         \/ messages' = Append(messages, Artifact(at))
         \/ messages' = messages /\ (artifacts[at] = "unsendable" \/ at \in linked')
  PROVE  /\ messages' \in Seq(Parts)
         /\ Len(messages') <= MaxText + MaxArtifacts
         /\ Built'
<1> USE DeliveryAssumption DEF DInv, TypeOK, Built, inputVars
<1>1. Artifact(at) \in Parts
  <2>1. at \in Artifacts
    BY LenProperties DEF Artifacts
  <2>2. QED
    BY <2>1 DEF Parts
<1>2. CASE messages' = Append(messages, Artifact(at))
  <2>1. /\ messages' \in Seq(Parts)
        /\ Len(messages') = Len(messages) + 1
        /\ \A i \in 1..Len(messages) : messages'[i] = messages[i]
        /\ messages'[Len(messages) + 1] = Artifact(at)
    BY <1>1, <1>2, AppendProperties
  <2>2. ASSUME NEW j \in 1..Len(artifacts), j < at + 1,
               artifacts[j] # "unsendable"
        PROVE  \/ \E p \in 1..Len(messages') : messages'[p] = Artifact(j)
               \/ j \in linked'
    <3>1. CASE j = at
      BY <2>1, <3>1
    <3>2. CASE j < at
      BY <2>1, <2>2, <3>2
    <3>3. QED
      BY <2>2, <3>1, <3>2
  <2>3. /\ Len(messages') <= text' + (at' - 1)
        /\ Len(messages') <= MaxText + MaxArtifacts
        /\ at' <= Len(artifacts') + 1
        /\ text' <= Len(messages')
    BY <2>1, LenProperties
  <2>4. \A i \in 1..text' : messages'[i] = Text(i)
    <3>1. SUFFICES ASSUME NEW i \in 1..text PROVE messages'[i] = Text(i)
      OBVIOUS
    <3>2. i \in 1..Len(messages) /\ messages[i] = Text(i)
      BY LenProperties
    <3>3. QED
      BY <2>1, <3>2
  <2>5. \A j \in 1..Len(artifacts') :
          j < at' /\ artifacts'[j] # "unsendable" =>
            \/ \E p \in 1..Len(messages') : messages'[p] = Artifact(j)
            \/ j \in linked'
    BY <2>2
  <2>6. Built'
    BY <2>3, <2>4, <2>5
  <2>7. QED
    BY <2>1, <2>3, <2>6
<1>3. CASE /\ messages' = messages
           /\ artifacts[at] = "unsendable" \/ at \in linked'
  <2>1. ASSUME NEW j \in 1..Len(artifacts), j < at + 1,
               artifacts[j] # "unsendable"
        PROVE  \/ \E p \in 1..Len(messages) : messages[p] = Artifact(j)
               \/ j \in linked'
    <3>1. CASE j = at
      BY <1>3, <2>1, <3>1
    <3>2. CASE j < at
      BY <2>1, <3>2
    <3>3. QED
      BY <2>1, <3>1, <3>2
  <2>2. QED
    BY <1>3, <2>1
<1>4. QED
  BY <1>2, <1>3

\* A step that builds the messages sends none of them.
LEMMA StillUnsent ==
  ASSUME DInv, stage \in {"artifacts", "hostReply", "hostPush"},
         stage' \in {"artifacts", "hostReply", "hostPush"},
         UNCHANGED sendVars
  PROVE  Progress'
BY DEF DInv, Progress, sendVars

\* The steps that build the messages, or send a hosted file's link, keep it.
LEMMA BuildStep ==
  ASSUME DInv,
         \/ QueueArtifact
         \/ HostingFails
         \/ HostFile
         \/ \E answer \in Answers : SendLink(answer)
  PROVE  DInv'
<1> USE DeliveryAssumption DEF DInv
<1>1. CASE QueueArtifact
  <2>1. /\ messages' \in Seq(Parts)
        /\ Len(messages') <= MaxText + MaxArtifacts
        /\ Built'
    BY <1>1, AppendBuilt DEF QueueArtifact
  <2>2. Progress'
    BY <1>1, StillUnsent DEF QueueArtifact
  <2>3. QED
    BY <1>1, <2>1, <2>2 DEF QueueArtifact, TypeOK, inputVars, sendVars
<1>2. CASE HostingFails
  <2>1. /\ messages' \in Seq(Parts)
        /\ Len(messages') <= MaxText + MaxArtifacts
        /\ Built'
    BY <1>2, AppendBuilt DEF HostingFails, NameFile
  <2>2. Progress'
    BY <1>2, StillUnsent DEF HostingFails, NameFile
  <2>3. QED
    BY <1>2, <2>1, <2>2
       DEF HostingFails, NameFile, TypeOK, Stages, inputVars, sendVars
<1>3. CASE HostFile
  <2>1. Progress'
    BY <1>3, StillUnsent DEF HostFile
  <2>2. QED
    BY <1>3, <2>1
       DEF HostFile, TypeOK, Stages, Built, inputVars, hostVars, sendVars
<1>4. ASSUME NEW answer \in Answers, SendLink(answer) PROVE DInv'
  <2>1. Progress'
    BY <1>4, StillUnsent DEF SendLink, NameFile
  <2>2. at \in Artifacts
    BY <1>4 DEF SendLink, Built, TypeOK, Artifacts
  <2>3. linked' \subseteq Artifacts /\ unsure' \subseteq linked'
    BY <1>4, <2>2 DEF SendLink, TypeOK
  <2>4. CASE answer = "badToken"
    BY <1>4, <2>1, <2>3, <2>4
       DEF SendLink, TypeOK, Stages, Built, inputVars, sendVars
  <2>5. CASE answer # "badToken"
    <3>1. /\ messages' \in Seq(Parts)
          /\ Len(messages') <= MaxText + MaxArtifacts
          /\ Built'
      BY <1>4, <2>5, AppendBuilt DEF SendLink, NameFile, Built
    <3>2. stage' = "artifacts" /\ at' = at + 1
      BY <1>4, <2>5 DEF SendLink, NameFile
    <3>3. QED
      BY <1>4, <2>1, <2>3, <3>1, <3>2 DEF SendLink, TypeOK, Stages, inputVars, sendVars
  <2>6. QED
    BY <2>4, <2>5
<1>5. QED
  BY <1>1, <1>2, <1>3, <1>4

-----------------------------------------------------------------------------

\* r messages taken by the token and those before f taken since: no holes, and
\* two of a message only if the token was good for some.
LEMMA Shape ==
  ASSUME NEW n \in Nat, NEW r \in Nat, NEW f \in Nat, NEW s,
         \A i \in 1..n : s[i] = (IF i <= r THEN 1 ELSE 0)
                                  + (IF i < f THEN 1 ELSE 0)
  PROVE  /\ \A i, j \in 1..n : i < j => s[j] <= s[i]
         /\ \A i \in 1..n : s[i] <= 2 /\ (s[i] = 2 => r > 0)
OBVIOUS

\* What Shape says of the state.
LEMMA ShapeOfState ==
  ASSUME Len(messages) \in Nat, NEW r \in Nat, NEW f \in Nat,
         BatchSize \in Nat, r <= Len(messages) - 1,
         r = 0 \/ (token /\ r >= BatchSize),
         \A i \in 1..Len(messages) :
           sent[i] = (IF i <= r THEN 1 ELSE 0) + (IF i < f THEN 1 ELSE 0)
  PROVE  NoHoles /\ TwiceOnlyAcrossBatches
<1>1. NoHoles
  BY Shape DEF NoHoles
<1>2. \A i \in 1..Len(messages) : sent[i] <= 2 /\ (sent[i] = 2 => r > 0)
  BY Shape
<1>3. r > 0 => token /\ Len(messages) > BatchSize
  OBVIOUS
<1>4. QED
  BY <1>1, <1>2, <1>3 DEF TwiceOnlyAcrossBatches

\* A batch that LINE takes adds one to its messages.
LEMMA TakenShape ==
  ASSUME DInv, Taken, NEW r \in Nat,
         \A i \in 1..Len(messages) : sent[i] = Times(i, r)
  PROVE  /\ sent' \in [Positions -> Nat]
         /\ \A i \in 1..Len(messages) :
              sent'[i] = (IF i <= r THEN 1 ELSE 0)
                           + (IF i < from + BatchSize THEN 1 ELSE 0)
<1> USE DeliveryAssumption DEF DInv, TypeOK
<1>1. Len(messages) \in Nat /\ 1..Len(messages) \subseteq Positions
  BY LenProperties DEF Positions
<1>2. sent' \in [Positions -> Nat]
  BY DEF Taken
<1>3. ASSUME NEW i \in 1..Len(messages)
      PROVE  sent'[i] = (IF i <= r THEN 1 ELSE 0)
                          + (IF i < from + BatchSize THEN 1 ELSE 0)
  <2>1. sent'[i] = IF i \in Batch THEN sent[i] + 1 ELSE sent[i]
    BY <1>1 DEF Taken
  <2>2. i \in Batch <=> from <= i /\ i < from + BatchSize
    BY DEF Batch
  <2>3. sent[i] = (IF i <= r THEN 1 ELSE 0) + (IF i < from THEN 1 ELSE 0)
    BY DEF Times
  <2>4. QED
    BY <2>1, <2>2, <2>3
<1>4. QED
  BY <1>2, <1>3

\* A request with a batch keeps it, whatever LINE answers.
LEMMA SendStep ==
  ASSUME DInv, NEW answer \in Answers, SendBatch(answer)
  PROVE  DInv'
<1> USE DeliveryAssumption DEF DInv
<1>1. Len(messages) \in Nat /\ from \in Nat \ {0}
  BY LenProperties DEF TypeOK
<1>2. /\ UNCHANGED << inputVars, fresh, hostVars >>
      /\ UNCHANGED messages /\ UNCHANGED token
  BY DEF SendBatch, hostVars, inputVars
<1>3. from <= Len(messages) /\ result = "none"
  BY DEF SendBatch, Progress
<1>4. PICK r \in 0..(Len(messages) - 1) :
        /\ r = 0 \/ (token /\ r >= BatchSize)
        /\ stage = "reply" => r = 0
        /\ \A i \in 1..Len(messages) : sent[i] = Times(i, r)
  <2>1. CASE stage = "reply"
    BY <1>1, <1>3, <2>1 DEF Progress
  <2>2. CASE stage = "push"
    BY <2>2 DEF Progress
  <2>3. QED
    BY <2>1, <2>2 DEF SendBatch
<1>5. r \in Nat
  BY <1>1
<1>6. ASSUME Taken
       PROVE  /\ sent' \in [Positions -> Nat]
              /\ \A i \in 1..Len(messages) :
                   sent'[i] = (IF i <= r THEN 1 ELSE 0)
                                + (IF i < from + BatchSize THEN 1 ELSE 0)
  <2>1. DInv
    OBVIOUS
  <2>2. QED
    BY <2>1, <1>4, <1>5, <1>6, TakenShape
<1>7. CASE answer = "taken"
  <2>1. /\ sent' \in [Positions -> Nat]
        /\ \A i \in 1..Len(messages) :
             sent'[i] = (IF i <= r THEN 1 ELSE 0)
                          + (IF i < from + BatchSize THEN 1 ELSE 0)
    BY <1>7, <1>6 DEF SendBatch
  <2>2. from' = from + BatchSize /\ NextBatch
    BY <1>7 DEF SendBatch, NextBatch
  <2>3. CASE from' > Len(messages)
    <3>1. stage' \in {"report", "done"} /\ result' = "success"
      BY <2>2, <2>3 DEF NextBatch, After
    <3>2. \A i \in 1..Len(messages') : sent'[i] > 0
      BY <1>1, <1>2, <2>1, <2>2, <2>3
    <3>3. (NoHoles /\ TwiceOnlyAcrossBatches)'
      <4>1. NoHoles'
        BY <1>1, <1>2, <1>4, <2>1, Shape DEF NoHoles
      <4>2. \A i \in 1..Len(messages) : sent'[i] <= 2 /\ (sent'[i] = 2 => r > 0)
        BY <1>1, <1>4, <2>1, Shape
      <4>3. r > 0 => token /\ Len(messages) > BatchSize
        BY <1>1, <1>4
      <4>4. QED
        BY <1>2, <4>1, <4>2, <4>3 DEF TwiceOnlyAcrossBatches
    <3>4. Progress'
      BY <3>1, <3>2, <3>3 DEF Progress
    <3>5. Built'
      BY <1>2, <3>1 DEF SendBatch, Built, Progress, inputVars, hostVars
    <3>6. QED
      BY <1>1, <1>2, <2>1, <2>2, <3>1, <3>4, <3>5
         DEF TypeOK, Stages, inputVars, hostVars
  <2>4. CASE ~(from' > Len(messages))
    <3>1. stage' = stage /\ result' = result
      BY <2>2, <2>4 DEF NextBatch
    <3>2. \A i \in 1..Len(messages) : sent'[i] = Times(i, r)'
      BY <2>1, <2>2 DEF Times
    <3>3. from' <= Len(messages) /\ from' > BatchSize
      BY <1>1, <2>2, <2>4
    <3>4. Progress'
      BY <1>2, <1>3, <1>4, <3>1, <3>2, <3>3 DEF Progress, SendBatch
    <3>5. Built'
      BY <1>2, <3>1 DEF Built, inputVars, hostVars
    <3>6. QED
      BY <1>1, <1>2, <2>1, <2>2, <3>1, <3>4, <3>5
         DEF TypeOK, Stages, inputVars, hostVars
  <2>5. QED
    BY <2>3, <2>4
<1>8. CASE answer = "badToken"
  <2>1. /\ stage = "reply" /\ stage' = "push"
        /\ from' = 1 /\ result' = result /\ sent' = sent
    BY <1>8 DEF SendBatch, Restart
  <2>2. token /\ (from = 1 \/ from > BatchSize)
    BY <2>1 DEF Progress
  <2>3. PICK q \in 0..(Len(messages) - 1) : q = from - 1
    BY <1>1, <1>3
  <2>4. Progress'
    <3>1. \A i \in 1..Len(messages) : sent[i] = IF i < from THEN 1 ELSE 0
      BY <1>1, <1>4, <2>1 DEF Times
    <3>2. \A i \in 1..Len(messages) : sent'[i] = Times(i, q)'
      BY <1>1, <2>1, <2>3, <3>1 DEF Times
    <3>3. q = 0 \/ (token /\ q >= BatchSize)
      BY <1>1, <2>2, <2>3
    <3>4. from' <= Len(messages')
      BY <1>1, <1>2, <1>3, <2>1
    <3>5. QED
      BY <1>2, <1>3, <2>1, <3>2, <3>3, <3>4 DEF Progress
  <2>5. Built'
    BY <1>2, <2>1 DEF Built, inputVars, hostVars
  <2>6. QED
    BY <1>2, <2>1, <2>4, <2>5 DEF TypeOK, Stages, inputVars, hostVars
<1>9. CASE answer \in {"failed", "takenUnanswered"}
  <2>1. stage' \in {"report", "done"} /\ result' = "failure" /\ from' = from
    BY <1>9 DEF SendBatch, After
  <2>2. PICK f \in Nat :
          /\ sent' \in [Positions -> Nat]
          /\ \A i \in 1..Len(messages) :
               sent'[i] = (IF i <= r THEN 1 ELSE 0) + (IF i < f THEN 1 ELSE 0)
    <3>1. CASE answer = "failed"
      BY <1>1, <1>4, <3>1 DEF SendBatch, Times, TypeOK
    <3>2. CASE answer = "takenUnanswered"
      <4>1. Taken
        BY <3>2 DEF SendBatch
      <4>2. from + BatchSize \in Nat
        BY <1>1
      <4>3. QED
        BY <1>6, <4>1, <4>2
    <3>3. QED
      BY <1>9, <3>1, <3>2
  <2>3. (NoHoles /\ TwiceOnlyAcrossBatches)'
    <3>1. NoHoles'
      BY <1>1, <1>2, <1>4, <2>2, Shape DEF NoHoles
    <3>2. \A i \in 1..Len(messages) : sent'[i] <= 2 /\ (sent'[i] = 2 => r > 0)
      BY <1>1, <1>4, <2>2, Shape
    <3>3. r > 0 => token /\ Len(messages) > BatchSize
      BY <1>1, <1>4
    <3>4. QED
      BY <1>2, <3>1, <3>2, <3>3 DEF TwiceOnlyAcrossBatches
  <2>4. Progress'
    BY <2>1, <2>3 DEF Progress
  <2>5. Built'
    BY <1>2, <2>1 DEF SendBatch, Built, inputVars, hostVars
  <2>6. QED
    BY <1>2, <2>1, <2>2, <2>4, <2>5 DEF TypeOK, Stages, inputVars, hostVars
<1>10. QED
  BY <1>7, <1>8, <1>9 DEF Answers

-----------------------------------------------------------------------------

\* So do the choice between reply and push, the report, and time.
LEMMA OtherStep ==
  ASSUME DInv, ChooseWay \/ Report \/ TokenAges \/ UNCHANGED vars
  PROVE  DInv'
<1> USE DeliveryAssumption DEF DInv
<1>1. CASE ChooseWay
  <2>1. /\ from = 1 /\ result = "none" /\ \A i \in Positions : sent[i] = 0
        /\ at = Len(artifacts) + 1
    BY <1>1, LenProperties DEF ChooseWay, Progress, Built, TypeOK
  <2>2. Len(messages) \in Nat /\ 1..Len(messages) \subseteq Positions
    BY LenProperties DEF TypeOK, Positions
  <2>3. Built'
    BY <1>1, <2>1 DEF ChooseWay, After, Built, inputVars, hostVars
  <2>4. TypeOK'
    BY <1>1 DEF ChooseWay, After, TypeOK, Stages, inputVars, hostVars
  <2>5. CASE messages = << >>
    <3>1. /\ stage' \in {"report", "done"} /\ sent' = sent
          /\ messages' = messages /\ token' = token
      BY <1>1, <2>5 DEF ChooseWay, After, inputVars, hostVars
    <3>2. Len(messages') = 0
      BY <2>5, <3>1
    <3>3. Progress'
      BY <3>1, <3>2 DEF Progress, NoHoles, TwiceOnlyAcrossBatches
    <3>4. QED
      BY <2>3, <2>4, <3>3
  <2>6. CASE messages # << >>
    <3>1. 1 <= Len(messages)
      BY <2>2, <2>6, EmptySeq DEF TypeOK
    <3>2. \A i \in 1..Len(messages) : sent[i] = 0
      BY <2>1, <2>2
    <3>3. /\ stage' = IF token /\ fresh THEN "reply" ELSE "push"
          /\ UNCHANGED << from, sent, result, messages, token >>
      BY <1>1, <2>6 DEF ChooseWay, inputVars, hostVars
    <3>4. \A i \in 1..Len(messages) : sent'[i] = Times(i, 0)'
      BY <2>1, <3>2, <3>3 DEF Times
    <3>5. 0 \in 0..(Len(messages) - 1)
      BY <2>2, <3>1
    <3>6. Progress'
      BY <2>1, <3>1, <3>3, <3>4, <3>5 DEF Progress
    <3>7. QED
      BY <2>3, <2>4, <3>6
  <2>7. QED
    BY <2>5, <2>6
<1>2. CASE Report
  BY <1>2 DEF Report, TypeOK, Stages, Built, Progress, NoHoles,
     TwiceOnlyAcrossBatches, inputVars, hostVars, sendVars
<1>3. CASE TokenAges
  BY <1>3 DEF TokenAges, TypeOK, Built, Progress, NoHoles,
     TwiceOnlyAcrossBatches, Times, inputVars, hostVars, sendVars
<1>4. CASE UNCHANGED vars
  BY <1>4 DEF TypeOK, Built, Progress, NoHoles, TwiceOnlyAcrossBatches, Times,
     vars, inputVars, hostVars, sendVars
<1>5. QED
  BY <1>1, <1>2, <1>3, <1>4

\* The inductive invariant.
LEMMA DInvInvariant == Spec => []DInv
<1>1. DInv /\ [Next]_vars => DInv'
  BY BuildStep, SendStep, OtherStep DEF Next, Deliver
<1>2. QED
  BY <1>1, InitDInv, PTL DEF Spec

\* Every variable is of its type.
THEOREM DeliveryTypeInvariant == Spec => []TypeOK
BY DInvInvariant, PTL DEF DInv

-----------------------------------------------------------------------------

\* In every stage of the delivery the messages are taken in order.
LEMMA OrderFromProgress == DInv => NoHoles /\ TwiceOnlyAcrossBatches
<1> SUFFICES ASSUME DInv PROVE NoHoles /\ TwiceOnlyAcrossBatches
  OBVIOUS
<1> USE DeliveryAssumption DEF DInv
<1>1. /\ Len(messages) \in Nat /\ 1..Len(messages) \subseteq Positions
      /\ from \in Nat /\ BatchSize \in Nat
  BY LenProperties DEF TypeOK, Positions
<1>2. CASE stage \in {"artifacts", "hostReply", "hostPush"}
  <2>1. \A i \in 1..Len(messages) : sent[i] = 0
    BY <1>1, <1>2 DEF Progress
  <2>2. QED
    BY <2>1 DEF NoHoles, TwiceOnlyAcrossBatches
<1>3. CASE stage = "reply"
  <2>1. \A i \in 1..Len(messages) :
          sent[i] = (IF i <= 0 THEN 1 ELSE 0) + (IF i < from THEN 1 ELSE 0)
    BY <1>3 DEF Progress, Times
  <2>2. 0 <= Len(messages) - 1
    BY <1>1, <1>3 DEF Progress, TypeOK
  <2>3. QED
    BY <1>1, <2>1, <2>2, ShapeOfState
<1>4. CASE stage = "push"
  <2>1. PICK r \in 0..(Len(messages) - 1) :
          /\ r = 0 \/ (token /\ r >= BatchSize)
          /\ \A i \in 1..Len(messages) : sent[i] = Times(i, r)
    BY <1>4 DEF Progress
  <2>2. r \in Nat /\ r <= Len(messages) - 1
    BY <1>1
  <2>3. \A i \in 1..Len(messages) :
          sent[i] = (IF i <= r THEN 1 ELSE 0) + (IF i < from THEN 1 ELSE 0)
    BY <2>1 DEF Times
  <2>4. QED
    BY <1>1, <2>1, <2>2, <2>3, ShapeOfState
<1>5. CASE stage \in {"report", "done"}
  BY <1>5 DEF Progress
<1>6. QED
  BY <1>2, <1>3, <1>4, <1>5 DEF TypeOK, Stages

\* Whatever LINE answers, a delivery leaves no hole, for any number of messages
\* and any size of batch.
THEOREM NoHolesInvariant == Spec => []NoHoles
BY DInvInvariant, OrderFromProgress, PTL

\* What fits in one request never reaches the chat twice.
THEOREM TwiceInvariant == Spec => []TwiceOnlyAcrossBatches
BY DInvInvariant, OrderFromProgress, PTL

\* A reported success left out nothing that could be sent.
THEOREM SuccessInvariant == Spec => []SuccessMeansAllSent
<1>1. DInv => SuccessMeansAllSent
  <2> SUFFICES ASSUME DInv, result = "success" PROVE SuccessMeansAllSent
    BY DEF SuccessMeansAllSent
  <2> USE DEF DInv
  <2>1. stage \in {"report", "done"}
    BY DEF Progress, TypeOK, Stages
  <2>2. \A i \in 1..Len(messages) : sent[i] > 0
    BY <2>1 DEF Progress
  <2>3. Len(messages) \in Nat /\ Len(artifacts) \in Nat
    BY LenProperties DEF TypeOK
  <2>4. ASSUME NEW i \in 1..text
        PROVE  \E p \in 1..Len(messages) : messages[p] = Text(i) /\ sent[p] > 0
    <3>1. i \in 1..Len(messages) /\ messages[i] = Text(i)
      BY <2>3 DEF Built, TypeOK
    <3>2. QED
      BY <2>2, <3>1
  <2>5. ASSUME NEW j \in 1..Len(artifacts), artifacts[j] # "unsendable"
        PROVE  \/ \E p \in 1..Len(messages) :
                    messages[p] = Artifact(j) /\ sent[p] > 0
               \/ j \in linked
    <3>1. j < at
      BY <2>1, <2>3 DEF Built
    <3>2. QED
      BY <2>2, <2>5, <3>1 DEF Built
  <2>6. QED
    BY <2>4, <2>5 DEF SuccessMeansAllSent
<1>2. QED
  BY <1>1, DInvInvariant, PTL

-----------------------------------------------------------------------------

\* Links and names are of artifacts behind the one in hand, and a file has both
\* only where the link went unanswered.
NamedInv ==
  /\ \A j \in linked : j < at
  /\ \A p \in 1..Len(messages), j \in Artifacts :
       messages[p] = Artifact(j) => j < at /\ (j \in linked => j \in unsure)

\* A link that was taken with an answer queues nothing; whatever else becomes of
\* the artifact in hand queues its own name, once.
LEMMA NamedStep ==
  ASSUME DInv, NamedInv, [Next]_vars
  PROVE  NamedInv'
<1> USE DEF DInv, TypeOK
<1>1. ASSUME at' = at + 1,
             messages' \in {messages, Append(messages, Artifact(at))},
             linked' \in {linked, linked \cup {at}},
             unsure \subseteq unsure',
             at \in linked' => messages' = messages \/ at \in unsure'
      PROVE  NamedInv'
  <2>1. \A j \in linked' : j < at'
    BY <1>1 DEF NamedInv, Artifacts
  <2>2. at \in Nat /\ at < at'
    BY <1>1
  <2>3. ASSUME NEW p \in 1..Len(messages'), NEW j \in Artifacts,
               messages'[p] = Artifact(j)
        PROVE  j < at' /\ (j \in linked' => j \in unsure')
    <3>1. CASE p \in 1..Len(messages) /\ messages'[p] = messages[p]
      <4>1. j < at /\ (j \in linked => j \in unsure)
        BY <2>3, <3>1 DEF NamedInv
      <4>2. j \in Nat /\ j # at
        BY <2>2, <4>1 DEF Artifacts
      <4>3. QED
        BY <1>1, <2>2, <4>1, <4>2
    <3>2. CASE /\ p = Len(messages) + 1
               /\ messages' = Append(messages, Artifact(at))
               /\ messages'[p] = Artifact(at)
      <4>1. j = at /\ messages' # messages
        BY <2>3, <3>2 DEF Artifact
      <4>2. QED
        BY <1>1, <2>2, <4>1
    <3>3. ASSUME messages' = Append(messages, Artifact(at))
          PROVE  /\ Len(messages') = Len(messages) + 1
                 /\ \A q \in 1..Len(messages) : messages'[q] = messages[q]
                 /\ messages'[Len(messages) + 1] = Artifact(at)
      <4>1. messages \in Seq(Parts \cup {Artifact(at)})
        BY SeqMonotonic
      <4>2. QED
        BY <3>3, <4>1, AppendProperties
    <3>4. Len(messages) \in Nat
      BY LenProperties
    <3>5. QED
      <4>1. CASE messages' = messages
        BY <3>1, <4>1
      <4>2. CASE messages' = Append(messages, Artifact(at))
        BY <3>1, <3>2, <3>3, <3>4, <4>2
      <4>3. QED
        BY <1>1, <4>1, <4>2
  <2>4. QED
    BY <2>1, <2>3 DEF NamedInv
<1>2. CASE QueueArtifact \/ HostingFails
  <2>1. at \notin linked
    BY DEF NamedInv
  <2>2. QED
    BY <1>1, <1>2, <2>1 DEF QueueArtifact, HostingFails, NameFile
<1>3. ASSUME NEW answer \in Answers, SendLink(answer) PROVE NamedInv'
  <2>1. CASE answer = "badToken"
    BY <1>3, <2>1 DEF SendLink, NamedInv
  <2>2. CASE answer = "taken"
    BY <1>1, <1>3, <2>2 DEF SendLink
  <2>3. CASE answer = "failed"
    <3>1. at \notin linked
      BY DEF NamedInv
    <3>2. QED
      BY <1>1, <1>3, <2>3, <3>1 DEF SendLink, NameFile
  <2>4. CASE answer = "takenUnanswered"
    BY <1>1, <1>3, <2>4 DEF SendLink, NameFile
  <2>5. QED
    BY <2>1, <2>2, <2>3, <2>4 DEF Answers
<1>4. CASE UNCHANGED hostVars
  BY <1>4 DEF hostVars, NamedInv
<1>5. QED
  BY <1>2, <1>3, <1>4
     DEF Next, Deliver, HostFile, ChooseWay, SendBatch, Report, TokenAges, vars

\* A hosted file is in the chat by link and by name only if LINE took the link
\* and its answer was lost, for any artifacts in any order.
THEOREM NamedAgainInvariant == Spec => []NamedAgainOnlyIfUnsure
<1>1. Init => NamedInv
  <2> SUFFICES ASSUME Init PROVE NamedInv
    OBVIOUS
  <2>1. \A p \in 1..Len(messages), j \in Artifacts : messages[p] # Artifact(j)
    <3>1. Len(messages) = text /\ \A i \in 1..text : messages[i] = Text(i)
      BY InitDInv, LenProperties DEF DInv, TypeOK, Built, Init
    <3>2. QED
      BY <3>1 DEF Text, Artifact
  <2>2. QED
    BY <2>1 DEF NamedInv, Init
<1>2. DInv /\ NamedInv => NamedAgainOnlyIfUnsure
  BY DEF DInv, TypeOK, NamedInv, NamedAgainOnlyIfUnsure
<1>3. QED
  BY <1>1, <1>2, NamedStep, DInvInvariant, PTL DEF Spec

-----------------------------------------------------------------------------
\* A bound on the steps that a delivery has left: each artifact takes three at
\* most, its link by reply and by push included, each message at most one batch by
\* the token and one by push.
Remaining ==
  LET parts == MaxText + MaxArtifacts
      ahead == 3 + 2 * parts + 3 * (Len(artifacts) + 1 - at)
      left == Len(messages) - from
  IN  IF stage = "artifacts" THEN ahead
      ELSE IF stage = "hostReply" THEN ahead - 1
      ELSE IF stage = "hostPush" THEN ahead - 2
      ELSE IF stage = "reply" THEN 2 + Len(messages) + left
      ELSE IF stage = "push" THEN 1 + left
      ELSE 0

\* What the bound depends on, in every state.
LEMMA RemainingIn ==
  ASSUME DInv
  PROVE  /\ Len(artifacts) \in Nat /\ at \in 1 .. Len(artifacts) + 1
         /\ Len(messages) \in 0 .. MaxText + MaxArtifacts /\ from \in Nat \ {0}
         /\ MaxText \in Nat /\ MaxArtifacts \in Nat /\ stage \in Stages
         /\ stage \in {"hostReply", "hostPush"} => at <= Len(artifacts)
         /\ stage \in {"reply", "push"} => from <= Len(messages)
         /\ Remaining \in Nat
<1>1. /\ Len(artifacts) \in Nat /\ at \in 1 .. Len(artifacts) + 1
      /\ Len(messages) \in 0 .. MaxText + MaxArtifacts /\ from \in Nat \ {0}
      /\ MaxText \in Nat /\ MaxArtifacts \in Nat /\ stage \in Stages
      /\ stage \in {"hostReply", "hostPush"} => at <= Len(artifacts)
      /\ stage \in {"reply", "push"} => from <= Len(messages)
  BY LenProperties, DeliveryAssumption DEF DInv, TypeOK, Built, Progress
<1>2. Remaining \in Nat
  BY <1>1 DEF Remaining, Stages
<1> QED
  BY <1>1, <1>2

\* Every step up to the report, whatever LINE answers, leaves fewer of them.
LEMMA DeliverShortens ==
  ASSUME DInv, DInv', Deliver
  PROVE  Remaining' < Remaining
<1> DEFINE parts == MaxText + MaxArtifacts
<1>1. /\ Len(artifacts) \in Nat /\ at \in 1 .. Len(artifacts) + 1
      /\ Len(messages) \in 0 .. parts /\ from \in Nat \ {0}
      /\ MaxText \in Nat /\ MaxArtifacts \in Nat /\ BatchSize \in Nat \ {0}
      /\ stage \in {"hostReply", "hostPush"} => at <= Len(artifacts)
      /\ stage \in {"reply", "push"} => from <= Len(messages)
  BY RemainingIn, DeliveryAssumption
<1>2. CASE QueueArtifact \/ HostingFails
  <2>1. /\ stage = "artifacts" /\ stage' = "artifacts" /\ at' = at + 1
        /\ artifacts' = artifacts
    BY <1>2 DEF QueueArtifact, HostingFails, NameFile, inputVars
  <2> QED
    BY <1>1, <2>1 DEF Remaining
<1>3. CASE HostFile
  <2>1. /\ stage = "artifacts" /\ stage' \in {"hostReply", "hostPush"} /\ at' = at
        /\ artifacts' = artifacts
    BY <1>3 DEF HostFile, inputVars, hostVars
  <2> QED
    BY <1>1, <2>1 DEF Remaining
<1>4. ASSUME NEW answer \in Answers, SendLink(answer)
      PROVE  Remaining' < Remaining
  <2>1. /\ stage \in {"hostReply", "hostPush"} /\ artifacts' = artifacts
        /\ \/ stage' = "artifacts" /\ at' = at + 1
           \/ stage = "hostReply" /\ stage' = "hostPush" /\ at' = at
    BY <1>4 DEF SendLink, NameFile, inputVars, Answers
  <2> QED
    BY <1>1, <2>1 DEF Remaining
<1>5. CASE ChooseWay
  <2>1. /\ stage = "artifacts" /\ stage' \in {"report", "done", "reply", "push"}
        /\ UNCHANGED << from, messages, artifacts, at >>
        /\ at = Len(artifacts) + 1
    BY <1>1, <1>5 DEF ChooseWay, After, inputVars, hostVars
  <2> QED
    BY <1>1, <2>1 DEF Remaining
<1>6. ASSUME NEW answer \in Answers, SendBatch(answer)
      PROVE  Remaining' < Remaining
  <2>1. /\ stage \in {"reply", "push"} /\ UNCHANGED messages
        /\ \/ stage' \in {"report", "done"}
           \/ stage' = stage /\ from' = from + BatchSize
           \/ stage = "reply" /\ stage' = "push" /\ from' = 1
    BY <1>6 DEF SendBatch, NextBatch, Restart, After, hostVars
  <2> QED
    BY <1>1, <2>1 DEF Remaining
<1> QED
  BY <1>2, <1>3, <1>4, <1>5, <1>6 DEF Deliver

\* handle_response does not go round in circles: whatever LINE answers to each
\* request, how ever the fallbacks from the token to push, from the link to the
\* name and from a broken series to a new one meet, every step leaves fewer.
THEOREM DeliveryShortens ==
  Spec => [](Remaining \in Nat) /\ [][Deliver => Remaining' < Remaining]_vars
<1>1. DInv => Remaining \in Nat
  BY RemainingIn
<1>2. DInv /\ DInv' => [Deliver => Remaining' < Remaining]_vars
  BY DeliverShortens
<1> QED
  BY <1>1, <1>2, DInvInvariant, PTL

-----------------------------------------------------------------------------
(***************************************************************************)
(* SplitText: the chunks are slices of the text, cut between characters,    *)
(* and the rest is always what the text ends with (SplitInv). Every        *)
(* iteration takes a piece and drops blanks behind it (PieceTaken).         *)
(***************************************************************************)

\* A set of numbers that is not empty has a least one.
LEMMA LeastExists ==
  ASSUME NEW T \in SUBSET Nat, T # {}
  PROVE  \E x \in T : \A y \in T : x <= y
<1> DEFINE UpTo(x) == {y \in T : y <= x}
           Family == {UpTo(x) : x \in T}
<1>1. Family \subseteq FiniteSubsetsOf(Nat) /\ Family # {}
  <2>1. ASSUME NEW x \in T
        PROVE  UpTo(x) \in SUBSET Nat /\ IsFiniteSet(UpTo(x))
    BY FS_BoundedSetOfNaturals
  <2> QED
    BY <2>1 DEF FiniteSubsetsOf
<1>2. PICK U \in Family : \A V \in Family : << V, U >> \notin StrictSubsetOrdering(Nat)
  <2> HIDE DEF Family
  <2> QED
    BY <1>1, WFMin, FS_StrictSubsetOrderingWellFounded
<1>3. PICK x \in T : U = UpTo(x)
  OBVIOUS
<1>4. ASSUME NEW y \in T, y < x
      PROVE  FALSE
  <2>1. \A z \in T : z \in Nat
    OBVIOUS
  <2>2. UpTo(y) \subseteq UpTo(x) /\ x \in UpTo(x) /\ x \notin UpTo(y)
    <3> HIDE DEF Family
    <3>1. \A z \in T : z <= y => z <= x
      BY <1>4, <2>1
    <3>2. x <= x /\ ~(x <= y)
      BY <1>4, <2>1
    <3> QED
      BY <3>1, <3>2
  <2>3. UpTo(y) \in SUBSET Nat /\ UpTo(x) \in SUBSET Nat
    OBVIOUS
  <2> HIDE DEF UpTo
  <2>4. UpTo(y) \in Family
    OBVIOUS
  <2> HIDE DEF Family
  <2>5. << UpTo(y), UpTo(x) >> \in StrictSubsetOrdering(Nat)
    BY <2>2, <2>3 DEF StrictSubsetOrdering
  <2> QED
    BY <1>2, <1>3, <2>4, <2>5
<1> QED
  BY <1>4

\* What Min and Max of the community modules are of a set of positions.
LEMMA MinIs ==
  ASSUME NEW T \in SUBSET Nat, T # {}
  PROVE  Min(T) \in T /\ \A y \in T : Min(T) <= y
<1>1. PICK x \in T : \A y \in T : x <= y
  BY LeastExists
<1> QED
  BY <1>1 DEF Min

\* Max of a set of positions is one of them, and none is behind it.
LEMMA MaxIs ==
  ASSUME NEW n \in Nat, NEW T \in SUBSET (1 .. n), T # {}
  PROVE  Max(T) \in T /\ \A y \in T : Max(T) >= y
<1> DEFINE R == {n - y : y \in T}
<1>1. R \in SUBSET Nat /\ R # {}
  <2>1. \A y \in T : y \in 1 .. n
    OBVIOUS
  <2>2. \A y \in T : n - y \in Nat
    BY <2>1
  <2> QED
    BY <2>2
<1>2. PICK r \in R : \A z \in R : r <= z
  BY <1>1, LeastExists
<1>3. PICK x \in T : r = n - x
  BY <1>2
<1>4. \A y \in T : x >= y
  <2> SUFFICES ASSUME NEW y \in T
      PROVE  x >= y
    OBVIOUS
  <2>1. n - y \in R /\ x \in 1 .. n /\ y \in 1 .. n
    OBVIOUS
  <2>2. n - x <= n - y
    BY <1>2, <1>3, <2>1
  <2> QED
    BY <2>1, <2>2
<1> QED
  BY <1>4 DEF Max

\* A slice of bytes, byte by byte.
LEMMA SliceIs ==
  ASSUME NEW s \in Seq(Bytes), NEW a \in Nat \ {0}, NEW b \in Nat,
         b <= Len(s), a <= b + 1
  PROVE  /\ SubSeq(s, a, b) \in Seq(Bytes) /\ Len(SubSeq(s, a, b)) = b - a + 1
         /\ \A i \in 1 .. b - a + 1 : SubSeq(s, a, b)[i] = s[a + i - 1]
<1>1. \A i \in a .. b : s[i] \in Bytes
  BY ElementOfSeq, LenProperties
<1>2. /\ SubSeq(s, a, b) \in Seq(Bytes)
      /\ Len(SubSeq(s, a, b)) = IF a <= b THEN b - a + 1 ELSE 0
      /\ \A i \in 1 .. b - a + 1 : SubSeq(s, a, b)[i] = s[a + i - 1]
  BY <1>1, SubSeqProperties
<1> QED
  BY <1>2

\* A slice of what a text ends with is a slice of the text.
LEMMA SliceOfEnd ==
  ASSUME NEW s \in Seq(Bytes), NEW f \in 1 .. Len(s) + 1,
         NEW r, r = SubSeq(s, f, Len(s)),
         NEW a \in Nat \ {0}, NEW b \in Nat, b <= Len(r), a <= b + 1
  PROVE  /\ Len(r) = Len(s) - f + 1
         /\ SubSeq(r, a, b) = SubSeq(s, f + a - 1, f + b - 1)
<1>0. Len(s) \in Nat
  BY LenProperties
<1>1. /\ r \in Seq(Bytes) /\ Len(r) = Len(s) - f + 1
      /\ \A i \in 1 .. Len(s) - f + 1 : r[i] = s[f + i - 1]
  BY <1>0, SliceIs
<1>2. /\ SubSeq(r, a, b) \in Seq(Bytes) /\ Len(SubSeq(r, a, b)) = b - a + 1
      /\ \A i \in 1 .. b - a + 1 : SubSeq(r, a, b)[i] = r[a + i - 1]
  BY <1>1, SliceIs
<1> DEFINE c == f + a - 1
           d == f + b - 1
<1>3. c \in Nat \ {0} /\ d \in Nat /\ d <= Len(s) /\ c <= d + 1 /\ d - c + 1 = b - a + 1
  BY <1>0, <1>1
<1>4. /\ SubSeq(s, c, d) \in Seq(Bytes) /\ Len(SubSeq(s, c, d)) = b - a + 1
      /\ \A i \in 1 .. b - a + 1 : SubSeq(s, c, d)[i] = s[c + i - 1]
  <2> HIDE DEF c, d
  <2> QED
    BY <1>3, SliceIs
<1>5. ASSUME NEW i \in 1 .. b - a + 1
      PROVE  SubSeq(r, a, b)[i] = SubSeq(s, c, d)[i]
  <2>1. a + i - 1 \in 1 .. Len(s) - f + 1 /\ f + (a + i - 1) - 1 = c + i - 1
    BY <1>0, <1>1
  <2>2. r[a + i - 1] = s[c + i - 1]
    BY <1>1, <2>1
  <2> QED
    BY <1>2, <1>4, <2>2
<1> HIDE DEF c, d
<1>6. SubSeq(r, a, b) = SubSeq(s, c, d)
  BY <1>2, <1>4, <1>5, SeqEqual
<1> QED
  BY <1>1, <1>6 DEF c, d

\* A slice between two characters is of whole characters.
LEMMA SliceIsText ==
  ASSUME NEW s \in Seq(Bytes), IsText(s), NEW a \in Nat \ {0}, NEW b \in Nat,
         b <= Len(s), a <= b + 1, IsBoundary(s, a), IsBoundary(s, b + 1)
  PROVE  IsText(SubSeq(s, a, b))
<1>0. Len(s) \in Nat
  BY LenProperties
<1> DEFINE r == SubSeq(s, a, b)
<1>1. /\ Len(r) = b - a + 1
      /\ \A i \in 1 .. b - a + 1 : r[i] = s[a + i - 1]
  BY SliceIs
<1> HIDE DEF r
<1> SUFFICES ASSUME NEW i \in 1 .. Len(r), NEW c \in Longer
    PROVE  /\ r[i] = c[2] => i > 1 /\ r[i - 1] \in {c[1], c[2]}
           /\ r[i] = c[1] => i < Len(r) /\ r[i + 1] = c[2]
  BY DEF IsText, r
<1>2. /\ r[i] = s[a + i - 1] /\ a + i - 1 \in 1 .. Len(s) /\ a <= Len(s)
      /\ (a + i - 1) - 1 = a + (i - 1) - 1 /\ (a + i - 1) + 1 = a + (i + 1) - 1
  BY <1>0, <1>1
<1>3. ASSUME r[i] = c[2]
      PROVE  i > 1 /\ r[i - 1] \in {c[1], c[2]}
  <2>1. i > 1
    BY <1>0, <1>1, <1>2, <1>3 DEF IsBoundary
  <2>2. s[(a + i - 1) - 1] \in {c[1], c[2]}
    BY <1>2, <1>3 DEF IsText
  <2>3. r[i - 1] = s[a + (i - 1) - 1]
    BY <1>1, <2>1
  <2> QED
    BY <1>2, <2>1, <2>2, <2>3
<1>4. ASSUME r[i] = c[1]
      PROVE  i < Len(r) /\ r[i + 1] = c[2]
  <2>1. a + i - 1 < Len(s) /\ s[(a + i - 1) + 1] = c[2]
    BY <1>2, <1>4 DEF IsText
  <2>2. i < Len(r)
    <3>1. CASE i = Len(r)
      <4>1. (a + i - 1) + 1 = b + 1
        BY <1>0, <1>1, <3>1
      <4> QED
        BY <1>0, <2>1, <4>1 DEF IsBoundary
    <3> QED
      BY <1>0, <1>1, <3>1
  <2>3. r[i + 1] = s[a + (i + 1) - 1]
    BY <1>1, <2>2
  <2> QED
    BY <1>2, <2>1, <2>2, <2>3
<1> QED
  BY <1>3, <1>4

\* A cut is within what fits, between two characters, and at the very start only
\* of what begins with a blank.
LEMMA SplitPointIs ==
  ASSUME rest \in Seq(Bytes), Len(rest) > MaxLen, IsBoundary(rest, MaxLen + 1)
  PROVE  /\ SplitPoint \in 0 .. MaxLen
         /\ IsBoundary(rest, SplitPoint + 1)
         /\ SplitPoint = 0 => IsBlank(rest[1])
<1>0. MaxLen \in Nat \ {0} /\ Len(rest) \in Nat
  BY SplitAssumption, LenProperties
<1>1. ASSUME NEW byte \in {"newline", "space"}, Places(byte) # {},
             SplitPoint = Max(Places(byte)) - 1
      PROVE  /\ SplitPoint \in 0 .. MaxLen
             /\ IsBoundary(rest, SplitPoint + 1)
             /\ SplitPoint = 0 => IsBlank(rest[1])
  <2> DEFINE m == Max(Places(byte))
  <2>1. Places(byte) \in SUBSET (1 .. MaxLen)
    BY DEF Places
  <2>2. m \in Places(byte)
    BY <1>0, <1>1, <2>1, MaxIs
  <2>3. m \in 1 .. MaxLen /\ rest[m] = byte
    BY <2>2 DEF Places
  <2> HIDE DEF m
  <2>4. SplitPoint = m - 1
    BY <1>1 DEF m
  <2> HIDE DEF SplitPoint
  <2>5. SplitPoint + 1 = m
    BY <1>0, <2>3, <2>4
  <2> QED
    BY <1>0, <2>3, <2>4, <2>5 DEF IsBoundary, IsBlank, Longer
<1>2. CASE Places("newline") # {}
  BY <1>1, <1>2 DEF SplitPoint
<1>3. CASE Places("newline") = {} /\ Places("space") # {}
  BY <1>1, <1>3 DEF SplitPoint
<1>4. CASE Places("newline") = {} /\ Places("space") = {}
  <2>1. SplitPoint = MaxLen
    BY <1>4 DEF SplitPoint
  <2> QED
    BY <1>0, <2>1
<1> QED
  BY <1>2, <1>3, <1>4

\* trim_start takes away the blanks a text begins with and no more.
LEMMA TrimStartIs ==
  ASSUME NEW s \in Seq(Bytes)
  PROVE  \E k \in 0 .. Len(s) :
           /\ TrimStart(s) = SubSeq(s, k + 1, Len(s))
           /\ \A i \in 1 .. k : IsBlank(s[i])
           /\ k < Len(s) => ~IsBlank(s[k + 1])
<1>0. Len(s) \in Nat
  BY LenProperties
<1> DEFINE solid == {i \in 1 .. Len(s) : ~IsBlank(s[i])}
<1>1. CASE solid = {}
  <2>1. TrimStart(s) = << >> /\ \A i \in 1 .. Len(s) : IsBlank(s[i])
    BY <1>1 DEF TrimStart
  <2>2. SubSeq(s, Len(s) + 1, Len(s)) = << >>
    BY <1>0, SubSeqEmpty
  <2>3. Len(s) \in 0 .. Len(s) /\ ~(Len(s) < Len(s))
    BY <1>0
  <2> QED
    BY <2>1, <2>2, <2>3
<1>2. CASE solid # {}
  <2> DEFINE m == Min(solid)
  <2>1. solid \in SUBSET Nat
    BY <1>0
  <2>2. m \in solid /\ \A i \in solid : m <= i
    <3> HIDE DEF solid
    <3> QED
      BY <1>2, <2>1, MinIs
  <2>3. TrimStart(s) = SubSeq(s, m, Len(s))
    BY <1>2 DEF TrimStart
  <2> HIDE DEF m
  <2>4. /\ m - 1 \in 0 .. Len(s) /\ (m - 1) + 1 = m
        /\ \A i \in 1 .. m - 1 : IsBlank(s[i])
        /\ ~IsBlank(s[m])
    BY <1>0, <2>2
  <2> HIDE DEF solid
  <2> QED
    BY <2>3, <2>4
<1> QED
  BY <1>1, <1>2

\* The text, and what is left of it: whole characters, and after a cut no blank.
SplitTypeOK ==
  /\ source \in Seq(Bytes) /\ IsText(source)
  /\ rest \in Seq(Bytes) /\ Len(rest) <= Len(source)
  /\ chunks \in Seq(Seq(Bytes))
  /\ starts \in Seq(Nat \ {0}) /\ Len(starts) = Len(chunks)

RestOK ==
  /\ IsText(rest)
  /\ rest = << >> \/ chunks = << >> \/ ~IsBlank(rest[1])
  /\ chunks = << >> /\ splitting # "done" => rest = source
  /\ splitting = "begin" => chunks = << >>

\* The invariant of split_text.
SplitInv == SplitTypeOK /\ RestOK /\ SplitKeepsText

\* Every iteration takes the next n bytes for a chunk and drops blanks up to k.
Takes(n, k) ==
  /\ splitting # "done" /\ splitting' # "begin"
  /\ chunks' = Append(chunks, SubSeq(rest, 1, n))
  /\ starts' = Append(starts, From)
  /\ rest' = SubSeq(rest, k + 1, Len(rest))
  /\ UNCHANGED source
  /\ \A i \in n + 1 .. k : IsBlank(rest[i])
  /\ k < Len(rest) => ~IsBlank(rest[k + 1])
  /\ n <= MaxLen /\ IsBoundary(rest, n + 1)
  /\ n = 0 => \/ rest = << >> /\ chunks = << >>
              \/ rest # << >> /\ IsBlank(rest[1])

\* A step that takes a chunk off the front of the rest keeps the invariant.
LEMMA PieceTaken ==
  ASSUME SplitInv, NEW n \in 0 .. Len(rest), NEW k \in n .. Len(rest), Takes(n, k)
  PROVE  SplitInv'
<1>t. /\ source \in Seq(Bytes) /\ IsText(source)
      /\ rest \in Seq(Bytes) /\ Len(rest) <= Len(source)
      /\ chunks \in Seq(Seq(Bytes))
      /\ starts \in Seq(Nat \ {0}) /\ Len(starts) = Len(chunks)
      /\ IsText(rest)
      /\ source' = source
  BY DEF SplitInv, SplitTypeOK, RestOK, Takes
<1>l. Len(rest) \in Nat /\ Len(source) \in Nat /\ Len(chunks) \in Nat
  BY <1>t, LenProperties
<1>0. /\ Len(rest) \in Nat /\ Len(source) \in Nat /\ Len(chunks) \in Nat
      /\ From \in 1 .. Len(source) + 1 /\ From \in Nat \ {0}
      /\ Len(source) - From + 1 = Len(rest)
      /\ rest = SubSeq(source, From, Len(source))
      /\ MaxLen \in Nat \ {0} /\ n \in Nat /\ k \in Nat /\ n <= k /\ k <= Len(rest)
  <2>1. rest = SubSeq(source, From, Len(source))
    BY DEF SplitInv, SplitKeepsText
  <2>2. From \in 1 .. Len(source) + 1 /\ Len(source) - From + 1 = Len(rest)
    BY <1>t, <1>l DEF From
  <2>3. MaxLen \in Nat \ {0} /\ n \in Nat /\ k \in Nat /\ n <= k /\ k <= Len(rest)
    BY <1>l, SplitAssumption
  <2> QED
    BY <1>l, <2>1, <2>2, <2>3
<1>r. /\ rest = << >> \/ chunks = << >> \/ ~IsBlank(rest[1])
      /\ chunks = << >> => rest = source
  BY DEF SplitInv, RestOK, Takes
<1>c0. PICK c \in Nat : c = Len(chunks)
  BY <1>l
<1> DEFINE piece == SubSeq(rest, 1, n)
<1>1. /\ piece \in Seq(Bytes) /\ Len(piece) = n
      /\ \A i \in 1 .. n : piece[i] = rest[i]
  <2>1. /\ piece \in Seq(Bytes) /\ Len(piece) = n - 1 + 1
        /\ \A i \in 1 .. n - 1 + 1 : piece[i] = rest[1 + i - 1]
    BY <1>0, <1>t, SliceIs
  <2> HIDE DEF piece
  <2> QED
    BY <1>0, <2>1
<1>p. piece = SubSeq(source, From, (From + n) - 1)
  <2>1. piece = SubSeq(source, From + 1 - 1, From + n - 1)
    BY <1>0, <1>t, SliceOfEnd
  <2> HIDE DEF piece
  <2>2. From + 1 - 1 = From /\ From + n - 1 = (From + n) - 1
    BY <1>0
  <2> QED
    BY <1>0, <2>1, <2>2
<1>2. /\ rest' \in Seq(Bytes) /\ Len(rest') = Len(rest) - k
      /\ \A i \in 1 .. Len(rest) - k : rest'[i] = rest[k + i]
      /\ rest' = SubSeq(source, From + k, Len(source))
  <2>1. k + 1 \in Nat \ {0} /\ k + 1 <= Len(rest) + 1
    BY <1>0
  <2>0. rest' = SubSeq(rest, k + 1, Len(rest))
    BY DEF Takes
  <2>2. /\ rest' \in Seq(Bytes) /\ Len(rest') = Len(rest) - (k + 1) + 1
        /\ \A i \in 1 .. Len(rest) - (k + 1) + 1 : rest'[i] = rest[(k + 1) + i - 1]
    BY <1>0, <1>t, <2>1, <2>0, SliceIs
  <2>3. /\ Len(rest) = Len(source) - From + 1
        /\ rest' = SubSeq(source, From + (k + 1) - 1, From + Len(rest) - 1)
    BY <1>0, <2>0, <2>1, <1>t, SliceOfEnd
  <2>4. From + (k + 1) - 1 = From + k /\ From + Len(rest) - 1 = Len(source)
    BY <1>0, <2>3
  <2> QED
    BY <1>0, <2>2, <2>3, <2>4
<1>3. From' = From + k
  <2>1. Len(rest') = Len(rest) - k /\ source' = source /\ k \in Nat
    BY <1>0, <1>2, <1>t
  <2> QED
    BY <1>l, <2>1 DEF From
<1>b0. /\ IsBoundary(rest, n + 1) /\ n <= MaxLen
       /\ \A i \in n + 1 .. k : IsBlank(rest[i])
       /\ k < Len(rest) => ~IsBlank(rest[k + 1])
       /\ n = 0 => \/ rest = << >> /\ chunks = << >>
                   \/ rest # << >> /\ IsBlank(rest[1])
  BY DEF Takes
<1>4. IsText(piece)
  <2>1. IsBoundary(rest, 1)
    <3>1. ASSUME 1 \in 1 .. Len(rest), NEW b \in Longer
          PROVE  rest[1] # b[2]
      BY <1>t, <3>1 DEF IsText
    <3> QED
      BY <1>l, <3>1 DEF IsBoundary
  <2>2. 1 \in Nat \ {0} /\ 1 <= n + 1 /\ n <= Len(rest) /\ n \in Nat
    BY <1>0
  <2> QED
    BY <2>1, <2>2, <1>b0, <1>t, SliceIsText DEF piece
<1>5. IsText(rest')
  <2>1. IsBoundary(rest, k + 1)
    <3>1. CASE k = n
      BY <1>b0, <3>1
    <3>2. CASE k # n
      <4>1. IsBlank(rest[k]) /\ k \in 1 .. Len(rest) /\ (k + 1) - 1 = k
        BY <1>0, <1>b0, <3>2
      <4> QED
        <5>1. ASSUME k + 1 \in 1 .. Len(rest), NEW b \in Longer, rest[k + 1] = b[2]
              PROVE  FALSE
          <6>1. rest[k] \in {b[1], b[2]}
            BY <1>t, <4>1, <5>1 DEF IsText
          <6>2. ~IsBlank(b[2])
            BY <1>0, <1>b0, <5>1
          <6> QED
            BY <4>1, <6>1, <6>2 DEF IsBlank, Longer
        <5>2. k + 1 > Len(rest) \/ k + 1 \in 1 .. Len(rest)
          BY <1>0
        <5> QED
          BY <5>1, <5>2 DEF IsBoundary
    <3> QED
      BY <3>1, <3>2
  <2>2. IsBoundary(rest, Len(rest) + 1)
    BY <1>0 DEF IsBoundary
  <2>3. k + 1 \in Nat \ {0} /\ k + 1 <= Len(rest) + 1
    BY <1>0
  <2> QED
    <3>1. Len(rest) \in Nat /\ Len(rest) <= Len(rest) /\ IsText(SubSeq(rest, k + 1, Len(rest)))
      BY <1>l, <2>1, <2>2, <2>3, <1>t, SliceIsText
    <3> QED
      BY <3>1 DEF Takes
<1>a. chunks' = Append(chunks, piece) /\ starts' = Append(starts, From)
  BY DEF Takes
<1> HIDE DEF piece
<1>6. /\ chunks' \in Seq(Seq(Bytes)) /\ Len(chunks') = c + 1
      /\ \A i \in 1 .. c : chunks'[i] = chunks[i]
      /\ chunks'[c + 1] = piece
  <2>1. /\ Append(chunks, piece) \in Seq(Seq(Bytes))
        /\ Len(Append(chunks, piece)) = Len(chunks) + 1
        /\ \A i \in 1 .. Len(chunks) : Append(chunks, piece)[i] = chunks[i]
        /\ Append(chunks, piece)[Len(chunks) + 1] = piece
    <3>1. piece \in Seq(Bytes) /\ chunks \in Seq(Seq(Bytes))
      BY <1>1, <1>t
    <3> QED
      BY <3>1, AppendProperties
  <2> QED
    BY <1>c0, <1>a, <2>1
<1>7. /\ starts' \in Seq(Nat \ {0}) /\ Len(starts') = c + 1
      /\ \A i \in 1 .. c : starts'[i] = starts[i]
      /\ starts'[c + 1] = From
  <2>1. From \in Nat \ {0}
    BY <1>0
  <2>2. /\ Append(starts, From) \in Seq(Nat \ {0})
        /\ Len(Append(starts, From)) = Len(starts) + 1
        /\ \A i \in 1 .. Len(starts) : Append(starts, From)[i] = starts[i]
        /\ Append(starts, From)[Len(starts) + 1] = From
    BY <1>t, <2>1, AppendProperties
  <2> QED
    BY <1>c0, <1>t, <1>a, <2>2
<1>8. SplitTypeOK'
  BY <1>0, <1>t, <1>c0, <1>2, <1>6, <1>7 DEF SplitTypeOK
<1>9. RestOK'
  <2>1. chunks' # << >>
    BY <1>0, <1>6
  <2>2. rest' = << >> \/ ~IsBlank(rest'[1])
    <3>1. CASE k = Len(rest)
      <4>1. rest' \in Seq(Bytes) /\ Len(rest') = 0
        BY <1>l, <1>2, <3>1
      <4> QED
        BY <4>1, EmptySeq
    <3>2. CASE k # Len(rest)
      BY <1>0, <1>b0, <1>2, <3>2
    <3> QED
      BY <3>1, <3>2
  <2> QED
    BY <1>5, <2>1, <2>2 DEF RestOK, Takes
<1>b. /\ \A i \in 1 .. c : End(i)' = End(i)
      /\ End(c + 1)' = From + n
  BY <1>0, <1>1, <1>6, <1>7 DEF End
<1>c. /\ \A i \in 1 .. c : End(i) \in Nat /\ starts[i] \in Nat /\ Len(chunks[i]) \in Nat
  <2> SUFFICES ASSUME NEW i \in 1 .. c
      PROVE  End(i) \in Nat /\ starts[i] \in Nat /\ Len(chunks[i]) \in Nat
    OBVIOUS
  <2>1. chunks[i] \in Seq(Bytes) /\ starts[i] \in Nat \ {0}
    BY <1>0, <1>t, <1>c0, ElementOfSeq
  <2> QED
    BY <2>1, LenProperties DEF End
<1>10. \A i \in 1 .. Len(chunks') :
         /\ chunks'[i] = SubSeq(source', starts'[i], End(i)' - 1)
         /\ End(i)' <= From'
         /\ \A j \in 1 .. i - 1 : End(j)' <= starts'[i]
  <2> SUFFICES ASSUME NEW i \in 1 .. c + 1
      PROVE  /\ chunks'[i] = SubSeq(source', starts'[i], End(i)' - 1)
             /\ End(i)' <= From'
             /\ \A j \in 1 .. i - 1 : End(j)' <= starts'[i]
    BY <1>t, <1>6
  <2>1. CASE i = c + 1
    <3>1. \A j \in 1 .. c : End(j) <= From
      BY <1>c0 DEF SplitInv, SplitKeepsText
    <3>2. i - 1 = c
      BY <1>c0, <2>1
    <3> QED
      <4>1. chunks'[c + 1] = SubSeq(source', starts'[c + 1], End(c + 1)' - 1)
        BY <1>6, <1>7, <1>b, <1>t, <1>p
      <4>2. End(c + 1)' <= From'
        BY <1>0, <1>3, <1>b
      <4>3. \A j \in 1 .. c : End(j)' <= starts'[c + 1]
        BY <1>7, <1>b, <3>1
      <4> QED
        BY <2>1, <3>2, <4>1, <4>2, <4>3
  <2>2. CASE i # c + 1
    <3>1. i \in 1 .. c /\ \A j \in 1 .. i - 1 : j \in 1 .. c
      BY <1>c0, <2>2
    <3>2. /\ chunks[i] = SubSeq(source, starts[i], End(i) - 1)
          /\ End(i) <= From
          /\ \A j \in 1 .. i - 1 : End(j) <= starts[i]
      BY <1>c0, <3>1 DEF SplitInv, SplitKeepsText
    <3>3. End(i) <= From + k
      BY <1>0, <1>c, <3>1, <3>2
    <3> QED
      <4>1. chunks'[i] = chunks[i] /\ starts'[i] = starts[i] /\ End(i)' = End(i)
        BY <1>6, <1>7, <1>b, <3>1
      <4>2. \A j \in 1 .. i - 1 : End(j)' = End(j)
        BY <1>b, <3>1
      <4> QED
        BY <1>t, <1>3, <3>2, <3>3, <4>1, <4>2
  <2> QED
    BY <2>1, <2>2
<1>11. \A p \in 1 .. From' - 1 :
         IsBlank(source'[p]) \/ \E i \in 1 .. Len(chunks') : p \in starts'[i] .. End(i)' - 1
  <2> SUFFICES ASSUME NEW p \in 1 .. From + k - 1
      PROVE  IsBlank(source[p]) \/ \E i \in 1 .. c + 1 : p \in starts'[i] .. End(i)' - 1
    <3>1. source' = source /\ From' = From + k /\ Len(chunks') = c + 1
      BY <1>t, <1>3, <1>6
    <3>2. From' - 1 = From + k - 1
      BY <1>0, <3>1
    <3> QED
      BY <3>1, <3>2
  <2>1. CASE p < From
    <3>1. p \in 1 .. From - 1
      BY <1>0, <2>1
    <3>2. IsBlank(source[p]) \/ \E i \in 1 .. c : p \in starts[i] .. End(i) - 1
      BY <1>c0, <3>1 DEF SplitInv, SplitKeepsText
    <3>3. \A i \in 1 .. c : i \in 1 .. c + 1
      BY <1>c0
    <3> QED
      BY <1>7, <1>b, <3>2, <3>3
  <2>2. CASE p >= From /\ p < From + n
    <3>1. c + 1 \in 1 .. c + 1 /\ p \in starts'[c + 1] .. End(c + 1)' - 1
      BY <1>0, <1>7, <1>b, <1>c0, <2>2
    <3> QED
      BY <3>1
  <2>3. CASE p >= From + n
    <3> DEFINE q == p - From + 1
    <3>1. q \in n + 1 .. k /\ q \in 1 .. Len(rest) /\ From + q - 1 = p
      BY <1>0, <2>3
    <3> HIDE DEF q
    <3>2. IsBlank(rest[q])
      BY <1>b0, <3>1
    <3>3. rest[q] = source[From + q - 1]
      <4>1. Len(source) - From + 1 = Len(rest)
        BY <1>0, <1>t, SliceIs
      <4>2. \A i \in 1 .. Len(source) - From + 1 :
              SubSeq(source, From, Len(source))[i] = source[From + i - 1]
        BY <1>0, <1>t, SliceIs
      <4> QED
        BY <1>0, <3>1, <4>1, <4>2
    <3> QED
      BY <3>1, <3>2, <3>3
  <2> QED
    BY <1>0, <2>1, <2>2, <2>3
<1>12. \A i \in 1 .. Len(chunks') :
         /\ IsText(chunks'[i])
         /\ Len(chunks'[i]) <= MaxLen
         /\ (\A j \in 1 .. Len(chunks'[i]) : IsBlank(chunks'[i][j])) =>
              i = 1 /\ (source' = << >> \/ IsBlank(source'[1]))
  <2> SUFFICES ASSUME NEW i \in 1 .. c + 1
      PROVE  /\ IsText(chunks'[i])
             /\ Len(chunks'[i]) <= MaxLen
             /\ (\A j \in 1 .. Len(chunks'[i]) : IsBlank(chunks'[i][j])) =>
                  i = 1 /\ (source = << >> \/ IsBlank(source[1]))
    BY <1>t, <1>6
  <2>1. CASE i = c + 1
    <3>1. IsText(chunks'[i]) /\ Len(chunks'[i]) <= MaxLen
      BY <1>b0, <1>1, <1>4, <1>6, <2>1
    <3>2. ASSUME \A j \in 1 .. n : IsBlank(piece[j])
          PROVE  i = 1 /\ (source = << >> \/ IsBlank(source[1]))
      <4>1. \/ rest = << >> /\ chunks = << >>
            \/ rest # << >> /\ IsBlank(rest[1])
        <5>1. CASE n = 0
          BY <1>b0, <5>1
        <5>2. CASE n # 0
          <6>1. 1 \in 1 .. n
            BY <1>0, <5>2
          <6>2. Len(rest) # 0
            BY <1>0, <5>2
          <6>3. rest # << >>
            BY <6>2
          <6> QED
            BY <1>1, <3>2, <6>1, <6>3
        <5> QED
          BY <5>1, <5>2
      <4>2. chunks = << >>
        BY <1>r, <4>1
      <4>3. Len(chunks) = 0
        BY <4>2
      <4> QED
        BY <1>c0, <1>r, <2>1, <4>1, <4>2, <4>3
    <3> QED
      BY <1>1, <1>6, <2>1, <3>1, <3>2
  <2>2. CASE i # c + 1
    <3>1. i \in 1 .. Len(chunks) /\ chunks'[i] = chunks[i]
      BY <1>6, <1>c0, <2>2
    <3> QED
      BY <3>1 DEF SplitInv, SplitKeepsText
  <2> QED
    BY <2>1, <2>2
<1>13. rest' = SubSeq(source', From', Len(source'))
  BY <1>t, <1>2, <1>3
<1>14. SplitKeepsText'
  BY <1>10, <1>11, <1>12, <1>13 DEF SplitKeepsText
<1> QED
  BY <1>8, <1>9, <1>14 DEF SplitInv

\* An iteration of the loop takes a chunk, and what it takes with the blanks behind
\* is not empty, even when the chunk is.
LEMMA CutTakes ==
  ASSUME SplitInv, CutChunk
  PROVE  \E n \in 0 .. Len(rest) : \E k \in n .. Len(rest) : Takes(n, k) /\ k > 0
<1>0. /\ source \in Seq(Bytes) /\ rest \in Seq(Bytes)
      /\ Len(rest) \in Nat /\ Len(source) \in Nat /\ MaxLen \in Nat \ {0}
  BY LenProperties, SplitAssumption DEF SplitInv, SplitTypeOK
<1> DEFINE n == SplitPoint
           tail == SubSeq(rest, n + 1, Len(rest))
<1>1. /\ n \in 0 .. MaxLen /\ IsBoundary(rest, n + 1)
      /\ n = 0 => IsBlank(rest[1])
      /\ Len(rest) > MaxLen
  BY <1>0, SplitPointIs DEF CutChunk
<1> HIDE DEF n
<1>2. /\ tail \in Seq(Bytes) /\ Len(tail) = Len(rest) - n
      /\ \A i \in 1 .. Len(rest) - n : tail[i] = rest[n + i]
  <2>1. n + 1 \in Nat \ {0} /\ n + 1 <= Len(rest) + 1
    BY <1>0, <1>1
  <2>2. /\ tail \in Seq(Bytes) /\ Len(tail) = Len(rest) - (n + 1) + 1
        /\ \A i \in 1 .. Len(rest) - (n + 1) + 1 : tail[i] = rest[(n + 1) + i - 1]
    BY <1>0, <2>1, SliceIs
  <2> HIDE DEF tail
  <2> QED
    BY <1>0, <1>1, <2>2
<1>3. PICK t \in 0 .. Len(tail) :
        /\ TrimStart(tail) = SubSeq(tail, t + 1, Len(tail))
        /\ \A i \in 1 .. t : IsBlank(tail[i])
        /\ t < Len(tail) => ~IsBlank(tail[t + 1])
  BY <1>2, TrimStartIs
<1> DEFINE k == n + t
<1>4. n \in 0 .. Len(rest) /\ k \in n .. Len(rest) /\ n \in Nat /\ t \in Nat /\ k \in Nat
  BY <1>0, <1>1, <1>2
<1>5. TrimStart(tail) = SubSeq(rest, k + 1, Len(rest))
  <2>1. n + 1 \in 1 .. Len(rest) + 1 /\ t + 1 \in Nat \ {0} /\ Len(tail) \in Nat
        /\ t + 1 <= Len(tail) + 1 /\ Len(tail) <= Len(tail)
    BY <1>0, <1>1, <1>2
  <2>0. tail = SubSeq(rest, n + 1, Len(rest))
    OBVIOUS
  <2> HIDE DEF tail
  <2> DEFINE f == n + 1
             a == t + 1
             b == Len(tail)
  <2>a. f \in 1 .. Len(rest) + 1 /\ a \in Nat \ {0} /\ b \in Nat /\ b <= Len(tail)
        /\ a <= b + 1 /\ tail = SubSeq(rest, f, Len(rest))
    BY <2>0, <2>1
  <2> HIDE DEF f, a, b
  <2>2. SubSeq(tail, a, b) = SubSeq(rest, f + a - 1, f + b - 1)
    BY <1>0, <2>a, SliceOfEnd
  <2> USE DEF f, a, b
  <2>3. (n + 1) + (t + 1) - 1 = k + 1 /\ (n + 1) + Len(tail) - 1 = Len(rest)
    BY <1>0, <1>1, <1>2
  <2> QED
    BY <1>3, <2>2, <2>3
<1> HIDE DEF tail
<1>6. ASSUME NEW i \in n + 1 .. k
      PROVE  IsBlank(rest[i])
  <2> DEFINE j == i - n
  <2>1. j \in 1 .. t /\ j \in 1 .. Len(rest) - n /\ n + j = i
    BY <1>0, <1>1, <1>2
  <2> HIDE DEF j, k
  <2> QED
    BY <1>2, <1>3, <2>1
<1>7. k < Len(rest) => ~IsBlank(rest[k + 1])
  <2>1. ASSUME k < Len(rest)
        PROVE  t < Len(tail) /\ t + 1 \in 1 .. Len(rest) - n /\ n + (t + 1) = k + 1
    BY <1>0, <1>1, <1>2, <2>1
  <2> HIDE DEF k
  <2> QED
    BY <1>2, <1>3, <2>1
<1> HIDE DEF k
<1>8. Takes(n, k)
  <2>1. /\ splitting = "loop" /\ splitting' = splitting /\ source' = source
        /\ chunks' = Append(chunks, SubSeq(rest, 1, n))
        /\ starts' = Append(starts, From)
        /\ rest' = TrimStart(tail)
    BY DEF CutChunk, n, tail
  <2>2. rest # << >>
    BY <1>0, <1>1, EmptySeq
  <2>3. n <= MaxLen
    BY <1>0, <1>1
  <2> QED
    BY <1>1, <1>5, <1>6, <1>7, <2>1, <2>2, <2>3 DEF Takes
<1>9. k > 0
  <2> SUFFICES ASSUME k = 0
               PROVE  FALSE
    BY <1>4
  <2>1. n = 0 /\ ~IsBlank(rest[1])
    BY <1>0, <1>1, <1>4, <1>7
  <2> QED
    BY <1>1, <2>1
<1> QED
  BY <1>4, <1>8, <1>9

\* Every step takes a piece, or none.
LEMMA SplitStep ==
  SplitInv /\ [SplitNext]_splitVars => SplitInv'
<1> SUFFICES ASSUME SplitInv, [SplitNext]_splitVars
    PROVE  SplitInv'
  OBVIOUS
<1>1. /\ source \in Seq(Bytes) /\ rest \in Seq(Bytes)
      /\ Len(rest) \in Nat /\ Len(source) \in Nat /\ MaxLen \in Nat \ {0}
  BY LenProperties, SplitAssumption DEF SplitInv, SplitTypeOK
<1>2. CASE UNCHANGED splitVars \/ BeginLoop \/ CutPanics
  <2>1. /\ UNCHANGED << source, rest, chunks, starts >>
        /\ splitting' # "done" => splitting # "done"
        /\ splitting' = "begin" => splitting = "begin"
    BY <1>2 DEF splitVars, BeginLoop, CutPanics
  <2>2. SplitTypeOK' /\ RestOK'
    BY <2>1 DEF SplitInv, SplitTypeOK, RestOK
  <2>3. From' = From /\ \A i : End(i)' = End(i)
    BY <2>1 DEF From, End
  <2>4. SplitKeepsText'
    BY <2>1, <2>3 DEF SplitInv, SplitKeepsText
  <2> QED
    BY <2>2, <2>4 DEF SplitInv
<1>3. ASSUME splitting # "done", splitting' # "begin", Len(rest) <= MaxLen,
             rest = << >> => chunks = << >>,
             chunks' = Append(chunks, rest), starts' = Append(starts, From),
             rest' = << >>, UNCHANGED source
      PROVE  SplitInv'
  <2> DEFINE n == Len(rest)
  <2>1. SubSeq(rest, 1, n) = rest /\ SubSeq(rest, n + 1, n) = << >>
    BY <1>1, SubSeqFull, SubSeqEmpty
  <2>2. IsBoundary(rest, n + 1) /\ n \in 0 .. Len(rest) /\ n \in n .. Len(rest)
    BY <1>1 DEF IsBoundary
  <2>3. n = 0 => rest = << >>
    BY <1>1, EmptySeq
  <2>4. Takes(n, n)
    BY <1>1, <1>3, <2>1, <2>2, <2>3 DEF Takes
  <2> QED
    BY <2>2, <2>4, PieceTaken
<1>4. CASE KeepWhole
  <2>1. /\ chunks = << >> /\ starts = << >> /\ rest = source
    BY <1>4, EmptySeq DEF KeepWhole, SplitInv, SplitTypeOK, RestOK
  <2>2. From = 1
    BY <1>1, <2>1 DEF From
  <2>3. << source >> = Append(<< >>, source) /\ << 1 >> = Append(<< >>, 1)
    OBVIOUS
  <2> QED
    BY <1>3, <1>4, <2>1, <2>2, <2>3 DEF KeepWhole
<1>5. CASE LastChunk
  <2>1. CASE rest = << >>
    <3>1. UNCHANGED << source, rest, chunks, starts >> /\ splitting' = "done"
      BY <1>5, <2>1 DEF LastChunk
    <3>2. SplitTypeOK' /\ RestOK'
      BY <3>1 DEF SplitInv, SplitTypeOK, RestOK
    <3>3. From' = From /\ \A i : End(i)' = End(i)
      BY <3>1 DEF From, End
    <3>4. SplitKeepsText'
      BY <3>1, <3>3 DEF SplitInv, SplitKeepsText
    <3> QED
      BY <3>2, <3>4 DEF SplitInv
  <2>2. CASE rest # << >>
    BY <1>3, <1>5, <2>2 DEF LastChunk
  <2> QED
    BY <2>1, <2>2
<1>6. CASE CutChunk
  BY <1>6, CutTakes, PieceTaken
<1> QED
  BY <1>2, <1>4, <1>5, <1>6 DEF SplitNext

\* The invariant in the initial states.
LEMMA SplitInitially == SplitInit => SplitInv
<1> SUFFICES ASSUME SplitInit
             PROVE  SplitInv
  OBVIOUS
<1>1. PICK n \in 0 .. MaxBytes : source \in [1 .. n -> Bytes]
  BY DEF SplitInit, Texts
<1>2. n \in Nat
  BY <1>1, SplitAssumption
<1>3. source \in Seq(Bytes) /\ IsText(source) /\ rest = source /\ chunks = << >>
      /\ starts = << >> /\ splitting = "begin"
  BY <1>1, <1>2, SeqDef DEF SplitInit, Texts
<1>4. Len(source) \in Nat /\ Len(chunks) = 0 /\ Len(starts) = 0
  BY <1>3, LenProperties
<1>5. SplitTypeOK /\ RestOK
  BY <1>3, <1>4, EmptySeq DEF SplitTypeOK, RestOK
<1>6. From = 1 /\ SubSeq(source, 1, Len(source)) = source
  BY <1>3, <1>4, SubSeqFull DEF From
<1>7. SplitKeepsText
  BY <1>3, <1>4, <1>6 DEF SplitKeepsText
<1> QED
  BY <1>5, <1>7 DEF SplitInv

\* The text, its chunks and the rest keep to each other.
LEMMA SplitInvariant == SplitSpec => []SplitInv
BY SplitInitially, SplitStep, PTL DEF SplitSpec

\* An answer of any length, in bytes, is sent whole and in order, piece by piece
\* of whole characters and none too long: only blanks at the cuts are left out.
THEOREM SplitKeepsTextInvariant == SplitSpec => []SplitKeepsText
<1>1. SplitInv => SplitKeepsText
  BY DEF SplitInv
<1> QED
  BY <1>1, SplitInvariant, PTL

\* The loop ends for any text: every iteration takes something off the rest, also
\* where a blank at its beginning makes the chunk empty.
THEOREM CutsShorten == SplitSpec => [][CutChunk => Len(rest') < Len(rest)]_splitVars
<1>1. ASSUME SplitInv, CutChunk
      PROVE  Len(rest') < Len(rest)
  <2>0. PICK n \in 0 .. Len(rest) :
          \E k \in n .. Len(rest) : Takes(n, k) /\ k > 0
    BY <1>1, CutTakes
  <2>1. PICK k \in n .. Len(rest) : Takes(n, k) /\ k > 0
    BY <2>0
  <2>2. rest \in Seq(Bytes) /\ Len(rest) \in Nat /\ k \in Nat
    BY <1>1, LenProperties DEF SplitInv, SplitTypeOK
  <2>3. k + 1 \in Nat \ {0} /\ k + 1 <= Len(rest) + 1
    BY <2>2
  <2>4. Len(SubSeq(rest, k + 1, Len(rest))) = Len(rest) - (k + 1) + 1
    BY <2>2, <2>3, SliceIs
  <2>5. rest' = SubSeq(rest, k + 1, Len(rest))
    BY <2>1 DEF Takes
  <2> QED
    BY <2>1, <2>2, <2>4, <2>5
<1>2. SplitInv => [CutChunk => Len(rest') < Len(rest)]_splitVars
  BY <1>1
<1> QED
  BY <1>2, SplitInvariant, PTL

=============================================================================
