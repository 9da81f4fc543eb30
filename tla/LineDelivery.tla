---------------------------- MODULE LineDelivery ----------------------------
(***************************************************************************)
(* How an answer gets from handle_response to a LINE chat: the messages are *)
(* built from the text and the artifacts, files that can be hosted are sent *)
(* on their own while the rest is being built, and send_line_messages sends *)
(* the rest in batches by the reply token, or by push (src/broker.rs).      *)
(*                                                                          *)
(* The LINE platform is what LineApiClient can tell of a request: it was    *)
(* taken, it was refused because of the reply token, it failed, or it was   *)
(* taken and the answer never came. The messages are positions in a         *)
(* sequence, their content does not matter.                                 *)
(***************************************************************************)
EXTENDS Integers, Sequences

CONSTANTS
  BatchSize,     \* messages that LINE takes in one request
  MaxText,       \* bound: chunks that split_text makes of the text
  MaxArtifacts   \* bound: artifacts of one response

ASSUME DeliveryAssumption ==
  /\ BatchSize \in Nat \ {0}
  /\ MaxText \in Nat
  /\ MaxArtifacts \in Nat

(***************************************************************************)
(* "direct"     an image, audio or video with a web address                *)
(* "hosted"     a document with its data, and file hosting is on            *)
(* "named"      a document without data: only its name can be sent          *)
(* "unsendable" an image, audio or video without a web address              *)
(***************************************************************************)
Kinds == {"direct", "hosted", "named", "unsendable"}

\* What LINE makes of a request, as far as the program can tell.
Answers == {"taken", "badToken", "failed", "takenUnanswered"}

Artifacts == 1..MaxArtifacts
Positions == 1..(MaxText + MaxArtifacts)

\* The parts of a response: chunks of its text, and its artifacts.
Text(i) == << "text", i >>
Artifact(i) == << "artifact", i >>
Parts == {Text(i) : i \in 1..MaxText} \cup {Artifact(i) : i \in Artifacts}

VARIABLES
  text,       \* how many chunks the text has
  artifacts,  \* the kinds of the artifacts
  token,      \* the pending message came with a reply token
  asked,      \* the response has a request_id: its client waits for a result
  fresh,      \* is_reply_token_valid: less than 55 s since it was received
  stage,      \* where handle_response is, see Stages
  at,         \* the artifact in hand
  messages,   \* the parts to be sent by send_line_messages
  from,       \* the first message of the batch in hand
  sent,       \* how often LINE has taken the message at each position
  linked,     \* artifacts whose download link LINE has taken
  unsure,     \* history: artifacts whose link was taken without an answer
  result      \* send_result

inputVars == << text, artifacts, token, asked >>
hostVars  == << at, messages, linked, unsure >>
sendVars  == << from, sent, result >>
vars      == << inputVars, fresh, stage, hostVars, sendVars >>

(***************************************************************************)
(* "artifacts"  building the messages, artifact by artifact                *)
(* "hostReply", "hostPush"  sending the link of a hosted file               *)
(* "reply", "push"          sending a batch of the messages                 *)
(* "report"     sending the ResponseResult            "done"  over          *)
(***************************************************************************)
Stages == {"artifacts", "hostReply", "hostPush", "reply", "push", "report",
           "done"}

-----------------------------------------------------------------------------

Init ==
  /\ text \in 0..MaxText
  /\ artifacts \in UNION {[1..n -> Kinds] : n \in 0..MaxArtifacts}
  /\ token \in BOOLEAN
  /\ asked \in BOOLEAN
  /\ fresh = token
  /\ stage = "artifacts"
  /\ at = 1
  /\ messages = [i \in 1..text |-> Text(i)]
  /\ from = 1
  /\ sent = [i \in Positions |-> 0]
  /\ linked = {}
  /\ unsure = {}
  /\ result = "none"

\* Time passes: 55 s since the message was received.
TokenAges ==
  /\ fresh
  /\ fresh' = FALSE
  /\ UNCHANGED << inputVars, stage, hostVars, sendVars >>

\* The artifact in hand becomes a message, or is left out with a warning.
QueueArtifact ==
  /\ stage = "artifacts"
  /\ at <= Len(artifacts)
  /\ artifacts[at] # "hosted"
  /\ messages' = IF artifacts[at] = "unsendable" THEN messages
                 ELSE Append(messages, Artifact(at))
  /\ at' = at + 1
  /\ UNCHANGED << inputVars, fresh, stage, linked, unsure, sendVars >>

\* send_file_via_hosting did not work out: the artifact's name is sent instead.
NameFile == /\ messages' = Append(messages, Artifact(at))
            /\ at' = at + 1
            /\ stage' = "artifacts"

\* The file cannot be decoded or saved.
HostingFails ==
  /\ stage = "artifacts"
  /\ at <= Len(artifacts)
  /\ artifacts[at] = "hosted"
  /\ NameFile
  /\ UNCHANGED << inputVars, fresh, linked, unsure, sendVars >>

\* The file is saved and its link goes out, by the reply token if there is one,
\* whatever its age and whether or not it has been used.
HostFile ==
  /\ stage = "artifacts"
  /\ at <= Len(artifacts)
  /\ artifacts[at] = "hosted"
  /\ stage' = IF token THEN "hostReply" ELSE "hostPush"
  /\ UNCHANGED << inputVars, fresh, hostVars, sendVars >>

\* MUTANT of SendLink: a link that was sent does not keep the name from being
\* sent too.
SendLinkAlsoNames(answer) ==
  /\ stage \in {"hostReply", "hostPush"}
  /\ answer = "badToken" => stage = "hostReply"
  /\ linked' = IF answer \in {"taken", "takenUnanswered"}
               THEN linked \cup {at} ELSE linked
  /\ unsure' = IF answer = "takenUnanswered" THEN unsure \cup {at} ELSE unsure
  /\ \/ /\ answer = "badToken"
        /\ stage' = "hostPush"
        /\ UNCHANGED << at, messages >>
     \/ /\ answer # "badToken"
        /\ NameFile
  /\ UNCHANGED << inputVars, fresh, sendVars >>

\* MUTANT of SendLink: a push that fails is tried again with the reply token.
SendLinkGoesRound(answer) ==
  /\ stage \in {"hostReply", "hostPush"}
  /\ answer = "badToken" => stage = "hostReply"
  /\ stage' = IF stage = "hostReply" THEN "hostPush"
              ELSE IF token THEN "hostReply" ELSE "artifacts"
  /\ UNCHANGED << inputVars, fresh, hostVars, sendVars >>

\* reply_message or push_message with the link: a refused token falls back to
\* push, any other failure to the artifact's name.
SendLink(answer) ==
  /\ stage \in {"hostReply", "hostPush"}
  /\ answer = "badToken" => stage = "hostReply"
  /\ linked' = IF answer \in {"taken", "takenUnanswered"}
               THEN linked \cup {at} ELSE linked
  /\ unsure' = IF answer = "takenUnanswered" THEN unsure \cup {at} ELSE unsure
  /\ \/ /\ answer = "taken"
        /\ stage' = "artifacts"
        /\ at' = at + 1
        /\ UNCHANGED messages
     \/ /\ answer = "badToken"
        /\ stage' = "hostPush"
        /\ UNCHANGED << at, messages >>
     \/ /\ answer \in {"failed", "takenUnanswered"}
        /\ NameFile
  /\ UNCHANGED << inputVars, fresh, sendVars >>

\* After the delivery: the report, if the client asked for one.
After == IF asked THEN "report" ELSE "done"

\* send_line_messages: nothing to send, the reply token while it is valid, or
\* push. The token's age is looked at here and never again.
ChooseWay ==
  /\ stage = "artifacts"
  /\ at > Len(artifacts)
  /\ IF messages = << >>
     THEN /\ stage' = After
          /\ result' = "success"
     ELSE /\ stage' = IF token /\ fresh THEN "reply" ELSE "push"
          /\ UNCHANGED result
  /\ UNCHANGED << inputVars, fresh, hostVars, from, sent >>

\* The messages of the batch in hand: chunks(5).
Batch == {i \in 1..Len(messages) : from <= i /\ i < from + BatchSize}

\* MUTANT of NextBatch: a full last batch ends the loop too early.
NextBatchTooFew ==
  /\ from' = from + BatchSize
  /\ IF from' + BatchSize > Len(messages)
     THEN stage' = After /\ result' = "success"
     ELSE UNCHANGED << stage, result >>

\* The batch was taken: on to the next one, or the answer is sent.
NextBatch ==
  /\ from' = from + BatchSize
  /\ IF from' > Len(messages)
     THEN stage' = After /\ result' = "success"
     ELSE UNCHANGED << stage, result >>

\* LINE takes the batch.
Taken == sent' = [i \in Positions |-> IF i \in Batch THEN sent[i] + 1 ELSE sent[i]]

\* MUTANT of Restart: what the token was refused for is taken as sent.
RestartBehind == from' = from + BatchSize

\* send_via_push goes through all messages, whatever has been sent of them.
Restart == from' = 1

\* MUTANT of SendBatch: after any failure of a reply everything is pushed.
SendBatchRetries(answer) ==
  /\ stage \in {"reply", "push"}
  /\ answer = "badToken" => stage = "reply"
  /\ IF answer \in {"taken", "takenUnanswered"} THEN Taken ELSE UNCHANGED sent
  /\ \/ answer = "taken" /\ NextBatch
     \/ /\ answer # "taken"
        /\ stage' = "push"
        /\ Restart
        /\ UNCHANGED result
  /\ UNCHANGED << inputVars, fresh, hostVars >>

\* reply_message or push_message with one batch. A refused reply token makes
\* send_via_push start again from the first message, also after batches that
\* the token was good for; any other failure ends the delivery where it is.
SendBatch(answer) ==
  /\ stage \in {"reply", "push"}
  /\ answer = "badToken" => stage = "reply"
  /\ IF answer \in {"taken", "takenUnanswered"} THEN Taken ELSE UNCHANGED sent
  /\ \/ answer = "taken" /\ NextBatch
     \/ /\ answer = "badToken"
        /\ stage' = "push"
        /\ Restart
        /\ UNCHANGED result
     \/ /\ answer \in {"failed", "takenUnanswered"}
        /\ stage' = After
        /\ result' = "failure"
        /\ UNCHANGED from
  /\ UNCHANGED << inputVars, fresh, hostVars >>

\* The ResponseResult is put into the client's channel, or there is no such
\* client any more, which is only logged; handle_response returns.
Report ==
  /\ stage = "report"
  /\ stage' = "done"
  /\ UNCHANGED << inputVars, fresh, hostVars, sendVars >>

-----------------------------------------------------------------------------

\* What handle_response does up to its report.
Deliver ==
  \/ QueueArtifact
  \/ HostingFails
  \/ HostFile
  \/ \E answer \in Answers : SendLink(answer)
  \/ ChooseWay
  \/ \E answer \in Answers : SendBatch(answer)

Next == Deliver \/ Report \/ TokenAges

Spec == Init /\ [][Next]_vars

\* Every request to LINE ends within the client's timeout of 30 s. Nothing is
\* promised of the report: the client's channel is bounded, and one that is full
\* and not read from is waited for without a limit.
FairSpec == Spec /\ WF_vars(Deliver)

-----------------------------------------------------------------------------
(***************************************************************************)
(* Properties                                                              *)
(***************************************************************************)

\* Each variable is of its type.
TypeOK ==
  /\ text \in 0..MaxText
  /\ artifacts \in Seq(Kinds)
  /\ Len(artifacts) <= MaxArtifacts
  /\ token \in BOOLEAN
  /\ asked \in BOOLEAN
  /\ fresh \in BOOLEAN
  /\ stage \in Stages
  /\ at \in Nat \ {0}
  /\ messages \in Seq(Parts)
  /\ Len(messages) <= MaxText + MaxArtifacts
  /\ from \in Nat \ {0}
  /\ sent \in [Positions -> Nat]
  /\ linked \subseteq Artifacts
  /\ unsure \subseteq linked
  /\ result \in {"none", "success", "failure"}

\* A client that is told its response was delivered can rely on it: every chunk
\* of the text and every artifact that can be sent is in the chat, a hosted one
\* as a link or by its name.
SuccessMeansAllSent ==
  result = "success" =>
    \A p \in {Text(i) : i \in 1..text}
             \cup {Artifact(i) : i \in {j \in 1..Len(artifacts) :
                                          artifacts[j] # "unsendable"}} :
      \/ \E i \in 1..Len(messages) : messages[i] = p /\ sent[i] > 0
      \/ \E i \in linked : p = Artifact(i)

\* At any moment the chat holds the messages up to some point and none after it,
\* and never a later one more often than an earlier one: a delivery that breaks
\* off or starts again leaves no hole.
NoHoles ==
  \A i, j \in 1..Len(messages) : i < j => sent[j] <= sent[i]

\* A message is taken twice at most, and twice only where the token was refused
\* between two batches: what fits in one request is never in the chat twice,
\* whatever LINE answers or fails to answer.
TwiceOnlyAcrossBatches ==
  \A i \in 1..Len(messages) :
    /\ sent[i] <= 2
    /\ sent[i] = 2 => token /\ Len(messages) > BatchSize

\* A file that is in the chat as a link is named there a second time only if
\* LINE took the link without an answer.
NamedAgainOnlyIfUnsure ==
  \A i \in linked, p \in 1..Len(messages) : messages[p] = Artifact(i) => i \in unsure

\* A delivery has a result in the end, whatever LINE answers, and is over with
\* it or about to report it to the client that asked: the fallbacks from reply to
\* push and from a link to a name do not go round in circles.
Concluded == <>(result # "none" /\ stage \in {After, "done"})

=============================================================================
