----------------------------- MODULE MCOutbound -----------------------------
(***************************************************************************)
(* The run of everything that asks a remote service to act: a WhatsApp     *)
(* message through the HTTP client, the building and the sending of a      *)
(* mail, a multicast notification, a cloud task, and the delays between    *)
(* the attempts of the HTTP client.                                        *)
(* They share no state, so a behaviour is one of them, chosen at the       *)
(* start; the variables of the others keep one initial value.              *)
(***************************************************************************)
EXTENDS WhatsApp, Integers, Sequences

CONSTANTS
    Messages, LineLength,                          \* of MailMessage
    Rcpts, Timeout, Deadlines, NoDeadline, Flaws,  \* of SmtpSend
    Lists, MaxTokensPerBatch,                      \* of Multicast
    Queue, Names, NoName, MaxTries,                \* of CloudTask
    Given, Draws, Headers, MaxDuration             \* of Backoff

VARIABLES
    part,
    message, built, mail, envelope,
    useTLS, login, flaw, ctxEnd, canceled, clock, stage, rcpt, limit, taken,
    mailed, answer,
    tokens, from, phase, report, err, fate,
    named, tries, call, path, known, queued, made, lateTasks, job,
    given, cfg, turn, wait, cause, asked

mailVars == <<message, built, mail, envelope>>
smtpVars == <<useTLS, login, flaw, ctxEnd, canceled, clock, stage, rcpt, limit,
              taken, mailed, answer>>
multicastVars == <<tokens, from, phase, report, err, fate>>
taskVars == <<named, tries, call, path, known, queued, made, lateTasks, job>>
backoffVars == <<given, cfg, turn, wait, cause, asked>>
allVars == <<part, vars, mailVars, smtpVars, multicastVars, taskVars, backoffVars>>

A == INSTANCE MailMessage
S == INSTANCE SmtpSend
M == INSTANCE Multicast WITH result <- report
K == INSTANCE CloudTask WITH late <- lateTasks
B == INSTANCE Backoff WITH attempt <- turn

ASSUME OutboundAssumption ==
    /\ A!MailMessageAssumption
    /\ S!SmtpSendAssumption
    /\ M!MulticastAssumption
    /\ K!CloudTaskAssumption
    /\ B!BackoffAssumption

----------------------------------------------------------------------------
(* Values of the constants. *)
MCTargets == 1..(V1 + V2)

(* Messages with and without each thing a Message may have.  Headers gives *)
(* a field build sets, one it sets last, one under two spellings, or an    *)
(* encoding.  Files of one full line, of more, and of nothing.             *)
MCFields == {<<>>,
    [k \in {<<"To", "">>} |-> "x"],
    [k \in {<<"Content-Type", "">>} |-> "text/plain"],
    [k \in {<<"X-Id", "upper">>, <<"X-Id", "lower">>} |-> k[2]],
    [k \in {<<"Content-Transfer-Encoding", "">>} |-> "base64"]}

MCFiles == [name : {"f"}, type : {"", "application/pdf"}, data : {"f"}, size : {0, 57, 58}]

MCMessages ==
    {m \in [from : {"a"}, to : {<<"b">>, <<"b", "c">>}, cc : {<<>>, <<"d">>},
            bcc : {<<>>, <<"c", "e">>}, replyTo : {"", "r"},
            subject : [text : {"s"}, ascii : BOOLEAN],
            text : {"", "t"}, html : {"", "h"},
            attachments : {<<>>} \cup {<<f>> : f \in MCFiles}
                \cup {<<[f EXCEPT !.data = "g", !.name = "g"], f>> : f \in MCFiles},
            headers : MCFields] :
        m.text # "" \/ m.html # ""}

MCDeadlines == {1, 3, NoDeadline}

MCFlaws == {"none", "flawed"}

(* Lists of no token, of one batch, and of two or three with repeats.      *)
MCLists == UNION {[1..n -> {"a", "b"}] : n \in 0..5}

MCNames == [full : BOOLEAN, id : {"job"}]

(* Every mixture of set, unset and senseless fields a user may give.       *)
MCGiven == [maxAttempts : {0, 6}, initialDelay : {-1, 20, 600}, maxDelay : {0, 70},
            multiplier : {0, 5, 15, 30}, jitter : {-1, 0, 30, 60}]

MCDraws == {-100, -37, 0, 51, 99}

MCHeaders == [form : {"none", "seconds", "date"}, value : {-5, 0, 1, 20}]

----------------------------------------------------------------------------
Parts == {"whatsapp", "message", "smtp", "multicast", "task", "backoff"}

(* The parts that are not chosen start in one state. *)
OutboundInit ==
    /\ part \in Parts
    /\ IF part = "whatsapp" THEN TRUE ELSE op = "group" /\ target = 1
    /\ IF part = "message" THEN TRUE ELSE message = CHOOSE m \in Messages : TRUE
    /\ IF part = "smtp" THEN TRUE
       ELSE useTLS = FALSE /\ login = FALSE /\ flaw = "none" /\ ctxEnd = NoDeadline
    /\ IF part = "multicast" THEN TRUE ELSE tokens = <<>>
    /\ IF part = "task" THEN TRUE ELSE named = FALSE
    /\ IF part = "backoff" THEN TRUE ELSE given = CHOOSE g \in Given : TRUE
    /\ Init /\ A!Init /\ S!Init /\ M!Init /\ K!Init /\ B!Init

OutboundNext ==
    \/ /\ part = "whatsapp"
       /\ Next
       /\ UNCHANGED <<part, mailVars, smtpVars, multicastVars, taskVars, backoffVars>>
    \/ /\ part = "message"
       /\ A!Next
       /\ UNCHANGED <<part, vars, smtpVars, multicastVars, taskVars, backoffVars>>
    \/ /\ part = "smtp"
       /\ S!Next
       /\ UNCHANGED <<part, vars, mailVars, multicastVars, taskVars, backoffVars>>
    \/ /\ part = "multicast"
       /\ M!Next
       /\ UNCHANGED <<part, vars, mailVars, smtpVars, taskVars, backoffVars>>
    \/ /\ part = "task"
       /\ K!Next
       /\ UNCHANGED <<part, vars, mailVars, smtpVars, multicastVars, backoffVars>>
    \/ /\ part = "backoff"
       /\ B!Next
       /\ UNCHANGED <<part, vars, mailVars, smtpVars, multicastVars, taskVars>>

(* The fairness of each part, for the part that has been chosen.           *)
OutboundFairness ==
    /\ WF_vars(part = "whatsapp" /\ Client)
    /\ WF_smtpVars(part = "smtp" /\ S!Mail)
    /\ WF_multicastVars(part = "multicast" /\ M!Step)
    /\ WF_taskVars(part = "task" /\ K!Client)

OutboundSpec == OutboundInit /\ [][OutboundNext]_allVars /\ OutboundFairness

----------------------------------------------------------------------------
(* Properties.                                                             *)

(* The type invariants of the five modules. *)
OutboundTypeOK == TypeOK /\ S!TypeOK /\ M!TypeOK /\ K!TypeOK /\ B!TypeOK

(* A message is delivered by any session, a mail to every recipient, a     *)
(* task by being made once. *)
DM == INSTANCE Delivery WITH
        Deeds <- Targets, Enough <- {{t} : t \in Targets},
        done <- {r[1] : r \in applied}, answer <- result

DS == INSTANCE Delivery WITH
        Deeds <- 1..Rcpts, Enough <- {1..Rcpts},
        done <- mailed, answer <- answer

DK == INSTANCE Delivery WITH
        Deeds <- 1..MaxTries, Enough <- {{1}},
        done <- 1..made,
        answer <- IF job \in {"enqueued", "deleted"} THEN "nil"
                  ELSE IF job = "failed" THEN "error" ELSE "none"

(* Each of them answers its caller once and says yes only to what the      *)
(* remote service has really done, whatever was lost, late or retried.     *)
Delivers == DM!Spec /\ DS!Spec /\ DK!Spec

(* Every operation returns. *)
Returns ==
    <>CASE part = "whatsapp"  -> result # "none"
        [] part = "smtp"      -> answer # "none"
        [] part = "multicast" -> err # "none"
        [] part = "task"      -> job # "open"
        [] OTHER              -> TRUE

(* The delays of the HTTP client, with the configuration in force, follow  *)
(* the reference and the exponential within its jitter, leave no two       *)
(* attempts back to back, and respect the time a service asks for.  They   *)
(* exceed MaxDelay by up to the jitter's share, since backoffDelay caps    *)
(* first (retry.go:26-31), and have no jitter where none is given          *)
(* (config.go:66-68). *)
Delays == B!WithinJitter /\ B!WithinCurve /\ B!NoHotRetry /\ B!RetryAfterRespected

(* A mail reads as the message it was built from. *)
ReadsAsWritten == A!ReadsAsWritten

(* A mail never outlasts the time it was given: by its context if that has *)
(* a deadline, however far beyond Timeout, and by Timeout if not.          *)
WithinDeadline == S!WithinDeadline

(* The result of a multicast accounts for every answer of the service.     *)
Accounted == M!Accounted

(* A named task is enqueued at most once and stays deleted. *)
OncePerName == K!OncePerName
============================================================================
