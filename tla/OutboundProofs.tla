--------------------------- MODULE OutboundProofs ---------------------------
(***************************************************************************)
(* What a WhatsApp message, a mail, a cloud task, a multicast and a retry  *)
(* promise, for any number of sessions, attempts, recipients, deadlines,   *)
(* tries and tokens, and for any Message: a section for each part, and at  *)
(* the end the run's specification, of which every behaviour is one of the *)
(* parts.                                                                  *)
(***************************************************************************)
EXTENDS MCOutbound, FiniteSetTheorems, SequenceTheorems, TLAPS

----------------------------------------------------------------------------
(* SmtpSend.                                                               *)

Stages == {"start", "dial", "greet", "starttls", "auth", "mail", "rcpt", "data",
           "write", "close", "quit", "returned"}

(* The time one Send may take. *)
Bound ==
    IF ctxEnd = NoDeadline THEN 2 * Timeout
    ELSE IF useTLS THEN S!Greatest(ctxEnd, Timeout) ELSE ctxEnd

(* The clock keeps within the bound because the deadline of every wait     *)
(* does, and that of the dial leaves the conversation its time.            *)
MailTimed ==
    /\ useTLS \in BOOLEAN
    /\ ctxEnd \in 0..NoDeadline
    /\ stage \in Stages
    /\ clock \in Nat
    /\ limit \in Nat
    /\ clock <= Bound
    /\ stage = "start" => clock = 0
    /\ stage \notin {"start", "returned"} => limit <= Bound
    /\ stage = "dial" => limit <= Timeout

LEMMA TimedInit == S!Init => MailTimed
BY OutboundAssumption
DEF S!SmtpSendAssumption, S!Init, MailTimed, Stages, Bound, S!Greatest

LEMMA TimedStep == MailTimed /\ [S!Next]_S!vars => MailTimed'
<1> SUFFICES ASSUME MailTimed, [S!Next]_S!vars
             PROVE  MailTimed'
    OBVIOUS
<1>1. Timeout \in Nat /\ NoDeadline \in Nat
    BY OutboundAssumption DEF S!SmtpSendAssumption
<1> USE <1>1 DEF MailTimed, Stages
<1>2. ASSUME UNCHANGED <<useTLS, ctxEnd>>
      PROVE  Bound' = Bound
    BY <1>2 DEF Bound, S!Greatest
<1>3. CASE S!Dial
    <2>1. /\ UNCHANGED <<useTLS, ctxEnd, clock>>
          /\ stage' = "dial"
          /\ clock = 0
          /\ limit' = IF useTLS THEN Timeout ELSE S!Least(ctxEnd, Timeout)
        BY <1>3 DEF S!Dial, S!Goto, S!settings, S!Least
    <2>2. limit' \in Nat /\ limit' <= Timeout /\ limit' <= Bound
        BY <2>1 DEF S!Least, Bound, S!Greatest
    <2> QED
        BY <1>2, <2>1, <2>2
<1>4. CASE S!Dialled
    <2>1. /\ UNCHANGED <<useTLS, ctxEnd, clock>>
          /\ stage' = "greet"
          /\ clock <= Timeout
          /\ limit' = IF ctxEnd # NoDeadline THEN ctxEnd ELSE clock + Timeout
        BY <1>4 DEF S!Dialled, S!Goto, S!settings, S!IoDeadline, S!InTime
    <2>2. limit' \in Nat /\ limit' <= Bound
        BY <2>1 DEF Bound, S!Greatest
    <2> QED
        BY <1>2, <2>1, <2>2
<1>5. CASE S!Proceed
    <2>1. /\ UNCHANGED <<useTLS, ctxEnd, clock, limit>>
          /\ stage \notin {"start", "dial", "returned"}
          /\ stage' \in Stages \ {"start", "dial"}
        BY <1>5 DEF S!Proceed, S!Goto, S!settings, S!After
    <2> QED
        BY <1>2, <2>1
<1>6. CASE S!Rcpt
    BY <1>2, <1>6 DEF S!Rcpt, S!Goto, S!settings
<1>7. CASE S!Close
    BY <1>2, <1>7 DEF S!Close, S!Goto, S!settings
<1>8. CASE S!Reject \/ S!Quit \/ S!Fails \/ S!DialCanceled
    <2>1. UNCHANGED <<useTLS, ctxEnd, clock, limit>> /\ stage' = "returned"
        BY <1>8 DEF S!Reject, S!Quit, S!Fails, S!DialCanceled, S!Return, S!settings
    <2> QED
        BY <1>2, <2>1
<1>9. CASE S!Tick
    <2>1. Bound \in Nat
        BY DEF Bound, S!Greatest
    <2>2. /\ UNCHANGED <<useTLS, ctxEnd, stage, limit>>
          /\ stage \notin {"start", "returned"}
          /\ clock < limit
          /\ clock' = clock + 1
        BY <1>9 DEF S!Tick, S!settings
    <2>3. clock' \in Nat /\ clock' <= Bound
        BY <2>1, <2>2
    <2> QED
        BY <1>2, <2>2, <2>3
<1>10. CASE S!Cancel \/ S!Returned \/ UNCHANGED S!vars
    <2>1. UNCHANGED <<useTLS, ctxEnd, clock, limit, stage>>
        BY <1>10 DEF S!Cancel, S!Returned, S!vars, S!settings
    <2> QED
        BY <1>2, <2>1
<1> QED
    BY <1>3, <1>4, <1>5, <1>6, <1>7, <1>8, <1>9, <1>10 DEF S!Next, S!Mail

(* Send never outlasts the deadline of its context, or twice Timeout if it *)
(* has none (smtpSend: the dialer's timeout and conn.SetDeadline).  With a *)
(* deadline in the context Timeout bounds no more than the dial.           *)
THEOREM MailsEndInTime == S!Spec => []WithinDeadline
<1>1. MailTimed => WithinDeadline
    BY DEF MailTimed, WithinDeadline, S!WithinDeadline, Bound
<1> QED
    BY <1>1, TimedInit, TimedStep, PTL DEF S!Spec

(* The server takes the message for the recipients it has accepted, and    *)
(* by the end of the data those are all of them.                           *)
MailWhole ==
    /\ rcpt \in Nat
    /\ taken = 1..(rcpt - 1)
    /\ stage \in Stages
    /\ stage = "rcpt" => rcpt \in 1..Rcpts
    /\ stage \in {"start", "dial", "greet", "starttls", "auth", "mail"} => rcpt = 1
    /\ stage \in {"data", "write", "close", "quit"} => rcpt = Rcpts + 1
    /\ mailed \in {{}, 1..Rcpts}
    /\ stage = "quit" => mailed = 1..Rcpts
    /\ answer \in {"none", "nil", "error"}
    /\ stage # "returned" => answer = "none"

LEMMA WholeInit == S!Init => MailWhole
BY OutboundAssumption DEF S!SmtpSendAssumption, S!Init, MailWhole, Stages

LEMMA WholeStep == MailWhole /\ [S!Next]_S!vars => MailWhole' /\ [DS!Next]_DS!vars
<1> SUFFICES ASSUME MailWhole, [S!Next]_S!vars
             PROVE  MailWhole' /\ [DS!Next]_DS!vars
    OBVIOUS
<1>1. Rcpts \in Nat
    BY OutboundAssumption DEF S!SmtpSendAssumption
<1> USE <1>1 DEF MailWhole, Stages
<1>2. ASSUME UNCHANGED <<mailed, answer>>
      PROVE  [DS!Next]_DS!vars
    BY <1>2 DEF DS!vars
<1>3. ASSUME mailed' = 1..Rcpts
      PROVE  DS!Act
    BY <1>3 DEF DS!Act
<1>4. ASSUME mailed' = mailed
      PROVE  DS!Act
    BY <1>4 DEF DS!Act
<1>5. CASE S!Dial \/ S!Dialled
    <2>1. /\ UNCHANGED <<rcpt, taken, mailed, answer>>
          /\ stage \in {"start", "dial"}
          /\ stage' \in {"dial", "greet"}
        BY <1>5 DEF S!Dial, S!Dialled, S!Goto
    <2> QED
        BY <1>2, <2>1
<1>6. CASE S!Proceed
    <2>1. UNCHANGED <<rcpt, taken, mailed, answer>>
        BY <1>6 DEF S!Proceed, S!Goto
    <2>2. /\ stage \in {"greet", "starttls", "auth"} => stage' \in {"starttls", "auth", "mail"}
          /\ stage = "mail" => stage' = IF Rcpts = 0 THEN "data" ELSE "rcpt"
          /\ stage = "data" => stage' = "write"
          /\ stage = "write" => stage' = "close"
          /\ stage \in {"greet", "starttls", "auth", "mail", "data", "write"}
        BY <1>6 DEF S!Proceed, S!Goto, S!After
    <2> QED
        BY <1>2, <2>1, <2>2
<1>7. CASE S!Rcpt
    <2>1. /\ UNCHANGED <<mailed, answer>>
          /\ rcpt \in 1..Rcpts
          /\ rcpt' = rcpt + 1
          /\ taken' = taken \cup {rcpt}
          /\ stage' = IF rcpt = Rcpts THEN "data" ELSE "rcpt"
          /\ answer = "none"
        BY <1>7 DEF S!Rcpt, S!Goto
    <2>2. taken' = 1..(rcpt' - 1)
        BY <2>1
    <2> QED
        BY <1>2, <2>1, <2>2
<1>8. CASE S!Close
    <2>1. /\ UNCHANGED <<rcpt, taken, answer>>
          /\ rcpt = Rcpts + 1
          /\ mailed' = taken
          /\ stage' = "quit"
          /\ answer = "none"
        BY <1>8 DEF S!Close, S!Goto
    <2>2. mailed' = 1..Rcpts
        BY <2>1
    <2>3. DS!Next
        BY <1>3, <2>1, <2>2 DEF DS!Next
    <2> QED
        BY <2>1, <2>2, <2>3
<1>9. CASE S!Quit
    <2>1. /\ UNCHANGED <<rcpt, taken, mailed>>
          /\ mailed = 1..Rcpts
          /\ stage' = "returned"
          /\ answer = "none" /\ answer' = "nil"
        BY <1>9 DEF S!Quit, S!Return
    <2>2. DS!Succeed
        BY <1>4, <2>1 DEF DS!Succeed
    <2> QED
        BY <2>1, <2>2 DEF DS!Next
<1>10. CASE S!Reject \/ S!Fails \/ S!DialCanceled
    <2>1. /\ UNCHANGED <<rcpt, taken>>
          /\ mailed' = mailed \/ mailed' = 1..Rcpts
          /\ stage' = "returned"
          /\ answer = "none" /\ answer' = "error"
        BY <1>10 DEF S!Reject, S!Fails, S!DialCanceled, S!Return
    <2>2. DS!Fail
        BY <1>3, <1>4, <2>1 DEF DS!Fail
    <2> QED
        BY <2>1, <2>2 DEF DS!Next
<1>11. CASE S!Tick \/ S!Cancel \/ S!Returned \/ UNCHANGED S!vars
    <2>1. UNCHANGED <<rcpt, taken, mailed, answer, stage>>
        BY <1>11 DEF S!Tick, S!Cancel, S!Returned, S!vars
    <2> QED
        BY <1>2, <2>1
<1> QED
    BY <1>5, <1>6, <1>7, <1>8, <1>9, <1>10, <1>11 DEF S!Next, S!Mail

LEMMA MailDelivers == S!Spec => DS!Spec
<1>1. S!Init => DS!Init
    BY DEF S!Init, DS!Init
<1> QED
    BY <1>1, WholeInit, WholeStep, PTL DEF S!Spec, DS!Spec

----------------------------------------------------------------------------
(* CloudTask.                                                              *)

(* Every task made, every creation under way and every late one goes back  *)
(* to a call of Create of its own.                                         *)
TaskCounted ==
    /\ tries \in Nat
    /\ tries <= MaxTries
    /\ call \in {"none", "create"}
    /\ job \in {"open", "enqueued", "deleted", "failed"}
    /\ made \in Nat
    /\ IsFiniteSet(lateTasks)
    /\ made + Cardinality(lateTasks) + (IF call = "create" THEN 1 ELSE 0) <= tries
    /\ job # "open" => call = "none"
    /\ job \in {"enqueued", "deleted"} => made >= 1

LEMMA CountedInit == K!Init => TaskCounted /\ DK!Init
<1> SUFFICES ASSUME K!Init PROVE TaskCounted /\ DK!Init
    OBVIOUS
<1>1. MaxTries \in Nat
    BY OutboundAssumption DEF K!CloudTaskAssumption
<1>2. lateTasks = {} /\ IsFiniteSet({}) /\ Cardinality({}) = 0
    BY FS_EmptySet DEF K!Init
<1> QED
    BY <1>1, <1>2 DEF K!Init, TaskCounted, DK!Init

(* A step that makes n tasks more. *)
LEMMA TasksAct ==
    ASSUME made \in Nat, made' \in Nat, made' >= made, made' <= MaxTries
    PROVE  DK!Act
<1>1. MaxTries \in Nat
    BY OutboundAssumption DEF K!CloudTaskAssumption
<1>2. 1..made' = (1..made) \cup (1..made') /\ 1..made' \in SUBSET (1..MaxTries)
    BY <1>1
<1> QED
    BY <1>2 DEF DK!Act

LEMMA CountedStep == TaskCounted /\ [K!Next]_K!vars => TaskCounted' /\ [DK!Next]_DK!vars
<1> SUFFICES ASSUME TaskCounted, [K!Next]_K!vars
             PROVE  TaskCounted' /\ [DK!Next]_DK!vars
    OBVIOUS
<1> DEFINE Answer == IF job \in {"enqueued", "deleted"} THEN "nil"
                     ELSE IF job = "failed" THEN "error" ELSE "none"
<1>1. MaxTries \in Nat /\ Cardinality(lateTasks) \in Nat
    BY OutboundAssumption, FS_CardinalityType DEF K!CloudTaskAssumption, TaskCounted
<1> USE <1>1 DEF TaskCounted
<1>2. ASSUME UNCHANGED <<made, job>>
      PROVE  [DK!Next]_DK!vars
    BY <1>2 DEF DK!vars
<1>3. ASSUME DK!Act, UNCHANGED job
      PROVE  [DK!Next]_DK!vars
    BY <1>3 DEF DK!Next
<1>4. ASSUME DK!Act, made' >= 1, made' \in Nat, Answer = "none", Answer' = "nil"
      PROVE  [DK!Next]_DK!vars
    <2>1. {1} \subseteq 1..made'
        BY <1>4
    <2>2. DK!Succeed
        BY <1>4, <2>1 DEF DK!Succeed
    <2> QED
        BY <2>2 DEF DK!Next
<1>5. ASSUME DK!Act, Answer = "none", Answer' = "error"
      PROVE  [DK!Next]_DK!vars
    BY <1>5 DEF DK!Next, DK!Fail
<1>6. ASSUME NEW name \in Names \cup {NoName}, NEW f \in Flaws, K!Create(name, f)
      PROVE  TaskCounted' /\ [DK!Next]_DK!vars
    <2>1. /\ UNCHANGED <<made, lateTasks, job>>
          /\ tries' = tries + 1
          /\ tries < MaxTries
          /\ job = "open"
          /\ call = "none"
          /\ call' \in {"none", "create"}
        BY <1>6 DEF K!Create
    <2> QED
        BY <1>2, <2>1
<1>7. CASE K!CreateReturns
    <2>1. /\ UNCHANGED <<tries, lateTasks>>
          /\ made' = made + 1
          /\ call = "create" /\ call' = "none"
          /\ job = "open" /\ job' = "enqueued"
        BY <1>7 DEF K!CreateReturns, K!Make
    <2>2. TaskCounted'
        BY <2>1
    <2>3. DK!Act
        BY <2>1, <2>2, TasksAct
    <2>4. Answer = "none" /\ Answer' = "nil"
        BY <2>1
    <2> QED
        BY <1>4, <2>1, <2>2, <2>3, <2>4
<1>8. CASE K!CreateFails
    <2>1. /\ UNCHANGED <<tries, job>>
          /\ call = "create" /\ call' = "none"
        BY <1>8 DEF K!CreateFails
    <2>2. \/ UNCHANGED <<made, lateTasks>>
          \/ made' = made + 1 /\ UNCHANGED lateTasks
          \/ made' = made /\ lateTasks' = lateTasks \cup {<<tries, path>>}
        BY <1>8 DEF K!CreateFails, K!Make
    <2>3. CASE UNCHANGED <<made, lateTasks>>
        BY <1>2, <2>1, <2>3
    <2>4. CASE made' = made + 1 /\ UNCHANGED lateTasks
        <3>1. TaskCounted'
            BY <2>1, <2>4
        <3>2. DK!Act
            BY <2>4, <3>1, TasksAct
        <3> QED
            BY <1>3, <2>1, <3>1, <3>2
    <2>5. CASE made' = made /\ lateTasks' = lateTasks \cup {<<tries, path>>}
        <3> DEFINE More == lateTasks \cup {<<tries, path>>}
        <3>1. /\ IsFiniteSet(More)
              /\ Cardinality(More) = IF <<tries, path>> \in lateTasks
                                     THEN Cardinality(lateTasks)
                                     ELSE Cardinality(lateTasks) + 1
            BY FS_AddElement
        <3>2. lateTasks' = More
            BY <2>5
        <3> HIDE DEF More
        <3>3. /\ IsFiniteSet(lateTasks')
              /\ Cardinality(lateTasks') \in Nat
              /\ Cardinality(lateTasks') <= Cardinality(lateTasks) + 1
            BY <3>1, <3>2, <1>1
        <3>4. made' = made
            BY <2>5
        <3>5. TaskCounted'
            BY <2>1, <3>3, <3>4
        <3> QED
            BY <1>2, <2>1, <3>4, <3>5
    <2> QED
        BY <2>2, <2>3, <2>4, <2>5
<1>9. ASSUME NEW r \in lateTasks, K!LateCreate(r)
      PROVE  TaskCounted' /\ [DK!Next]_DK!vars
    <2>1. /\ UNCHANGED <<tries, call, job>>
          /\ made' = made + 1
          /\ lateTasks' = lateTasks \ {r}
        BY <1>9 DEF K!LateCreate, K!Make
    <2>2. /\ IsFiniteSet(lateTasks')
          /\ Cardinality(lateTasks') = Cardinality(lateTasks) - 1
          /\ Cardinality(lateTasks') \in Nat
        BY <2>1, FS_RemoveElement, FS_CardinalityType
    <2>3. TaskCounted'
        BY <2>1, <2>2
    <2>4. DK!Act
        BY <2>1, <2>2, <2>3, TasksAct
    <2> QED
        BY <1>3, <2>1, <2>3, <2>4
<1>10. CASE K!GivesUp
    <2>1. /\ UNCHANGED <<tries, call, made, lateTasks>>
          /\ job = "open" /\ job' = "failed" /\ call = "none"
        BY <1>10 DEF K!GivesUp
    <2>2. TaskCounted'
        BY <2>1
    <2>3. DK!Act
        BY <2>1, <2>2, TasksAct
    <2>4. Answer = "none" /\ Answer' = "error"
        BY <2>1
    <2> QED
        BY <1>5, <2>2, <2>3, <2>4
<1>11. CASE K!Run \/ UNCHANGED K!vars
    <2>1. UNCHANGED <<tries, call, made, lateTasks, job>>
        BY <1>11 DEF K!Run, K!vars
    <2> QED
        BY <1>2, <2>1
<1>12. CASE K!Delete
    <2>1. /\ UNCHANGED <<tries, call, made, lateTasks>>
          /\ job = "enqueued" /\ job' \in {"enqueued", "deleted"}
        BY <1>12 DEF K!Delete
    <2>2. TaskCounted' /\ Answer' = Answer
        BY <2>1
    <2>3. UNCHANGED DK!vars
        BY <2>1 DEF DK!vars
    <2> QED
        BY <2>2, <2>3
<1> QED
    BY <1>6, <1>7, <1>8, <1>9, <1>10, <1>11, <1>12 DEF K!Next, K!Client

LEMMA TaskDelivers == K!Spec => DK!Spec
BY CountedInit, CountedStep, PTL DEF K!Spec, DK!Spec

(* The one path the name of the job resolves to. *)
Path == <<Queue, [full |-> FALSE, id |-> (CHOOSE n \in Names : TRUE).id]>>

(* Whatever a call that names its task does, it does under this path.      *)
TaskNamed ==
    named =>
        /\ call \in {"none", "create"}
        /\ call = "create" => path = Path
        /\ \A r \in lateTasks : r[2] = Path
        /\ known \subseteq {Path}
        /\ queued \subseteq known
        /\ made = 0 \/ (made = 1 /\ known = {Path})
        /\ job # "open" => call = "none"
        /\ job \in {"enqueued", "deleted"} => known = {Path} /\ path = Path
        /\ job = "deleted" => queued = {}

LEMMA NamedInit == K!Init => TaskNamed
BY DEF K!Init, TaskNamed

LEMMA NamedStep == TaskNamed /\ [K!Next]_K!vars => TaskNamed'
<1> SUFFICES ASSUME TaskNamed, named, [K!Next]_K!vars, named' = named
             PROVE  TaskNamed'
    <2>1. [K!Next]_K!vars => named' = named
        BY DEF K!Next, K!vars, K!Client, K!Create, K!CreateReturns, K!CreateFails,
               K!GivesUp, K!Delete, K!Run, K!LateCreate
    <2> QED
        BY <2>1 DEF TaskNamed
<1> USE DEF TaskNamed
<1>1. ASSUME NEW name \in Names \cup {NoName}, NEW f \in Flaws, K!Create(name, f)
      PROVE  TaskNamed'
    <2>1. name \in Names /\ (CHOOSE n \in Names : TRUE) \in Names
        BY <1>1 DEF K!Create
    <2>2. K!BuildTask(name) = Path
        BY <2>1, OutboundAssumption
        DEF K!CloudTaskAssumption, K!BuildTask, K!ResolveTaskName, Path
    <2>3. /\ UNCHANGED <<known, queued, made, lateTasks, job>>
          /\ job = "open"
          /\ UNCHANGED <<call, path>> \/ (call' = "create" /\ path' = Path)
        BY <1>1, <2>2 DEF K!Create
    <2> QED
        BY <2>3
<1>2. CASE K!CreateReturns
    BY <1>2 DEF K!CreateReturns, K!Make
<1>3. CASE K!CreateFails
    BY <1>3 DEF K!CreateFails, K!Make
<1>4. ASSUME NEW r \in lateTasks, K!LateCreate(r)
      PROVE  TaskNamed'
    BY <1>4 DEF K!LateCreate, K!Make
<1>5. CASE K!GivesUp
    BY <1>5 DEF K!GivesUp
<1>6. CASE K!Run
    BY <1>6 DEF K!Run
<1>7. CASE K!Delete
    BY <1>7 DEF K!Delete
<1>8. CASE UNCHANGED K!vars
    BY <1>8 DEF K!vars
<1> QED
    BY <1>1, <1>2, <1>3, <1>4, <1>5, <1>6, <1>7, <1>8 DEF K!Next, K!Client

(* Whatever is lost, late or tried again, a job that names its task is     *)
(* enqueued at most once, and stays away once deleted (resolveTaskName).   *)
THEOREM NamedTasksAreMadeOnce == K!Spec => []OncePerName
<1>1. TaskNamed => OncePerName
    BY DEF TaskNamed, OncePerName, K!OncePerName
<1> QED
    BY <1>1, NamedInit, NamedStep, PTL DEF K!Spec

----------------------------------------------------------------------------
(* WhatsApp, with the HTTP client.                                         *)

(* Where the loop over the sessions and the call in progress stand.        *)
AtSession ==
    /\ pc # "idle" => result = "none" /\ target = next /\ next \in Sessions
    /\ pc = "sleep" => attempt < MaxAttempts
    /\ pc = "done" => outcome # "none"
    /\ result = "error" => next \notin Sessions
    /\ result = "nil" => outcome = "accepted"
    /\ outcome = "accepted" =>
          Current \in applied /\ (pc = "done" \/ (pc = "idle" /\ result = "nil"))

(* The requests on the wire are of earlier sessions, or earlier attempts   *)
(* at this one, so that the one about to be sent is a new one.             *)
NewRequests ==
    /\ \A r \in sent : r[1] \in Sessions
    /\ \A r \in sent : \/ result # "none"
                       \/ r[1] < next
                       \/ pc # "idle" /\ r[1] = next /\ r[2] <= attempt
    /\ pc = "send" => Current \notin sent
    /\ pc = "flight" => Current \in sent /\ Current \notin late

(* Without the end of the context no session is left out.                  *)
NoneLeftOut ==
    ~ctxDone =>
        /\ \A t \in Sessions : t < next => RequestsTo(t) # {}
        /\ pc \in {"flight", "sleep", "done"} => RequestsTo(target) # {}

GatewayInv == TypeOK /\ AtSession /\ NewRequests /\ NoneLeftOut

LEMMA SessionsAreNumbers ==
    ASSUME op \in {"message", "group"}
    PROVE  /\ Sessions \subseteq 1..(V1 + V2)
           /\ Sessions \subseteq Targets
           /\ Sessions \subseteq Nat
           /\ \A n \in Nat \ {0} : n \notin Sessions => \A t \in Sessions : t < n
BY WhatsAppAssumption DEF Sessions

LEMMA GatewayInit == Init => GatewayInv /\ DM!Init
<1> SUFFICES ASSUME Init PROVE GatewayInv /\ DM!Init
    OBVIOUS
<1>1. TypeOK
    <2>1. 1 \in 1..MaxAttempts /\ 1 \in 1..(V1 + V2 + 1)
        BY HttpClientAssumption, WhatsAppAssumption
    <2>2. HttpTypeOK
        BY <2>1 DEF Init, HttpInit, HttpTypeOK
    <2>3. lastErr = "none" /\ "none" \in (Outcomes \cup {"none"}) \ {"accepted"}
        BY DEF Init
    <2> QED
        BY <2>1, <2>2, <2>3 DEF Init, TypeOK
<1>2. AtSession /\ NewRequests
    BY DEF Init, HttpInit, AtSession, NewRequests
<1>3. NoneLeftOut
    BY <1>1, SessionsAreNumbers DEF Init, HttpInit, NoneLeftOut, TypeOK
<1>4. DM!Init
    BY DEF Init, HttpInit, DM!Init
<1> QED
    BY <1>1, <1>2, <1>3, <1>4 DEF GatewayInv

LEMMA CurrentIsRequest ==
    ASSUME TypeOK
    PROVE  /\ Current \in Requests
           /\ Current[1] = target
           /\ Current[2] = attempt
BY DEF TypeOK, HttpTypeOK, Requests, Current

(* Requests that are on the wire stay there. *)
LEMMA StillRequested ==
    ASSUME sent \subseteq sent', NEW t, RequestsTo(t) # {}
    PROVE  RequestsTo(t)' # {}
BY DEF RequestsTo

LEMMA TypeStep == GatewayInv /\ [Next]_vars => TypeOK'
<1> SUFFICES ASSUME GatewayInv, [Next]_vars PROVE TypeOK'
    OBVIOUS
<1>1. TypeOK /\ AtSession /\ NewRequests /\ Current \in Requests
    BY CurrentIsRequest DEF GatewayInv
<1>2. Sessions \subseteq 1..(V1 + V2) /\ Sessions \subseteq Targets
    BY <1>1, SessionsAreNumbers DEF TypeOK
<1> USE <1>1, <1>2, HttpClientAssumption, WhatsAppAssumption DEF TypeOK, HttpTypeOK
<1>3. CASE TrySession
    BY <1>3 DEF TrySession, Do
<1>4. CASE Execute /\ UNCHANGED <<op, next, lastErr, result>>
    <2>1. CASE Send
        BY <1>4, <2>1 DEF Send
    <2>2. CASE SendNothing
        BY <1>4, <2>2 DEF SendNothing, Finish, Outcomes
    <2>3. CASE Answered
        BY <1>4, <2>3 DEF Answered, Finish, Outcomes
    <2>4. CASE FinalStatus
        BY <1>4, <2>4 DEF FinalStatus, Finish, Outcomes
    <2>5. CASE RetryStatus
        BY <1>4, <2>5 DEF RetryStatus, RetryOrGiveUp, Finish, Outcomes
    <2>6. CASE TransportError
        BY <1>4, <2>6 DEF TransportError, RetryOrGiveUp, GiveUp, Finish, Outcomes, NewRequests
    <2>7. CASE CtxEnds
        BY <1>4, <2>7 DEF CtxEnds, GiveUp, Finish, Outcomes, NewRequests
    <2>8. CASE SleepDone
        <3>1. attempt + 1 \in 1..MaxAttempts
            BY <2>8 DEF SleepDone, AtSession
        <3> QED
            BY <1>4, <2>8, <3>1 DEF SleepDone
    <2>9. CASE SleepCanceled
        BY <1>4, <2>9 DEF SleepCanceled, Finish, Outcomes
    <2> QED
        BY <1>4, <2>1, <2>2, <2>3, <2>4, <2>5, <2>6, <2>7, <2>8, <2>9 DEF Execute
<1>5. CASE SessionAccepts
    BY <1>5 DEF SessionAccepts
<1>6. CASE SessionFails
    <2>1. next + 1 \in 1..(V1 + V2 + 1)
        BY <1>6 DEF SessionFails, AtSession
    <2>2. outcome \in (Outcomes \cup {"none"}) \ {"accepted"}
        BY <1>6 DEF SessionFails
    <2> QED
        BY <1>6, <2>1, <2>2 DEF SessionFails
<1>7. CASE AllFailed
    BY <1>7 DEF AllFailed, httpVars
<1>8. CASE Environment /\ UNCHANGED <<op, next, lastErr, result>>
    <2>1. CASE CtxDone
        BY <1>8, <2>1 DEF CtxDone
    <2>2. CASE Apply
        BY <1>8, <2>2 DEF Apply, NewRequests
    <2>3. ASSUME NEW r \in Requests, LateApply(r)
          PROVE  TypeOK'
        BY <1>8, <2>3 DEF LateApply
    <2> QED
        BY <1>8, <2>1, <2>2, <2>3 DEF Environment
<1>9. CASE Returned \/ UNCHANGED vars
    BY <1>9 DEF Returned, vars, httpVars
<1> QED
    BY <1>3, <1>4, <1>5, <1>6, <1>7, <1>8, <1>9 DEF Next, Client

LEMMA AtSessionStep == GatewayInv /\ [Next]_vars => AtSession'
<1> SUFFICES ASSUME GatewayInv, [Next]_vars PROVE AtSession'
    OBVIOUS
<1>1. TypeOK /\ AtSession
    BY DEF GatewayInv
<1>2. op' = op /\ Sessions' = Sessions
    BY DEF Next, vars, httpVars, Client, TrySession, SessionAccepts, SessionFails,
           AllFailed, Returned, Sessions
<1> USE <1>1, <1>2 DEF AtSession, TypeOK, HttpTypeOK
<1>3. CASE TrySession
    BY <1>3 DEF TrySession, Do, Current
<1>4. CASE Execute /\ UNCHANGED <<op, next, lastErr, result>>
    <2>1. CASE Send
        BY <1>4, <2>1 DEF Send, Current
    <2>2. CASE SendNothing
        BY <1>4, <2>2 DEF SendNothing, Finish, Current
    <2>3. CASE Answered
        BY <1>4, <2>3 DEF Answered, Finish, Current
    <2>4. CASE FinalStatus
        BY <1>4, <2>4 DEF FinalStatus, Finish, Current
    <2>5. CASE RetryStatus
        BY <1>4, <2>5 DEF RetryStatus, RetryOrGiveUp, Finish, Current
    <2>6. CASE TransportError
        BY <1>4, <2>6 DEF TransportError, RetryOrGiveUp, GiveUp, Finish, Current
    <2>7. CASE CtxEnds
        BY <1>4, <2>7 DEF CtxEnds, GiveUp, Finish, Current
    <2>8. CASE SleepDone
        BY <1>4, <2>8 DEF SleepDone, Current
    <2>9. CASE SleepCanceled
        BY <1>4, <2>9 DEF SleepCanceled, Finish, Current
    <2> QED
        BY <1>4, <2>1, <2>2, <2>3, <2>4, <2>5, <2>6, <2>7, <2>8, <2>9 DEF Execute
<1>5. CASE SessionAccepts
    BY <1>5 DEF SessionAccepts, Current
<1>6. CASE SessionFails
    BY <1>6 DEF SessionFails, Current
<1>7. CASE AllFailed
    BY <1>7 DEF AllFailed, httpVars, Current
<1>8. CASE Environment /\ UNCHANGED <<op, next, lastErr, result>>
    <2>1. CASE CtxDone
        BY <1>8, <2>1 DEF CtxDone, Current
    <2>2. CASE Apply
        BY <1>8, <2>2 DEF Apply, Current
    <2>3. ASSUME NEW r \in Requests, LateApply(r)
          PROVE  AtSession'
        BY <1>8, <2>3 DEF LateApply, Current
    <2> QED
        BY <1>8, <2>1, <2>2, <2>3 DEF Environment
<1>9. CASE Returned \/ UNCHANGED vars
    BY <1>9 DEF Returned, vars, httpVars, Current
<1> QED
    BY <1>3, <1>4, <1>5, <1>6, <1>7, <1>8, <1>9 DEF Next, Client

LEMMA NewRequestsStep == GatewayInv /\ [Next]_vars => NewRequests'
<1> SUFFICES ASSUME GatewayInv, [Next]_vars PROVE NewRequests'
    OBVIOUS
<1>1. TypeOK /\ AtSession /\ NewRequests
    BY DEF GatewayInv
<1>2. op' = op /\ Sessions' = Sessions /\ Sessions \subseteq Nat
    BY <1>1, SessionsAreNumbers
    DEF Next, vars, httpVars, Client, TrySession, SessionAccepts, SessionFails,
        AllFailed, Returned, Sessions, TypeOK
<1>3. /\ next \in Nat /\ attempt \in Nat
      /\ \A r \in sent : r[1] \in Nat /\ r[2] \in Nat
    <2>1. next \in Nat /\ attempt \in Nat
        BY <1>1 DEF TypeOK, HttpTypeOK
    <2>2. \A r \in sent : r[1] \in Nat
        BY <1>1, <1>2 DEF NewRequests
    <2>3. \A r \in Requests : r[2] \in Nat
        BY DEF Requests
    <2>4. sent \subseteq Requests
        BY <1>1 DEF TypeOK, HttpTypeOK
    <2> QED
        BY <2>1, <2>2, <2>3, <2>4
<1>4. late \subseteq sent
    BY <1>1 DEF TypeOK, HttpTypeOK
<1> USE <1>1, <1>2, <1>3, <1>4 DEF NewRequests
<1>5. CASE TrySession
    <2>1. \A r \in sent : r[1] < next
        BY <1>5 DEF TrySession, Do
    <2>2. /\ UNCHANGED <<sent, next, result>>
          /\ pc' = "send"
          /\ Current' = <<next, 1>>
        BY <1>5 DEF TrySession, Do, Current
    <2> QED
        BY <2>1, <2>2
<1>6. CASE Execute /\ UNCHANGED <<op, next, lastErr, result>>
    <2>1. CASE Send
        <3>1. /\ pc = "send" /\ pc' = "flight"
              /\ sent' = sent \cup {Current}
              /\ UNCHANGED <<target, attempt, late>>
              /\ target = next /\ next \in Sessions
            BY <1>6, <2>1 DEF Send, AtSession
        <3>2. Current' = Current /\ Current[1] = target /\ Current[2] = attempt
            BY <3>1 DEF Current
        <3> QED
            BY <1>6, <3>1, <3>2
    <2>2. CASE SleepDone
        <3>1. /\ pc = "sleep" /\ pc' = "send"
              /\ attempt' = attempt + 1
              /\ UNCHANGED <<target, sent>>
              /\ target = next
              /\ result = "none"
            BY <1>6, <2>2 DEF SleepDone, AtSession
        <3>2. Current' = <<next, attempt + 1>>
            BY <3>1 DEF Current
        <3>3. Current' \notin sent
            BY <3>1, <3>2
        <3> QED
            BY <1>6, <3>1, <3>3
    <2>3. CASE \/ SendNothing \/ Answered \/ FinalStatus \/ RetryStatus
               \/ TransportError \/ CtxEnds \/ SleepCanceled
        <3>1. /\ pc \in {"send", "flight", "sleep"}
              /\ pc' \in {"done", "sleep"}
              /\ UNCHANGED <<sent, attempt>>
            BY <2>3 DEF SendNothing, Answered, FinalStatus, RetryStatus, TransportError,
                        CtxEnds, SleepCanceled, Finish, RetryOrGiveUp, GiveUp
        <3> QED
            BY <1>6, <3>1
    <2> QED
        BY <1>6, <2>1, <2>2, <2>3 DEF Execute
<1>7. CASE SessionAccepts
    BY <1>7 DEF SessionAccepts
<1>8. CASE SessionFails
    <2>1. /\ next' = next + 1
          /\ pc = "done" /\ pc' = "idle"
          /\ UNCHANGED <<sent, result>>
        BY <1>8 DEF SessionFails
    <2>2. \A r \in sent : result # "none" \/ r[1] < next + 1
        <3> TAKE r \in sent
        <3> QED
            BY <1>3
    <2> QED
        BY <2>1, <2>2
<1>9. CASE AllFailed
    BY <1>9 DEF AllFailed, httpVars
<1>10. CASE Environment /\ UNCHANGED <<op, next, lastErr, result>>
    <2>1. UNCHANGED <<pc, sent, target, attempt>> /\ late' \subseteq late
        BY <1>10 DEF Environment, CtxDone, Apply, LateApply
    <2>2. Current' = Current
        BY <2>1 DEF Current
    <2> QED
        BY <1>10, <2>1, <2>2
<1>11. CASE Returned \/ UNCHANGED vars
    BY <1>11 DEF Returned, vars, httpVars, Current
<1> QED
    BY <1>5, <1>6, <1>7, <1>8, <1>9, <1>10, <1>11 DEF Next, Client

LEMMA NoneLeftOutStep == GatewayInv /\ [Next]_vars => NoneLeftOut'
<1> SUFFICES ASSUME GatewayInv, [Next]_vars, ~ctxDone', ~ctxDone PROVE NoneLeftOut'
    <2>1. ASSUME GatewayInv, [Next]_vars, ~ctxDone' PROVE ~ctxDone
        BY <2>1 DEF Next, vars, httpVars, Client, TrySession, Do, Execute, Send,
            SendNothing, Answered, FinalStatus, RetryStatus, TransportError, CtxEnds,
            SleepDone, SleepCanceled, Finish, RetryOrGiveUp, SessionAccepts,
            SessionFails, AllFailed, Environment, CtxDone, Apply, LateApply, Returned
    <2> QED
        BY <2>1 DEF NoneLeftOut
<1>1. TypeOK /\ AtSession /\ NoneLeftOut
    BY DEF GatewayInv
<1>2. op' = op /\ Sessions' = Sessions /\ Sessions \subseteq Nat
    BY <1>1, SessionsAreNumbers
    DEF Next, vars, httpVars, Client, TrySession, SessionAccepts, SessionFails,
        AllFailed, Returned, Sessions, TypeOK
<1>3. next \in Nat
    BY <1>1 DEF TypeOK
<1>4. sent \subseteq sent'
    BY DEF Next, vars, httpVars, Client, TrySession, Do, Execute, Send,
           SendNothing, Answered, FinalStatus, RetryStatus, TransportError, CtxEnds,
           SleepDone, SleepCanceled, GiveUp, SessionAccepts,
           SessionFails, AllFailed, Environment, CtxDone, Apply, LateApply, Returned
<1>5. \A t : RequestsTo(t) # {} => RequestsTo(t)' # {}
    BY <1>4 DEF RequestsTo
<1> USE <1>1, <1>2, <1>3, <1>5 DEF NoneLeftOut
<1>6. CASE TrySession
    BY <1>6 DEF TrySession, Do
<1>7. CASE Execute /\ UNCHANGED <<op, next, lastErr, result>>
    <2>1. CASE Send
        <3>1. Current \in sent' /\ Current[1] = target /\ target' = target
            BY <2>1 DEF Send, Current
        <3>2. RequestsTo(target)' # {}
            BY <3>1 DEF RequestsTo
        <3> QED
            BY <1>7, <2>1, <3>2 DEF Send
    <2>2. CASE SleepDone
        BY <1>7, <2>2 DEF SleepDone
    <2>3. CASE \/ SendNothing \/ Answered \/ FinalStatus \/ RetryStatus
               \/ TransportError \/ CtxEnds \/ SleepCanceled
        <3>1. pc \in {"flight", "sleep"} /\ target' = target
            BY <2>3 DEF SendNothing, Answered, FinalStatus, RetryStatus, TransportError,
                        CtxEnds, SleepCanceled, Finish, RetryOrGiveUp, GiveUp
        <3> QED
            BY <1>7, <3>1
    <2> QED
        BY <1>7, <2>1, <2>2, <2>3 DEF Execute
<1>8. CASE SessionAccepts
    BY <1>8 DEF SessionAccepts
<1>9. CASE SessionFails
    <2>1. /\ next' = next + 1
          /\ pc = "done" /\ pc' = "idle"
          /\ target = next
        BY <1>9 DEF SessionFails, AtSession
    <2>2. RequestsTo(next) # {} /\ \A t \in Sessions : t < next => RequestsTo(t) # {}
        BY <2>1
    <2>3. \A t \in Sessions : t < next + 1 => t < next \/ t = next
        OBVIOUS
    <2>4. \A t \in Sessions : t < next' => RequestsTo(t)' # {}
        BY <2>1, <2>2, <2>3
    <2> QED
        BY <2>1, <2>4
<1>10. CASE AllFailed
    BY <1>10 DEF AllFailed, httpVars
<1>11. CASE Environment /\ UNCHANGED <<op, next, lastErr, result>>
    <2>1. UNCHANGED <<pc, target>>
        BY <1>11 DEF Environment, CtxDone, Apply, LateApply
    <2> QED
        BY <1>11, <2>1
<1>12. CASE Returned \/ UNCHANGED vars
    BY <1>12 DEF Returned, vars, httpVars
<1> QED
    BY <1>6, <1>7, <1>8, <1>9, <1>10, <1>11, <1>12 DEF Next, Client

LEMMA GatewayInvariance == Spec => []GatewayInv
<1>1. GatewayInv /\ [Next]_vars => GatewayInv'
    BY TypeStep, AtSessionStep, NewRequestsStep, NoneLeftOutStep DEF GatewayInv
<1> QED
    BY <1>1, GatewayInit, PTL DEF Spec

(* SendMessage gives up only when every session has been sent a request,   *)
(* unless its context has ended (the loops over v1Sessions and v2Sessions).*)
THEOREM EverySessionTried == Spec => []FailsOnlyAfterAll
<1>1. GatewayInv => FailsOnlyAfterAll
    <2> SUFFICES ASSUME GatewayInv, result = "error", ~ctxDone, NEW t \in Sessions
                 PROVE  RequestsTo(t) # {}
        BY DEF FailsOnlyAfterAll
    <2>1. next \notin Sessions /\ next \in Nat \ {0} /\ op \in {"message", "group"}
        BY DEF GatewayInv, AtSession, TypeOK
    <2>2. t < next
        BY <2>1, SessionsAreNumbers
    <2> QED
        BY <2>2 DEF GatewayInv, NoneLeftOut
<1> QED
    BY <1>1, GatewayInvariance, PTL

(* Once the context has ended, or a session has accepted, no request goes  *)
(* out any more (Client.execute, SendMessage).                             *)
THEOREM NothingSentAtTheEnd == Spec => QuietAtTheEnd
<1> DEFINE Quiet == ctxDone \/ outcome = "accepted" => sent' = sent
<1>1. GatewayInv /\ [Next]_vars => [Quiet]_vars
    <2> SUFFICES ASSUME GatewayInv, Next, ctxDone \/ outcome = "accepted"
                 PROVE  sent' = sent
        OBVIOUS
    <2>1. AtSession
        BY DEF GatewayInv
    <2>2. ~Send
        BY <2>1 DEF Send, AtSession
    <2> QED
        BY <2>2 DEF Next, vars, httpVars, Client, TrySession, Do, Execute,
           SendNothing, Answered, FinalStatus, RetryStatus, TransportError, CtxEnds,
           SleepDone, SleepCanceled, GiveUp, SessionAccepts,
           SessionFails, AllFailed, Environment, CtxDone, Apply, LateApply, Returned
<1> QED
    BY <1>1, GatewayInvariance, PTL DEF Spec, QuietAtTheEnd

LEMMA GatewayMaps == GatewayInv /\ [Next]_vars => [DM!Next]_DM!vars
<1> SUFFICES ASSUME GatewayInv, [Next]_vars PROVE [DM!Next]_DM!vars
    OBVIOUS
<1> DEFINE Acted == {r[1] : r \in applied}
<1>1. TypeOK /\ AtSession /\ Current \in Requests /\ Current[1] = target
    BY CurrentIsRequest DEF GatewayInv
<1>2. ASSUME UNCHANGED <<applied, result>>
      PROVE  [DM!Next]_DM!vars
    BY <1>2 DEF DM!vars
<1>3. ASSUME NEW r \in Requests, applied' = applied \cup {r}, result' = result
      PROVE  [DM!Next]_DM!vars
    <2>1. Acted' = Acted \cup {r[1]} /\ {r[1]} \in SUBSET Targets
        BY <1>3 DEF Requests
    <2>2. DM!Act
        BY <2>1 DEF DM!Act
    <2> QED
        BY <1>3, <2>2 DEF DM!Next
<1>4. ASSUME applied' = applied
      PROVE  DM!Act
    <2>1. Acted' = Acted \cup {} /\ {} \in SUBSET Targets
        BY <1>4
    <2> QED
        BY <2>1 DEF DM!Act
<1>5. CASE SessionAccepts
    <2>1. applied' = applied /\ result = "none" /\ result' = "nil" /\ Current \in applied
        BY <1>1, <1>5 DEF SessionAccepts, AtSession
    <2>2. target \in Targets /\ {target} \subseteq Acted'
        BY <1>1, <2>1 DEF TypeOK, HttpTypeOK
    <2>3. \E D \in {{t} : t \in Targets} : D \subseteq Acted'
        <3>1. {target} \in {{t} : t \in Targets}
            BY <2>2
        <3> QED
            BY <2>2, <3>1
    <2>4. DM!Act
        BY <1>4, <2>1
    <2>5. DM!Succeed
        BY <2>1, <2>3, <2>4 DEF DM!Succeed
    <2> QED
        BY <2>5 DEF DM!Next
<1>6. CASE AllFailed
    <2>1. applied' = applied /\ result = "none" /\ result' = "error"
        BY <1>6 DEF AllFailed, httpVars
    <2>2. DM!Fail
        BY <1>4, <2>1 DEF DM!Fail
    <2> QED
        BY <2>2 DEF DM!Next
<1>7. CASE Environment /\ UNCHANGED <<op, next, lastErr, result>>
    <2>1. CASE CtxDone
        BY <1>2, <1>7, <2>1 DEF CtxDone
    <2>2. CASE Apply
        BY <1>1, <1>3, <1>7, <2>2 DEF Apply
    <2>3. ASSUME NEW r \in Requests, LateApply(r)
          PROVE  [DM!Next]_DM!vars
        BY <1>3, <1>7, <2>3 DEF LateApply
    <2> QED
        BY <1>7, <2>1, <2>2, <2>3 DEF Environment
<1>8. CASE TrySession \/ SessionFails \/ Returned \/ UNCHANGED vars
    <2>1. UNCHANGED <<applied, result>>
        BY <1>8 DEF TrySession, Do, SessionFails, Returned, vars, httpVars
    <2> QED
        BY <1>2, <2>1
<1>9. CASE Execute /\ UNCHANGED <<op, next, lastErr, result>>
    <2>1. UNCHANGED <<applied, result>>
        BY <1>9 DEF Execute, Send, SendNothing, Answered, FinalStatus, RetryStatus,
           TransportError, CtxEnds, SleepDone, SleepCanceled, GiveUp
    <2> QED
        BY <1>2, <2>1
<1> QED
    BY <1>5, <1>6, <1>7, <1>8, <1>9 DEF Next, Client

LEMMA MessageDelivers == Spec => DM!Spec
BY GatewayInit, GatewayInvariance, GatewayMaps, PTL DEF Spec, DM!Spec

----------------------------------------------------------------------------
(* Multicast.                                                              *)

(* The set of positions up to i, and the positions of a batch in the list. *)
UpTo(i, P) == {j \in P : j <= i}
Shift(f, P) == {f + j : j \in P}

LEMMA CountedAlike ==
    ASSUME NEW P
    PROVE  M!Cardinality(P) = Cardinality(P)
BY DEF M!Cardinality, Cardinality

LEMMA RankCounts ==
    ASSUME NEW i, NEW P
    PROVE  M!Rank(i, P) = Cardinality(UpTo(i, P))
BY CountedAlike DEF M!Rank, UpTo

(* A rank is a number between one and the size of the set, and tells the   *)
(* members apart. *)
LEMMA RankBounds ==
    ASSUME NEW P \in SUBSET Int, IsFiniteSet(P), NEW i \in P
    PROVE  Cardinality(UpTo(i, P)) \in 1..Cardinality(P)
<1>1. UpTo(i, P) \in SUBSET P /\ UpTo(i, P) # {}
    BY DEF UpTo
<1>2. /\ IsFiniteSet(UpTo(i, P)) /\ Cardinality(UpTo(i, P)) \in Nat
      /\ Cardinality(P) \in Nat
      /\ Cardinality(UpTo(i, P)) <= Cardinality(P)
    BY <1>1, FS_Subset, FS_CardinalityType
<1>3. Cardinality(UpTo(i, P)) # 0
    <2> DEFINE U == UpTo(i, P)
    <2>1. U # {} /\ IsFiniteSet(U)
        BY <1>1, <1>2
    <2> HIDE DEF U
    <2>2. Cardinality(U) # 0
        BY <2>1, FS_EmptySet
    <2> QED
        BY <2>2 DEF U
<1>4. ASSUME NEW a \in Nat, NEW b \in Nat, a <= b, a # 0
      PROVE  a \in 1..b
    BY <1>4
<1> QED
    BY <1>2, <1>3, <1>4

LEMMA RankLess ==
    ASSUME NEW P \in SUBSET Int, IsFiniteSet(P), NEW i \in P, NEW k \in P, k < i
    PROVE  Cardinality(UpTo(k, P)) # Cardinality(UpTo(i, P))
<1>0. i \in Int /\ k \in Int /\ P \subseteq Int
    OBVIOUS
<1>1. UpTo(k, P) \in SUBSET UpTo(i, P) /\ UpTo(k, P) # UpTo(i, P)
    <2>1. \A j \in P : j <= k => j <= i
        BY <1>0
    <2>2. i \in UpTo(i, P) /\ i \notin UpTo(k, P)
        BY <1>0 DEF UpTo
    <2>3. UpTo(k, P) \in SUBSET UpTo(i, P)
        BY <2>1 DEF UpTo
    <2> QED
        BY <2>2, <2>3
<1>2. UpTo(i, P) \in SUBSET P
    BY DEF UpTo
<1>3. IsFiniteSet(UpTo(i, P))
    BY <1>2, FS_Subset
<1> QED
    BY <1>1, <1>3, FS_Subset

LEMMA RankTells ==
    ASSUME NEW P \in SUBSET Int, IsFiniteSet(P), NEW i \in P
    PROVE  (CHOOSE k \in P : M!Rank(k, P) = M!Rank(i, P)) = i
<1>1. ASSUME NEW k \in P, k # i
      PROVE  M!Rank(k, P) # M!Rank(i, P)
    <2>1. k < i \/ i < k
        BY <1>1
    <2>2. Cardinality(UpTo(k, P)) # Cardinality(UpTo(i, P))
        BY <2>1, RankLess
    <2> QED
        BY <2>2, RankCounts
<1> QED
    BY <1>1

(* Moving a set along the list changes neither its size nor its ranks.     *)
LEMMA ShiftCounts ==
    ASSUME NEW f \in Int, NEW P \in SUBSET Int, IsFiniteSet(P)
    PROVE  /\ IsFiniteSet(Shift(f, P))
           /\ Cardinality(Shift(f, P)) = Cardinality(P)
<1> DEFINE g == [j \in P |-> f + j]
<1>1. g \in [P -> Shift(f, P)]
    BY DEF Shift
<1>2. \A i, j \in P : g[i] = g[j] => i = j
    OBVIOUS
<1>3. \A t \in Shift(f, P) : \E j \in P : g[j] = t
    BY DEF Shift
<1> HIDE DEF g
<1>4. g \in Bijection(P, Shift(f, P))
    BY <1>1, <1>2, <1>3 DEF Bijection, Injection, Surjection, IsInjective
<1>5. ExistsBijection(P, Shift(f, P))
    BY <1>4 DEF ExistsBijection
<1> QED
    BY <1>5, FS_Bijection

(* A set of earlier positions and a batch behind them. *)
LEMMA BatchBehind ==
    ASSUME NEW f \in Nat, NEW F \in SUBSET (1..f), NEW Q \in SUBSET (Nat \ {0}),
           IsFiniteSet(Q)
    PROVE  /\ IsFiniteSet(F)
           /\ IsFiniteSet(F \cup Shift(f, Q))
           /\ Cardinality(F \cup Shift(f, Q)) = Cardinality(F) + Cardinality(Q)
<1>1. IsFiniteSet(F)
    <2>1. IsFiniteSet(1..f)
        BY FS_Interval
    <2> QED
        BY <2>1, FS_Subset
<1>2. IsFiniteSet(Shift(f, Q)) /\ Cardinality(Shift(f, Q)) = Cardinality(Q)
    BY ShiftCounts
<1>3. F \cap Shift(f, Q) = {}
    <2>1. \A x \in Shift(f, Q) : x > f
        BY DEF Shift
    <2>2. \A x \in F : x \in Int /\ ~ x > f
        OBVIOUS
    <2> QED
        BY <2>1, <2>2
<1>4. Cardinality(F) \in Nat /\ Cardinality(Q) \in Nat
    BY <1>1, FS_CardinalityType
<1> DEFINE H == Shift(f, Q)
<1>5. IsFiniteSet(H) /\ Cardinality(H) = Cardinality(Q) /\ F \cap H = {}
    BY <1>2, <1>3
<1> HIDE DEF H
<1>6. Cardinality(F \cap H) = 0
    BY <1>5, FS_EmptySet
<1>7. /\ IsFiniteSet(F \cup H)
      /\ Cardinality(F \cup H) = Cardinality(F) + Cardinality(H) - Cardinality(F \cap H)
    BY <1>1, <1>5, FS_Union
<1>8. Cardinality(F \cup H) = Cardinality(F) + Cardinality(Q)
    BY <1>4, <1>5, <1>6, <1>7
<1> QED
    BY <1>1, <1>7, <1>8 DEF H

RanksBehind(f, F, Q) ==
    /\ \A i \in F : UpTo(i, F \cup Shift(f, Q)) = UpTo(i, F)
    /\ \A i \in Q : Cardinality(UpTo(f + i, F \cup Shift(f, Q)))
                      = Cardinality(F) + Cardinality(UpTo(i, Q))

LEMMA RankBehind ==
    ASSUME NEW f \in Nat, NEW F \in SUBSET (1..f), NEW Q \in SUBSET (Nat \ {0}),
           IsFiniteSet(Q)
    PROVE  RanksBehind(f, F, Q)
<1>0. \A x \in Shift(f, Q) : x > f
    BY DEF Shift
<1>1. \A i \in F : UpTo(i, F \cup Shift(f, Q)) = UpTo(i, F)
    <2>1. ASSUME NEW i \in F, NEW x \in Shift(f, Q)
          PROVE  ~ x <= i
        <3>1. i \in Nat /\ i <= f
            OBVIOUS
        <3>2. x \in Int
            BY DEF Shift
        <3> QED
            BY <1>0, <3>1, <3>2
    <2> QED
        BY <2>1 DEF UpTo
<1>2. ASSUME NEW i \in Q
      PROVE  Cardinality(UpTo(f + i, F \cup Shift(f, Q)))
               = Cardinality(F) + Cardinality(UpTo(i, Q))
    <2>0. /\ \A x \in F : x <= f + i
          /\ \A b \in Q : f + b <= f + i <=> b <= i
        <3>1. i \in Nat \ {0}
            OBVIOUS
        <3> QED
            BY <3>1
    <2>1. UpTo(f + i, F \cup Shift(f, Q)) = F \cup Shift(f, UpTo(i, Q))
        BY <2>0 DEF UpTo, Shift
    <2>2. UpTo(i, Q) \in SUBSET Q /\ UpTo(i, Q) \in SUBSET (Nat \ {0})
        BY DEF UpTo
    <2>3. IsFiniteSet(UpTo(i, Q))
        BY <2>2, FS_Subset
    <2> DEFINE D == UpTo(i, Q)
    <2>4. D \in SUBSET (Nat \ {0}) /\ IsFiniteSet(D)
        BY <2>2, <2>3
    <2> HIDE DEF D
    <2>5. Cardinality(F \cup Shift(f, D)) = Cardinality(F) + Cardinality(D)
        BY <2>4, BatchBehind
    <2> QED
        BY <2>1, <2>5 DEF D
<1> QED
    BY <1>1, <1>2 DEF RanksBehind

(* The answers so far are those for the positions before from, and the     *)
(* result counts them and names the failed tokens by their rank.           *)
Answers == {"none", "ok", "failed"}

MulticastTyped ==
    /\ tokens \in Lists
    /\ from \in Nat \ {0}
    /\ phase \in {"loop", "flight", "returned"}
    /\ err \in {"none", "nil", "error"}
    /\ fate \in [M!Positions -> Answers]
    /\ report.success \in Nat
    /\ report.failure \in Nat
    /\ report.errors \in Seq({report.errors[i] : i \in DOMAIN report.errors})

Progress ==
    /\ phase = "flight" => from \in M!Positions
    /\ phase # "returned" => err = "none"
    /\ err = "nil" => tokens # <<>> /\ from > Len(tokens)
    /\ \A i \in M!Positions : fate[i] = "none" <=> i >= from

Reported ==
    /\ report.success = Cardinality(M!Fated("ok"))
    /\ report.failure = Cardinality(M!Fated("failed"))
    /\ Len(report.errors) = report.failure
    /\ \A i \in M!Fated("failed") :
          report.errors[M!Rank(i, M!Fated("failed"))] = tokens[i]

MulticastInv == MulticastTyped /\ Progress /\ Reported

LEMMA ListIsSequence ==
    ASSUME MulticastTyped
    PROVE  /\ tokens \in Seq({tokens[i] : i \in DOMAIN tokens})
           /\ Len(tokens) \in Nat
           /\ MaxTokensPerBatch \in Nat \ {0}
<1>1. tokens \in Seq({tokens[i] : i \in DOMAIN tokens})
    BY OutboundAssumption DEF MulticastTyped, M!MulticastAssumption
<1>2. MaxTokensPerBatch \in Nat \ {0}
    BY OutboundAssumption DEF M!MulticastAssumption
<1> QED
    BY <1>1, <1>2

LEMMA MulticastInit == M!Init => MulticastInv
<1> SUFFICES ASSUME M!Init PROVE MulticastInv
    OBVIOUS
<1>1. MulticastTyped
    <2>1. report.errors \in Seq({report.errors[i] : i \in DOMAIN report.errors})
        BY DEF M!Init
    <2> QED
        BY <2>1 DEF M!Init, MulticastTyped, Answers
<1>2. Len(tokens) \in Nat
    BY <1>1, ListIsSequence
<1>3. Progress
    BY <1>2 DEF M!Init, Progress, M!Positions
<1>4. M!Fated("ok") = {} /\ M!Fated("failed") = {}
    BY DEF M!Init, M!Fated
<1>5. Cardinality(M!Fated("ok")) = 0 /\ Cardinality(M!Fated("failed")) = 0
    <2>1. Cardinality({}) = 0
        BY FS_EmptySet
    <2> QED
        BY <1>4, <2>1
<1>6. Reported
    BY <1>4, <1>5 DEF M!Init, Reported
<1> QED
    BY <1>1, <1>3, <1>6 DEF MulticastInv

(* The batch in flight: the tokens of the positions from from on.          *)
LEMMA BatchIsNext ==
    ASSUME MulticastInv, phase = "flight",
           NEW f, f = from - 1, NEW L, L = Len(M!Batch(from))
    PROVE  /\ f \in Nat /\ L \in Nat \ {0} /\ f + L <= Len(tokens)
           /\ L = MaxTokensPerBatch \/ f + L = Len(tokens)
           /\ L <= MaxTokensPerBatch
           /\ \A i \in 1..L : M!Batch(from)[i] = tokens[f + i]
<1> DEFINE last == IF from + MaxTokensPerBatch - 1 > Len(tokens)
                   THEN Len(tokens) ELSE from + MaxTokensPerBatch - 1
           T == {tokens[i] : i \in DOMAIN tokens}
<1>1. tokens \in Seq(T) /\ Len(tokens) \in Nat /\ MaxTokensPerBatch \in Nat \ {0}
    BY ListIsSequence DEF MulticastInv
<1>2. from \in 1..Len(tokens)
    BY DEF MulticastInv, Progress, M!Positions
<1>3. /\ last \in (from - 1)..Len(tokens) /\ from \in 1..(Len(tokens) + 1)
      /\ last >= from /\ last - from + 1 <= MaxTokensPerBatch
      /\ last - from + 1 = MaxTokensPerBatch \/ last = Len(tokens)
    BY <1>1, <1>2
<1>4. M!Batch(from) = SubSeq(tokens, from, last)
    BY DEF M!Batch
<1> HIDE DEF last, T
<1>5. /\ Len(SubSeq(tokens, from, last)) = last - from + 1
      /\ \A i \in 1..(last - from + 1) :
            SubSeq(tokens, from, last)[i] = tokens[from + i - 1]
    BY <1>1, <1>3, SubSeqProperties, SMT
<1>6. L = last - from + 1 /\ f + L = last /\ last \in Int /\ from \in Int
    BY <1>2, <1>3, <1>4, <1>5
<1>7. \A i \in 1..L : f + i = from + i - 1
    BY <1>6
<1> QED
    BY <1>1, <1>2, <1>3, <1>4, <1>5, <1>6, <1>7

(* What Failed gives: the failed tokens of the batch, each at its rank.    *)
InOrder(F, W, batch) ==
    /\ IsFiniteSet(W)
    /\ \E T : F \in Seq(T)
    /\ Len(F) = Cardinality(W)
    /\ \A i \in W : M!Rank(i, W) \in 1..Cardinality(W)
    /\ \A i \in W : F[M!Rank(i, W)] = batch[i]

LEMMA FailedInOrder ==
    ASSUME NEW batch, Len(batch) \in Nat, NEW ok,
           NEW W \in SUBSET (1..Len(batch)), \A i \in 1..Len(batch) : i \in W <=> ~ok[i]
    PROVE  InOrder(M!Failed(batch, ok), W, batch)
<1>1. IsFiniteSet(1..Len(batch))
    BY FS_Interval
<1>2. W \in SUBSET (1..Len(batch)) /\ W \in SUBSET Int
    OBVIOUS
<1>3. IsFiniteSet(W) /\ Cardinality(W) \in Nat
    BY <1>1, <1>2, FS_Subset, FS_CardinalityType
<1> DEFINE F == M!Failed(batch, ok)
           e(n) == batch[CHOOSE i \in W : M!Rank(i, W) = n]
           T == {e(n) : n \in 1..Cardinality(W)}
<1>4. F = [n \in 1..Cardinality(W) |-> e(n)]
    <2>1. W = {i \in 1..Len(batch) : ~ok[i]}
        OBVIOUS
    <2> QED
        BY <2>1, CountedAlike DEF M!Failed
<1>5. ASSUME NEW i \in W
      PROVE  M!Rank(i, W) \in 1..Cardinality(W)
    <2>1. Cardinality(UpTo(i, W)) \in 1..Cardinality(W)
        BY <1>2, <1>3, RankBounds
    <2> QED
        BY <2>1, RankCounts
<1>6. ASSUME NEW i \in W
      PROVE  e(M!Rank(i, W)) = batch[i]
    BY <1>2, <1>3, RankTells
<1>7. \A n \in 1..Cardinality(W) : e(n) \in T
    OBVIOUS
<1> HIDE DEF F, e, T
<1>8. F \in [1..Cardinality(W) -> T]
    BY <1>4, <1>7
<1>9. F \in Seq(T) /\ Len(F) = Cardinality(W)
    <2>1. F \in Seq(T)
        BY <1>3, <1>8, SeqDef
    <2>2. Len(F) \in Nat /\ DOMAIN F = 1..Len(F)
        BY <2>1, LenProperties
    <2>3. 1..Len(F) = 1..Cardinality(W)
        BY <2>2, <1>8
    <2> QED
        BY <2>1, <2>2, <2>3, <1>3
<1>10. \A i \in W : F[M!Rank(i, W)] = batch[i]
    BY <1>4, <1>5, <1>6
<1> QED
    BY <1>3, <1>5, <1>9, <1>10 DEF F, InOrder

(* Two sequences of whatever values, one after the other. *)
Joint(c, s, t) ==
    /\ c \in Seq({c[i] : i \in DOMAIN c})
    /\ Len(c) = Len(s) + Len(t)
    /\ \A i \in 1..Len(s) : c[i] = s[i]
    /\ \A i \in 1..Len(t) : c[Len(s) + i] = t[i]

LEMMA Joined ==
    ASSUME NEW P, NEW T, NEW s \in Seq(P), NEW t \in Seq(T),
           NEW c, c = s \o t
    PROVE  Joint(c, s, t)
<1> DEFINE U == P \cup T
<1>1. s \in Seq(U) /\ t \in Seq(U) /\ Len(s) \in Nat /\ Len(t) \in Nat
    OBVIOUS
<1> HIDE DEF U
<1>2. /\ c \in Seq(U)
      /\ Len(c) = Len(s) + Len(t)
      /\ \A i \in 1..(Len(s) + Len(t)) :
            c[i] = IF i <= Len(s) THEN s[i] ELSE t[i - Len(s)]
    BY <1>1, ConcatProperties, SMT
<1>3. \A i \in 1..Len(t) : /\ Len(s) + i \in 1..(Len(s) + Len(t))
                            /\ ~ Len(s) + i <= Len(s)
                            /\ (Len(s) + i) - Len(s) = i
    BY <1>1
<1>4. \A i \in 1..Len(s) : i \in 1..(Len(s) + Len(t)) /\ i <= Len(s)
    BY <1>1
<1>5. c \in Seq({c[i] : i \in DOMAIN c})
    <2> DEFINE R == {c[i] : i \in DOMAIN c}
    <2>1. DOMAIN c = 1..Len(c) /\ c \in [1..Len(c) -> U] /\ Len(c) \in Nat
        BY <1>2, LenProperties
    <2>2. \A i \in 1..Len(c) : c[i] \in R
        BY <2>1
    <2> HIDE DEF R
    <2>3. c \in [1..Len(c) -> R]
        BY <2>1, <2>2
    <2>4. c \in Seq(R)
        BY <2>1, <2>3, SeqDef
    <2> QED
        BY <2>4 DEF R
<1>6. \A i \in 1..Len(t) : c[Len(s) + i] = t[i]
    BY <1>2, <1>3
<1>7. \A i \in 1..Len(s) : c[i] = s[i]
    BY <1>2, <1>4
<1> QED
    BY <1>2, <1>5, <1>6, <1>7 DEF Joint

(* The answers for a batch are those so far and, behind them, its own.     *)
LEMMA AnswersGrow ==
    ASSUME MulticastInv, phase = "flight", NEW f, f = from - 1,
           NEW L, L = Len(M!Batch(from)), NEW ok \in [1..L -> BOOLEAN],
           tokens' = tokens, from' = from + MaxTokensPerBatch,
           fate' = [i \in M!Positions |->
                      IF i \in from..(from + L - 1)
                      THEN IF ok[i - from + 1] THEN "ok" ELSE "failed"
                      ELSE fate[i]]
    PROVE  /\ fate' \in [M!Positions -> Answers]
           /\ \A i \in M!Positions : fate'[i] = "none" <=> i >= from'
           /\ M!Fated("ok")' = M!Fated("ok") \cup Shift(f, {i \in 1..L : ok[i]})
           /\ M!Fated("failed")' = M!Fated("failed") \cup Shift(f, {i \in 1..L : ~ok[i]})
           /\ M!Fated("ok") \in SUBSET (1..f)
           /\ M!Fated("failed") \in SUBSET (1..f)
<1> DEFINE n == Len(tokens)
           X == MaxTokensPerBatch
<1>1. n \in Nat /\ X \in Nat \ {0} /\ from \in 1..n
    BY ListIsSequence DEF MulticastInv, Progress, M!Positions
<1>2. /\ f \in Nat /\ L \in Nat \ {0} /\ f + L <= n /\ L <= X
      /\ L = X \/ f + L = n
    BY BatchIsNext
<1>3. M!Positions = 1..n /\ M!Positions' = 1..n
    BY DEF M!Positions
<1>4. /\ fate \in [1..n -> Answers]
      /\ \A i \in 1..n : fate[i] = "none" <=> i >= from
    BY <1>3 DEF MulticastInv, MulticastTyped, Progress
<1>5. fate' = [i \in 1..n |-> IF i \in (f + 1)..(f + L)
                               THEN IF ok[i - f] THEN "ok" ELSE "failed"
                               ELSE fate[i]]
    <2>1. from = f + 1 /\ from + L - 1 = f + L
        BY <1>1, <1>2
    <2>2. \A i \in 1..n : i - from + 1 = i - f
        BY <1>1, <2>1
    <2> QED
        BY <1>3, <2>1, <2>2
<1>6. from' = f + 1 + X /\ from = f + 1
    BY <1>1, <1>2
<1> HIDE DEF n, X
<1>7. ASSUME NEW i \in 1..n
      PROVE  /\ fate'[i] \in Answers
             /\ i \in (f + 1)..(f + L) => i - f \in 1..L /\ i = f + (i - f)
             /\ i \notin (f + 1)..(f + L) => fate'[i] = fate[i]
             /\ fate'[i] = "none" <=> i >= from'
             /\ i \in 1..f => i \notin (f + 1)..(f + L) /\ fate[i] # "none"
             /\ fate[i] # "none" => i \in 1..f
    BY <1>1, <1>2, <1>4, <1>5, <1>6, <1>7 DEF Answers
<1>8. ASSUME NEW j \in 1..L
      PROVE  /\ f + j \in 1..n /\ f + j \in (f + 1)..(f + L)
             /\ ok[j] => fate'[f + j] = "ok"
             /\ ~ok[j] => fate'[f + j] = "failed"
    <2>1. f + j \in 1..n /\ f + j \in (f + 1)..(f + L) /\ (f + j) - f = j
        BY <1>1, <1>2
    <2> QED
        BY <1>5, <2>1
<1>9. /\ M!Fated("ok") = {i \in 1..n : fate[i] = "ok"}
      /\ M!Fated("ok")' = {i \in 1..n : fate'[i] = "ok"}
      /\ M!Fated("failed") = {i \in 1..n : fate[i] = "failed"}
      /\ M!Fated("failed")' = {i \in 1..n : fate'[i] = "failed"}
    BY <1>3 DEF M!Fated
<1>10. \A i \in 1..n : i \in (f + 1)..(f + L) =>
          /\ i - f \in 1..L /\ i = f + (i - f)
          /\ fate'[i] = IF ok[i - f] THEN "ok" ELSE "failed"
    BY <1>5, <1>7
<1>11. \A i \in 1..n : fate[i] # "none" => fate'[i] = fate[i]
    BY <1>7
<1>12. \A i \in 1..n : i \notin (f + 1)..(f + L) => fate'[i] = fate[i]
    BY <1>7
<1>13. M!Fated("ok")' = M!Fated("ok") \cup Shift(f, {i \in 1..L : ok[i]})
    <2>1. ASSUME NEW i \in M!Fated("ok")'
          PROVE  i \in M!Fated("ok") \cup Shift(f, {j \in 1..L : ok[j]})
        <3>1. i \in 1..n /\ fate'[i] = "ok"
            BY <1>9, <2>1
        <3>2. CASE i \in (f + 1)..(f + L)
            <4>1. PICK j \in 1..L : i = f + j
                BY <1>10, <3>1, <3>2
            <4>2. fate'[f + j] # "failed"
                BY <3>1, <4>1
            <4>3. ok[j]
                BY <1>8, <4>2
            <4> QED
                BY <4>1, <4>3 DEF Shift
        <3>3. CASE i \notin (f + 1)..(f + L)
            BY <1>9, <1>12, <3>1, <3>3
        <3> QED
            BY <3>2, <3>3
    <2>2. M!Fated("ok") \subseteq M!Fated("ok")'
        BY <1>9, <1>11
    <2>3. Shift(f, {i \in 1..L : ok[i]}) \subseteq M!Fated("ok")'
        <3>1. ASSUME NEW j \in 1..L, ok[j]
              PROVE  f + j \in M!Fated("ok")'
            BY <1>8, <1>9, <3>1
        <3> QED
            BY <3>1 DEF Shift
    <2> QED
        BY <2>1, <2>2, <2>3
<1>14. M!Fated("failed")' = M!Fated("failed") \cup Shift(f, {i \in 1..L : ~ok[i]})
    <2>1. ASSUME NEW i \in M!Fated("failed")'
          PROVE  i \in M!Fated("failed") \cup Shift(f, {j \in 1..L : ~ok[j]})
        <3>1. i \in 1..n /\ fate'[i] = "failed"
            BY <1>9, <2>1
        <3>2. CASE i \in (f + 1)..(f + L)
            <4>1. PICK j \in 1..L : i = f + j
                BY <1>10, <3>1, <3>2
            <4>2. fate'[f + j] # "ok"
                BY <3>1, <4>1
            <4>3. ~ok[j]
                BY <1>8, <4>2
            <4> QED
                BY <4>1, <4>3 DEF Shift
        <3>3. CASE i \notin (f + 1)..(f + L)
            BY <1>9, <1>12, <3>1, <3>3
        <3> QED
            BY <3>2, <3>3
    <2>2. M!Fated("failed") \subseteq M!Fated("failed")'
        BY <1>9, <1>11
    <2>3. Shift(f, {i \in 1..L : ~ok[i]}) \subseteq M!Fated("failed")'
        <3>1. ASSUME NEW j \in 1..L, ~ok[j]
              PROVE  f + j \in M!Fated("failed")'
            BY <1>8, <1>9, <3>1
        <3> QED
            BY <3>1 DEF Shift
    <2> QED
        BY <2>1, <2>2, <2>3
<1>15. fate' \in [1..n -> Answers]
    BY <1>5, <1>7
<1>16. \A i \in 1..n : fate'[i] = "none" <=> i >= from'
    BY <1>7
<1>17. M!Fated("ok") \subseteq 1..f /\ M!Fated("failed") \subseteq 1..f
    BY <1>7, <1>9
<1> QED
    BY <1>3, <1>13, <1>14, <1>15, <1>16, <1>17

LEMMA RespondKeeps == MulticastInv /\ M!Respond => MulticastInv'
<1> SUFFICES ASSUME MulticastInv, M!Respond PROVE MulticastInv'
    OBVIOUS
<1> DEFINE f == from - 1
           batch == M!Batch(from)
           L == Len(batch)
<1>1. PICK ok \in [1..L -> BOOLEAN] :
        /\ report' =
             [success |-> report.success + M!Cardinality({i \in 1..L : ok[i]}),
              failure |-> report.failure + L - M!Cardinality({i \in 1..L : ok[i]}),
              errors  |-> report.errors \o M!Failed(batch, ok)]
        /\ fate' = [i \in M!Positions |->
                      IF i \in from..(from + L - 1)
                      THEN IF ok[i - from + 1] THEN "ok" ELSE "failed"
                      ELSE fate[i]]
        /\ from' = from + MaxTokensPerBatch
    BY DEF M!Respond
<1>2. phase = "flight" /\ phase' = "loop" /\ tokens' = tokens /\ err' = err
    BY DEF M!Respond
<1> DEFINE G == {i \in 1..L : ok[i]}
           W == {i \in 1..L : ~ok[i]}
           O == M!Fated("ok")
           F == M!Fated("failed")
<1>3. /\ f \in Nat /\ L \in Nat \ {0} /\ f + L <= Len(tokens)
      /\ \A i \in 1..L : batch[i] = tokens[f + i]
    BY <1>2, BatchIsNext
<1>4. /\ fate' \in [M!Positions -> Answers]
      /\ \A i \in M!Positions : fate'[i] = "none" <=> i >= from'
      /\ M!Fated("ok")' = O \cup Shift(f, G)
      /\ M!Fated("failed")' = F \cup Shift(f, W)
      /\ O \in SUBSET (1..f) /\ F \in SUBSET (1..f)
    BY <1>1, <1>2, AnswersGrow
<1>5. /\ IsFiniteSet(W)
      /\ \E T : M!Failed(batch, ok) \in Seq(T)
      /\ Len(M!Failed(batch, ok)) = Cardinality(W)
      /\ \A i \in W : M!Rank(i, W) \in 1..Cardinality(W)
      /\ \A i \in W : M!Failed(batch, ok)[M!Rank(i, W)] = batch[i]
    <2>1. /\ W \in SUBSET (1..Len(batch)) /\ Len(batch) \in Nat
          /\ \A i \in 1..Len(batch) : i \in W <=> ~ok[i]
        BY <1>3
    <2> HIDE DEF batch, W, G, L, f, O, F
    <2>2. InOrder(M!Failed(batch, ok), W, batch)
        BY <2>1, FailedInOrder
    <2> QED
        BY <2>2 DEF InOrder
<1>6. /\ IsFiniteSet(G) /\ Cardinality(G) \in Nat /\ Cardinality(W) \in Nat
      /\ Cardinality(G) + Cardinality(W) = L
    <2>1. IsFiniteSet(1..L) /\ Cardinality(1..L) = L
        <3>1. L \in Nat \ {0}
            BY <1>3
        <3> HIDE DEF L
        <3> QED
            BY <3>1, FS_Interval
    <2>2. /\ G \in SUBSET (1..L) /\ G \cup W = 1..L /\ G \cap W = {}
        OBVIOUS
    <2> HIDE DEF G, W, L
    <2>3. IsFiniteSet(G)
        BY <2>1, <2>2, FS_Subset
    <2>4. Cardinality(G) \in Nat /\ Cardinality(W) \in Nat
        BY <1>5, <2>3, FS_CardinalityType
    <2>5. Cardinality({}) = 0
        BY FS_EmptySet
    <2>6. Cardinality(G \cup W) = Cardinality(G) + Cardinality(W) - Cardinality(G \cap W)
        BY <1>5, <2>3, FS_Union
    <2>7. L = Cardinality(G) + Cardinality(W) - 0
        BY <2>1, <2>2, <2>5, <2>6
    <2> QED
        BY <2>3, <2>4, <2>7
<1>7. G \in SUBSET (Nat \ {0}) /\ W \in SUBSET (Nat \ {0})
    OBVIOUS
<1>8. /\ report.success = Cardinality(O) /\ report.failure = Cardinality(F)
      /\ Len(report.errors) = report.failure
      /\ report.success \in Nat /\ report.failure \in Nat
      /\ \A i \in F : report.errors[M!Rank(i, F)] = tokens[i]
      /\ report.errors \in Seq({report.errors[i] : i \in DOMAIN report.errors})
    BY DEF MulticastInv, MulticastTyped, Reported
<1>9. M!Cardinality(G) = Cardinality(G)
    BY CountedAlike
<1>10. /\ report'.success = report.success + Cardinality(G)
       /\ report'.failure = report.failure + Cardinality(W)
       /\ report'.errors = report.errors \o M!Failed(batch, ok)
    <2>1. /\ report'.success = report.success + Cardinality(G)
          /\ report'.failure = report.failure + L - Cardinality(G)
          /\ report'.errors = report.errors \o M!Failed(batch, ok)
        BY <1>1, <1>9
    <2> HIDE DEF G, W, L, batch
    <2> QED
        BY <1>6, <1>8, <2>1
<1> HIDE DEF f, batch, L, G, W, O, F
<1>11. /\ f \in Nat /\ F \in SUBSET (1..f) /\ O \in SUBSET (1..f)
       /\ W \in SUBSET (Nat \ {0}) /\ G \in SUBSET (Nat \ {0})
       /\ IsFiniteSet(W) /\ IsFiniteSet(G)
    BY <1>3, <1>4, <1>5, <1>6, <1>7
<1>18. /\ IsFiniteSet(F)
       /\ Cardinality(O \cup Shift(f, G)) = Cardinality(O) + Cardinality(G)
       /\ Cardinality(F \cup Shift(f, W)) = Cardinality(F) + Cardinality(W)
    <2>1. /\ IsFiniteSet(F)
          /\ Cardinality(F \cup Shift(f, W)) = Cardinality(F) + Cardinality(W)
        BY <1>11, BatchBehind
    <2>2. Cardinality(O \cup Shift(f, G)) = Cardinality(O) + Cardinality(G)
        BY <1>11, BatchBehind
    <2> QED
        BY <2>1, <2>2
<1>12. PICK T : M!Failed(batch, ok) \in Seq(T)
    BY <1>5
<1>13. /\ report'.errors \in Seq({report'.errors[i] : i \in DOMAIN report'.errors})
       /\ Len(report'.errors) = Cardinality(F) + Cardinality(W)
       /\ \A i \in 1..Cardinality(F) : report'.errors[i] = report.errors[i]
       /\ \A i \in 1..Cardinality(W) :
             report'.errors[Cardinality(F) + i] = M!Failed(batch, ok)[i]
    <2> DEFINE s == report.errors
               t == M!Failed(batch, ok)
               c == report'.errors
               P == {report.errors[i] : i \in DOMAIN report.errors}
    <2>1. s \in Seq(P) /\ t \in Seq(T) /\ c = s \o t
        BY <1>8, <1>10, <1>12
    <2>2. Len(s) = Cardinality(F) /\ Len(t) = Cardinality(W)
        BY <1>5, <1>8
    <2> HIDE DEF s, t, c, P
    <2>3. Joint(c, s, t)
        BY <2>1, Joined
    <2>4. /\ c \in Seq({c[i] : i \in DOMAIN c})
          /\ Len(c) = Cardinality(F) + Cardinality(W)
          /\ \A i \in 1..Cardinality(F) : c[i] = s[i]
          /\ \A i \in 1..Cardinality(W) : c[Cardinality(F) + i] = t[i]
        BY <2>2, <2>3 DEF Joint
    <2> QED
        BY <2>4 DEF s, t, c
<1>19. RanksBehind(f, F, W)
    BY <1>11, RankBehind
<1>14. ASSUME NEW i \in F \cup Shift(f, W)
       PROVE  report'.errors[M!Rank(i, F \cup Shift(f, W))] = tokens[i]
    <2>1. CASE i \in F
        <3>1. M!Rank(i, F \cup Shift(f, W)) = M!Rank(i, F)
            <4>1. UpTo(i, F \cup Shift(f, W)) = UpTo(i, F)
                BY <1>19, <2>1 DEF RanksBehind
            <4> QED
                BY <4>1, RankCounts
        <3>2. F \in SUBSET Int
            BY <1>3, <1>4
        <3>3. M!Rank(i, F) \in 1..Cardinality(F)
            BY <1>18, <2>1, <3>2, RankBounds, RankCounts
        <3> QED
            BY <1>8, <1>13, <2>1, <3>1, <3>3
    <2>2. CASE i \in Shift(f, W)
        <3>1. PICK j \in W : i = f + j
            BY <2>2 DEF Shift
        <3>2. M!Rank(i, F \cup Shift(f, W)) = Cardinality(F) + M!Rank(j, W)
            <4>1. Cardinality(UpTo(f + j, F \cup Shift(f, W)))
                    = Cardinality(F) + Cardinality(UpTo(j, W))
                BY <1>19, <3>1 DEF RanksBehind
            <4> QED
                BY <3>1, <4>1, RankCounts
        <3>3. report'.errors[M!Rank(i, F \cup Shift(f, W))] = batch[j]
            BY <1>5, <1>13, <3>1, <3>2
        <3>4. batch[j] = tokens[f + j]
            BY <1>3, <3>1 DEF W
        <3> QED
            BY <3>1, <3>3, <3>4
    <2> QED
        BY <2>1, <2>2
<1>15. MulticastTyped'
    <2>1. M!Positions' = M!Positions
        BY <1>2 DEF M!Positions
    <2>2. from' \in Nat \ {0}
        BY <1>1, ListIsSequence DEF MulticastInv, MulticastTyped
    <2>3. report'.success \in Nat /\ report'.failure \in Nat
        BY <1>6, <1>8, <1>10
    <2>4. tokens' \in Lists /\ err' \in {"none", "nil", "error"}
        BY <1>2 DEF MulticastInv, MulticastTyped
    <2> QED
        BY <1>2, <1>4, <1>13, <2>1, <2>2, <2>3, <2>4 DEF MulticastTyped
<1>16. Progress'
    <2>1. M!Positions' = M!Positions
        BY <1>2 DEF M!Positions
    <2>2. err' = "none"
        BY <1>2 DEF MulticastInv, Progress
    <2> QED
        BY <1>2, <1>4, <2>1, <2>2 DEF Progress
<1>17. Reported'
    <2>1. report'.success = Cardinality(M!Fated("ok")')
        BY <1>4, <1>8, <1>10, <1>18
    <2>2. report'.failure = Cardinality(M!Fated("failed")')
        BY <1>4, <1>8, <1>10, <1>18
    <2>3. Len(report'.errors) = report'.failure
        BY <1>8, <1>10, <1>13
    <2>4. \A i \in M!Fated("failed")' :
            report'.errors[M!Rank(i, M!Fated("failed"))'] = tokens'[i]
        BY <1>2, <1>4, <1>14
    <2> QED
        BY <2>1, <2>2, <2>3, <2>4 DEF Reported
<1> QED
    BY <1>15, <1>16, <1>17 DEF MulticastInv

LEMMA MulticastStep == MulticastInv /\ [M!Next]_M!vars => MulticastInv'
<1> SUFFICES ASSUME MulticastInv, [M!Next]_M!vars PROVE MulticastInv'
    OBVIOUS
<1>1. CASE M!Respond
    BY <1>1, RespondKeeps
<1>2. ASSUME UNCHANGED <<tokens, from, report, fate>>, Progress',
             phase' \in {"loop", "flight", "returned"},
             err' \in {"none", "nil", "error"}
      PROVE  MulticastInv'
    <2>1. M!Positions' = M!Positions
        BY <1>2 DEF M!Positions
    <2>2. M!Fated("ok")' = M!Fated("ok") /\ M!Fated("failed")' = M!Fated("failed")
        BY <1>2, <2>1 DEF M!Fated
    <2>3. MulticastTyped'
        BY <1>2, <2>1 DEF MulticastInv, MulticastTyped
    <2>4. Reported'
        BY <1>2, <2>2 DEF MulticastInv, Reported, M!Rank
    <2> QED
        BY <1>2, <2>3, <2>4 DEF MulticastInv
<1>3. CASE M!Empty
    BY <1>2, <1>3 DEF M!Empty, MulticastInv, MulticastTyped, Progress, M!Positions
<1>4. CASE M!SendBatch
    BY <1>2, <1>4 DEF M!SendBatch, MulticastInv, MulticastTyped, Progress, M!Positions
<1>5. CASE M!BatchFails
    BY <1>2, <1>5 DEF M!BatchFails, MulticastInv, MulticastTyped, Progress, M!Positions
<1>6. CASE M!AllSent
    <2>1. Len(tokens) \in Nat /\ from \in Nat \ {0}
        BY ListIsSequence DEF MulticastInv, MulticastTyped
    <2>2. from > Len(tokens)
        BY <1>6, <2>1 DEF M!AllSent, M!Positions
    <2> QED
        BY <1>2, <1>6, <2>2 DEF M!AllSent, MulticastInv, MulticastTyped, Progress, M!Positions
<1>7. CASE M!Returned \/ UNCHANGED M!vars
    <2>1. UNCHANGED <<tokens, from, phase, report, err, fate>>
        BY <1>7 DEF M!Returned, M!vars
    <2> QED
        BY <1>2, <2>1 DEF MulticastInv, MulticastTyped, Progress, M!Positions
<1> QED
    BY <1>1, <1>3, <1>4, <1>5, <1>6, <1>7 DEF M!Next, M!Step

LEMMA MulticastAccounts == MulticastInv => Accounted
<1> SUFFICES ASSUME MulticastInv PROVE Accounted
    OBVIOUS
<1>1. \A P : M!Cardinality(P) = Cardinality(P)
    BY CountedAlike
<1>2. ASSUME err = "nil"
      PROVE  M!Fated("none") = {} /\ tokens # <<>>
    <2>1. Len(tokens) \in Nat /\ from \in Nat \ {0}
        BY ListIsSequence DEF MulticastInv, MulticastTyped
    <2>2. tokens # <<>> /\ from > Len(tokens)
        BY <1>2 DEF MulticastInv, Progress
    <2>3. \A i \in M!Positions : fate[i] # "none"
        BY <2>1, <2>2 DEF MulticastInv, Progress, M!Positions
    <2> QED
        BY <2>2, <2>3 DEF M!Fated
<1> QED
    BY <1>1, <1>2 DEF MulticastInv, Reported, Accounted, M!Accounted

LEMMA MulticastCounts == M!Spec => [](MulticastInv /\ Accounted)
BY MulticastInit, MulticastStep, MulticastAccounts, PTL DEF M!Spec

----------------------------------------------------------------------------
(* Types of the mail, the task and the delays.                             *)

(* What MailWhole and MailTimed leave open. *)
MailTyped ==
    /\ login \in BOOLEAN /\ canceled \in BOOLEAN
    /\ clock <= NoDeadline
    /\ rcpt \in 1..(Rcpts + 1)
    /\ stage = "returned" => answer # "none"

MailInv == MailTimed /\ MailWhole /\ MailTyped

LEMMA MailTypeStep == MailInv /\ [S!Next]_S!vars => MailTyped'
<1> SUFFICES ASSUME MailInv, [S!Next]_S!vars
             PROVE  MailTyped'
    OBVIOUS
<1>1. Rcpts \in Nat /\ NoDeadline \in Nat
    BY OutboundAssumption DEF S!SmtpSendAssumption
<1> USE <1>1 DEF MailInv, MailWhole, MailTyped
<1>2. CASE S!Dial \/ S!Dialled \/ S!Close
    BY <1>2 DEF S!Dial, S!Dialled, S!Close, S!Goto, S!settings
<1>3. CASE S!Proceed
    <2>1. UNCHANGED <<login, canceled, clock, rcpt>> /\ stage' # "returned"
        BY <1>3 DEF S!Proceed, S!Goto, S!settings, S!After
    <2> QED
        BY <2>1
<1>4. CASE S!Rcpt
    <2>1. UNCHANGED <<login, canceled, clock>> /\ stage' # "returned"
        BY <1>4 DEF S!Rcpt, S!Goto, S!settings
    <2>2. rcpt \in 1..Rcpts /\ rcpt' = rcpt + 1
        BY <1>4 DEF S!Rcpt
    <2> QED
        BY <2>1, <2>2
<1>5. CASE S!Reject \/ S!Quit \/ S!Fails \/ S!DialCanceled
    BY <1>5 DEF S!Reject, S!Quit, S!Fails, S!DialCanceled, S!Return, S!settings
<1>6. CASE S!Tick
    <2>1. /\ UNCHANGED <<login, canceled, rcpt, stage, answer>>
          /\ clock < NoDeadline /\ clock' = clock + 1
        BY <1>6 DEF S!Tick, S!settings
    <2>2. clock \in Nat
        BY DEF MailTimed
    <2> QED
        BY <2>1, <2>2
<1>7. CASE S!Cancel \/ S!Returned \/ UNCHANGED S!vars
    BY <1>7 DEF S!Cancel, S!Returned, S!vars, S!settings
<1> QED
    BY <1>2, <1>3, <1>4, <1>5, <1>6, <1>7 DEF S!Next, S!Mail

LEMMA MailInvariance == S!Spec => []MailInv
<1>1. S!Init => MailTyped
    <2>1. Rcpts \in Nat /\ NoDeadline \in Nat
        BY OutboundAssumption DEF S!SmtpSendAssumption
    <2>2. 0 <= NoDeadline /\ 1 \in 1..(Rcpts + 1)
        BY <2>1
    <2> QED
        BY <2>2 DEF S!Init, MailTyped
<1> QED
    BY <1>1, TimedInit, TimedStep, WholeInit, WholeStep, MailTypeStep, PTL
    DEF S!Spec, MailInv

LEMMA MailTypes == S!Spec => []S!TypeOK
<1>1. MailInv => S!TypeOK
    BY DEF MailInv, MailTimed, MailWhole, MailTyped, S!TypeOK, S!Recipients
<1> QED
    BY <1>1, MailInvariance, PTL

(* The names the tasks of the job may have. *)
TaskPaths ==
    IF named THEN {K!ResolveTaskName(Queue, n) : n \in Names}
    ELSE {<<Queue, i>> : i \in 1..MaxTries}

(* Every name under way is one of them, and the service counts the names.  *)
TaskTyped ==
    /\ named \in BOOLEAN
    /\ call = "create" => path \in TaskPaths
    /\ \A r \in lateTasks : r[2] \in TaskPaths
    /\ known \subseteq TaskPaths
    /\ queued \subseteq known
    /\ IsFiniteSet(known)
    /\ made = Cardinality(known)

LEMMA MakeCounts ==
    ASSUME NEW p \in TaskPaths, TaskTyped, K!Make(p), named' = named
    PROVE  /\ known' \subseteq TaskPaths'
           /\ queued' \subseteq known'
           /\ IsFiniteSet(known')
           /\ made' = Cardinality(known')
           /\ TaskPaths' = TaskPaths
<1>1. TaskPaths' = TaskPaths
    BY DEF TaskPaths, K!ResolveTaskName
<1>2. p \notin known /\ known' = known \cup {p} /\ made' = made + 1
      /\ queued' = queued \cup {p}
    BY DEF K!Make
<1>3. IsFiniteSet(known \cup {p}) /\ Cardinality(known \cup {p}) = Cardinality(known) + 1
    BY <1>2, FS_AddElement DEF TaskTyped
<1> QED
    BY <1>1, <1>2, <1>3 DEF TaskTyped

LEMMA TaskTypeStep == TaskCounted /\ TaskTyped /\ [K!Next]_K!vars => TaskTyped'
<1> SUFFICES ASSUME TaskCounted, TaskTyped, [K!Next]_K!vars
             PROVE  TaskTyped'
    OBVIOUS
<1>1. named' = named => TaskPaths' = TaskPaths
    BY DEF TaskPaths, K!ResolveTaskName
<1>2. ASSUME NEW name \in Names \cup {NoName}, NEW f \in Flaws, K!Create(name, f)
      PROVE  TaskTyped'
    <2>1. K!BuildTask(name) \in TaskPaths
        <3>1. CASE named
            <4>1. name \in Names
                BY <1>2, <3>1 DEF K!Create
            <4> QED
                BY <3>1, <4>1 DEF K!BuildTask, TaskPaths
        <3>2. CASE ~named
            <4>1. tries + 1 \in 1..MaxTries
                BY <1>2, OutboundAssumption DEF K!CloudTaskAssumption, K!Create, TaskCounted
            <4> QED
                BY <3>2, <4>1 DEF K!BuildTask, K!Fresh, TaskPaths
        <3> QED
            BY <3>1, <3>2
    <2>2. /\ UNCHANGED <<named, known, queued, made, lateTasks>>
          /\ UNCHANGED <<call, path>> \/ path' = K!BuildTask(name)
        BY <1>2 DEF K!Create
    <2> QED
        BY <1>1, <2>1, <2>2 DEF TaskTyped
<1>3. CASE K!CreateReturns
    <2>1. K!Make(path) /\ path \in TaskPaths /\ call' = "none" /\ UNCHANGED <<named, lateTasks>>
        BY <1>3 DEF K!CreateReturns, TaskTyped
    <2> QED
        BY <2>1, MakeCounts DEF TaskTyped
<1>4. CASE K!CreateFails
    <2>1. path \in TaskPaths /\ call' = "none" /\ named' = named
        BY <1>4 DEF K!CreateFails, TaskTyped
    <2>2. CASE UNCHANGED <<known, queued, made, lateTasks>>
        BY <1>1, <2>1, <2>2 DEF TaskTyped
    <2>3. CASE K!Make(path) /\ UNCHANGED lateTasks
        BY <2>1, <2>3, MakeCounts DEF TaskTyped
    <2>4. CASE /\ lateTasks' = lateTasks \cup {<<tries, path>>}
               /\ UNCHANGED <<known, queued, made>>
        BY <1>1, <2>1, <2>4 DEF TaskTyped
    <2> QED
        BY <1>4, <2>2, <2>3, <2>4 DEF K!CreateFails
<1>5. ASSUME NEW r \in lateTasks, K!LateCreate(r)
      PROVE  TaskTyped'
    <2>1. /\ K!Make(r[2]) /\ r[2] \in TaskPaths /\ lateTasks' \subseteq lateTasks
          /\ UNCHANGED <<named, call, path>>
        BY <1>5 DEF K!LateCreate, TaskTyped
    <2> QED
        BY <2>1, MakeCounts DEF TaskTyped
<1>6. CASE K!Run \/ K!Delete
    <2>1. queued' \subseteq queued /\ UNCHANGED <<named, call, path, known, made, lateTasks>>
        BY <1>6 DEF K!Run, K!Delete
    <2> QED
        BY <1>1, <2>1 DEF TaskTyped
<1>7. CASE K!GivesUp \/ UNCHANGED K!vars
    <2>1. UNCHANGED <<named, call, path, known, queued, made, lateTasks>>
        BY <1>7 DEF K!GivesUp, K!vars
    <2> QED
        BY <1>1, <2>1 DEF TaskTyped
<1> QED
    BY <1>2, <1>3, <1>4, <1>5, <1>6, <1>7 DEF K!Next, K!Client

LEMMA TaskTypes == K!Spec => []K!TypeOK
<1>1. K!Init => TaskTyped
    <2>1. IsFiniteSet({}) /\ Cardinality({}) = 0
        BY FS_EmptySet
    <2> QED
        BY <2>1 DEF K!Init, TaskTyped
<1>2. \A P : K!Cardinality(P) = Cardinality(P)
    BY DEF K!Cardinality, Cardinality
<1>3. TaskCounted /\ TaskTyped => K!TypeOK
    <2> SUFFICES ASSUME TaskCounted, TaskTyped PROVE K!TypeOK
        OBVIOUS
    <2>1. tries \in 0..MaxTries
        BY OutboundAssumption DEF TaskCounted, K!CloudTaskAssumption
    <2> QED
        BY <1>2, <2>1 DEF TaskCounted, TaskTyped, TaskPaths, K!TypeOK
<1> QED
    BY <1>1, <1>3, CountedInit, CountedStep, TaskTypeStep, PTL DEF K!Spec

(* What the proof systems behind these proofs do not know of powers.       *)
PowersAreNatural == \A b, n \in Nat : b ^ n \in Nat /\ (b # 0 => b ^ n # 0)

(* Every delay of the backoff is a natural number, on either platform.     *)
LEMMA BackoffIsDelay ==
    ASSUME PowersAreNatural, B!TypeOK, NEW draw \in Draws,
           NEW d \in B!Backoff(cfg, turn, draw)
    PROVE  d \in Nat
<1>1. /\ cfg.initialDelay \in Nat /\ cfg.multiplier \in Nat /\ cfg.jitter \in Nat
      /\ cfg.maxDelay \in Nat /\ turn \in Nat \ {0}
    BY DEF B!TypeOK
<1>2. MaxDuration \in Nat /\ draw \in Int
    BY OutboundAssumption DEF B!BackoffAssumption
<1>3. B!Grown(cfg, turn) \in Int
    <2>1. turn - 1 \in Nat
        BY <1>1
    <2>2. cfg.multiplier ^ (turn - 1) \in Nat /\ 10 ^ (turn - 1) \in Nat \ {0}
        BY <1>1, <2>1 DEF PowersAreNatural
    <2>3. \A a, p \in Nat, q \in Nat \ {0} : (a * p) \div q \in Int
        OBVIOUS
    <2> QED
        BY <1>1, <2>2, <2>3 DEF B!Grown
<1>4. \A e \in B!Converted(B!Grown(cfg, turn)) : e \in Int
    BY <1>2, <1>3 DEF B!Converted
<1>5. \A x \in Int : B!Wrapped(x) \in Int
    BY <1>2 DEF B!Wrapped
<1>6. \A x \in Int : B!Quotient(x, 10000) \in Int
    BY DEF B!Quotient
<1>7. \A e \in Int : B!Jittered(cfg, B!Least(e, cfg.maxDelay), draw) \in Int
    <2>1. ASSUME NEW e \in Int
          PROVE  B!Jittered(cfg, e, draw) \in Int
        <3>1. draw * cfg.jitter * e \in Int
            BY <1>1, <1>2
        <3>2. e + B!Quotient(draw * cfg.jitter * e, 10000) \in Int
            BY <1>6, <3>1
        <3> QED
            BY <1>5, <3>2 DEF B!Jittered
    <2> QED
        BY <1>1, <2>1 DEF B!Least
<1>8. \A e \in B!Converted(B!Grown(cfg, turn)) :
        (IF B!Jittered(cfg, B!Least(e, cfg.maxDelay), draw) < 0 THEN 0
         ELSE B!Jittered(cfg, B!Least(e, cfg.maxDelay), draw)) \in Nat
    BY <1>4, <1>7
<1> QED
    BY <1>8 DEF B!Backoff

LEMMA BackoffTypeStep ==
    ASSUME PowersAreNatural, B!TypeOK, [B!Next]_B!vars
    PROVE  B!TypeOK'
<1>1. /\ MaxDuration \in Nat
      /\ \A h \in Headers : h.value \in Int
    BY OutboundAssumption DEF B!BackoffAssumption
<1>2. ASSUME NEW why \in {"backoff", "header"}, NEW D \in SUBSET Nat, B!Delay(why, D),
             asked' \in Nat
      PROVE  B!TypeOK'
    <2>1. turn' \in 1..cfg.maxAttempts
        BY <1>2 DEF B!TypeOK, B!Delay
    <2> QED
        BY <1>2, <2>1 DEF B!TypeOK, B!Delay
<1>3. CASE B!AfterTransportError
    <2>1. PICK draw \in Draws : B!Delay("backoff", B!Backoff(cfg, turn, draw))
        BY <1>3 DEF B!AfterTransportError
    <2>2. B!Backoff(cfg, turn, draw) \in SUBSET Nat
        BY BackoffIsDelay
    <2>3. asked' \in Nat
        BY <1>3 DEF B!AfterTransportError
    <2> QED
        BY <1>2, <2>1, <2>2, <2>3
<1>4. ASSUME NEW h \in Headers, B!AfterStatus(h)
      PROVE  B!TypeOK'
    <2>1. asked' \in Nat
        BY <1>1, <1>4 DEF B!AfterStatus
    <2>2. CASE B!RetryAfter(h) > 0 /\ B!Delay("header", {B!RetryAfter(h)})
        <3>1. 100 * h.value \in Int
            BY <1>1
        <3>2. B!RetryAfter(h) \in Int
            BY <1>1, <3>1 DEF B!RetryAfter, B!Wrapped, B!Least
        <3>3. {B!RetryAfter(h)} \in SUBSET Nat
            BY <2>2, <3>2
        <3> QED
            BY <1>2, <2>1, <2>2, <3>3
    <2>3. CASE \E draw \in Draws : B!Delay("backoff", B!Backoff(cfg, turn, draw))
        <3>1. PICK draw \in Draws : B!Delay("backoff", B!Backoff(cfg, turn, draw))
            BY <2>3
        <3>2. B!Backoff(cfg, turn, draw) \in SUBSET Nat
            BY BackoffIsDelay
        <3> QED
            BY <1>2, <2>1, <3>1, <3>2
    <2> QED
        BY <1>4, <2>2, <2>3 DEF B!AfterStatus
<1>5. CASE UNCHANGED B!vars
    BY <1>5 DEF B!vars, B!TypeOK
<1> QED
    BY <1>3, <1>4, <1>5 DEF B!Next, B!Spent

LEMMA BackoffTypes == PowersAreNatural => (B!Spec => []B!TypeOK)
<1> SUFFICES ASSUME PowersAreNatural PROVE B!Spec => []B!TypeOK
    OBVIOUS
<1>1. B!Init => B!TypeOK
    <2> SUFFICES ASSUME B!Init PROVE B!TypeOK
        OBVIOUS
    <2>1. given \in [maxAttempts : Int, initialDelay : Int, maxDelay : Int,
                     multiplier : Int, jitter : Int]
        BY OutboundAssumption DEF B!BackoffAssumption, B!Init
    <2>2. \A f \in {"maxAttempts", "initialDelay", "maxDelay"} :
            B!OrDefault(given, f) \in Nat \ {0}
        BY <2>1 DEF B!OrDefault, B!DefaultConfig
    <2>3. cfg \in [maxAttempts : Nat \ {0}, initialDelay : Nat \ {0}, maxDelay : Nat \ {0},
                   multiplier : Nat \ (0..10), jitter : Nat]
        BY <2>1, <2>2 DEF B!Init, B!WithDefaults, B!DefaultConfig
    <2> QED
        BY <2>3 DEF B!Init, B!TypeOK
<1>2. B!TypeOK /\ [B!Next]_B!vars => B!TypeOK'
    BY BackoffTypeStep
<1> QED
    BY <1>1, <1>2, PTL DEF B!Spec

(* The client never comes back before the time a service asks for, if a    *)
(* duration can hold what any service asks for (retryAfterDelay).          *)
LEMMA RespectStep ==
    ASSUME PowersAreNatural, \A h \in Headers : 100 * h.value <= MaxDuration,
           B!TypeOK, B!RetryAfterRespected, [B!Next]_B!vars
    PROVE  B!RetryAfterRespected'
<1>1. /\ MaxDuration \in Nat
      /\ \A h \in Headers : h.value \in Int /\ h.form \in {"none", "seconds", "date"}
    BY OutboundAssumption DEF B!BackoffAssumption
<1>2. B!TypeOK'
    BY BackoffTypeStep
<1>3. CASE B!AfterTransportError
    <2>1. asked' = 0 /\ wait' \in Nat
        BY <1>2, <1>3 DEF B!AfterTransportError, B!TypeOK
    <2> QED
        BY <2>1 DEF B!RetryAfterRespected
<1>4. ASSUME NEW h \in Headers, B!AfterStatus(h)
      PROVE  B!RetryAfterRespected'
    <2>1. h.value \in Int /\ 100 * h.value <= MaxDuration
        BY <1>1
    <2>2. asked' = IF h.form # "none" /\ h.value > 0 THEN h.value ELSE 0
        BY <1>4 DEF B!AfterStatus
    <2>3. wait' \in Nat
        BY <1>2 DEF B!TypeOK
    <2>4. CASE h.form # "none" /\ h.value > 0
        <3>1. B!Wrapped(100 * h.value) = 100 * h.value
            <4> DEFINE x == 100 * h.value
            <4>1. x \in Nat /\ x <= MaxDuration
                BY <2>1, <2>4
            <4> HIDE DEF x
            <4>2. (x + MaxDuration + 1) % (2 * MaxDuration + 2) = x + MaxDuration + 1
                BY <1>1, <4>1
            <4>3. B!Wrapped(x) = x
                BY <1>1, <4>1, <4>2 DEF B!Wrapped
            <4> QED
                BY <4>3 DEF x
        <3>2. B!RetryAfter(h) = 100 * h.value
            BY <1>1, <2>1, <2>4, <3>1 DEF B!RetryAfter, B!Least
        <3>3. wait' = 100 * h.value
            BY <1>4, <2>1, <2>4, <3>2 DEF B!AfterStatus, B!Delay
        <3> QED
            BY <2>1, <2>2, <2>4, <3>3 DEF B!RetryAfterRespected
    <2>5. CASE ~(h.form # "none" /\ h.value > 0)
        BY <2>2, <2>3, <2>5 DEF B!RetryAfterRespected
    <2> QED
        BY <2>4, <2>5
<1>5. CASE UNCHANGED B!vars
    BY <1>5 DEF B!vars, B!RetryAfterRespected
<1> QED
    BY <1>3, <1>4, <1>5 DEF B!Next, B!Spent

(* What a quotient is.                                                     *)
LEMMA Quotients ==
    ASSUME NEW d \in Nat \ {0}, NEW x \in Nat
    PROVE  x \div d \in Nat /\ d * (x \div d) <= x /\ x < d * (x \div d) + d
OBVIOUS

(* What else these proofs need of powers: a larger base has the larger      *)
(* power.                                                                  *)
PowersGrow == \A a, b, n \in Nat : a <= b => a ^ n <= b ^ n

(* The exponential of every delay before the last attempt, and the cap     *)
(* with its jitter, are durations, for everything a user gives.            *)
DurationsHold ==
    \A g \in Given :
        LET c == B!WithDefaults(g)
        IN  /\ (100 + c.jitter) * c.maxDelay <= 100 * MaxDuration
            /\ \A n \in 1..(c.maxAttempts - 1) : B!Grown(c, n) <= MaxDuration

(* What jitter adds or takes away is within jitter percent of the delay.   *)
Percent(q, p) == q \in Int /\ 100 * q <= p /\ -p <= 100 * q

DrawnPercent(draw, p) == Percent(B!Quotient(draw * p, 10000), p)

LEMMA QuotientBounded ==
    ASSUME NEW draw \in -100..100, NEW p \in Nat
    PROVE  DrawnPercent(draw, p)
<1> DEFINE x == draw * p
<1>1. x \in Int /\ x <= 100 * p /\ -(100 * p) <= x
    <2>1. CASE draw >= 0
        <3> DEFINE k == 100 - draw
        <3>1. k \in Nat /\ draw + k = 100
            BY <2>1
        <3> HIDE DEF k
        <3>2. (draw + k) * p = draw * p + k * p /\ k * p \in Nat /\ draw * p \in Nat
            BY <2>1, <3>1
        <3> QED
            BY <3>1, <3>2
    <2>2. CASE draw < 0
        <3> DEFINE k == 100 + draw
        <3>1. k \in Nat /\ k - draw = 100
            BY <2>2
        <3> HIDE DEF k
        <3>2. /\ (k - draw) * p = k * p - draw * p /\ k * p \in Nat
              /\ draw * p = -((-draw) * p) /\ (-draw) * p \in Nat
            BY <2>2, <3>1
        <3> QED
            BY <3>1, <3>2
    <2> QED
        BY <2>1, <2>2
<1> HIDE DEF x
<1>2. CASE x >= 0
    <2>1. x \div 10000 \in Nat /\ 10000 * (x \div 10000) <= x
        BY <1>1, <1>2, Quotients
    <2>2. B!Quotient(x, 10000) = x \div 10000
        BY <1>2 DEF B!Quotient
    <2> QED
        BY <1>1, <2>1, <2>2 DEF x, Percent, DrawnPercent
<1>3. CASE x < 0
    <2>1. (-x) \div 10000 \in Nat /\ 10000 * ((-x) \div 10000) <= -x
        BY <1>1, <1>3, Quotients
    <2>2. B!Quotient(x, 10000) = -((-x) \div 10000)
        BY <1>1, <1>3 DEF B!Quotient
    <2> QED
        BY <1>1, <2>1, <2>2 DEF x, Percent, DrawnPercent
<1> QED
    BY <1>1, <1>2, <1>3

(* What fits a duration is not wrapped.                                    *)
LEMMA FitsDuration ==
    ASSUME MaxDuration \in Nat, NEW x \in Int, x <= MaxDuration, -MaxDuration <= x
    PROVE  B!Wrapped(x) = x
<1>1. (x + MaxDuration + 1) % (2 * MaxDuration + 2) = x + MaxDuration + 1
    OBVIOUS
<1> QED
    BY <1>1 DEF B!Wrapped

(* The exponential is at least the first delay.                            *)
LEMMA GrownIsDelay ==
    ASSUME PowersAreNatural, PowersGrow, B!TypeOK, NEW n \in Nat \ {0}
    PROVE  B!Grown(cfg, n) \in Nat /\ cfg.initialDelay <= B!Grown(cfg, n)
<1> DEFINE i == cfg.initialDelay
           q == cfg.multiplier ^ (n - 1)
           t == 10 ^ (n - 1)
<1>1. /\ i \in Nat /\ cfg.multiplier \in Nat /\ 10 <= cfg.multiplier
      /\ n - 1 \in Nat
    BY DEF B!TypeOK
<1>2. q \in Nat /\ t \in Nat \ {0} /\ t <= q
    <2> DEFINE b == cfg.multiplier
               m == n - 1
    <2>1. b \in Nat /\ 10 <= b /\ m \in Nat
        BY <1>1
    <2> HIDE DEF b, m
    <2>2. b ^ m \in Nat /\ 10 ^ m \in Nat /\ 10 ^ m # 0
        BY <2>1 DEF PowersAreNatural
    <2>3. 10 ^ m <= b ^ m
        BY <2>1 DEF PowersGrow
    <2> QED
        BY <2>2, <2>3 DEF b, m
<1>3. B!Grown(cfg, n) = (i * q) \div t
    BY DEF B!Grown
<1> HIDE DEF i, q, t
<1> DEFINE k == q - t
<1>4. k \in Nat /\ q = t + k
    BY <1>2
<1> HIDE DEF k
<1> DEFINE x == i * q
           y == i * t
<1>5. x \in Nat /\ y \in Nat /\ y <= x
    <2>1. i * (t + k) = i * t + i * k /\ i * k \in Nat /\ i * t \in Nat
        BY <1>1, <1>2, <1>4
    <2> QED
        BY <1>4, <2>1
<1>6. x \div t \in Nat /\ x < t * (x \div t) + t
    BY <1>2, <1>5, Quotients
<1>7. i <= x \div t
    <2> DEFINE e == x \div t
    <2>1. e \in Nat /\ x < t * e + t /\ y = t * i
        BY <1>1, <1>2, <1>6
    <2> HIDE DEF x, y, e
    <2>2. SUFFICES ASSUME ~(i <= e) PROVE FALSE
        BY DEF e
    <2> DEFINE m == i - (e + 1)
    <2>3. m \in Nat /\ i = e + 1 + m
        BY <1>1, <2>1, <2>2
    <2> HIDE DEF m
    <2>4. t * (e + 1 + m) = t * e + t + t * m /\ t * m \in Nat /\ t * e \in Nat
        BY <1>2, <2>1, <2>3
    <2> QED
        BY <1>2, <1>5, <2>1, <2>3, <2>4
<1> QED
    BY <1>3, <1>6, <1>7 DEF i, x

(* What backoffDelay answers is within the jitter of the exponential, up   *)
(* to the cap.                                                             *)
NearCurve(d, n) ==
    LET curve == B!Least(B!Grown(cfg, n), cfg.maxDelay)
    IN  /\ d \in Nat
        /\ 100 * B!Distance(d, curve) <= cfg.jitter * curve
        /\ 100 * d <= (100 + cfg.jitter) * cfg.maxDelay
        /\ cfg.jitter <= 99 => d > 0

LEMMA BackoffIsNear ==
    ASSUME PowersAreNatural, PowersGrow, DurationsHold, B!TypeOK,
           cfg = B!WithDefaults(given), turn < cfg.maxAttempts,
           NEW draw \in Draws, NEW d \in B!Backoff(cfg, turn, draw)
    PROVE  NearCurve(d, turn)
<1> DEFINE j == cfg.jitter
           m == cfg.maxDelay
           e == B!Grown(cfg, turn)
           c == B!Least(e, m)
           p == j * c
           q == B!Quotient(draw * p, 10000)
<1>1. MaxDuration \in Nat /\ draw \in -100..100
    BY OutboundAssumption DEF B!BackoffAssumption
<1>2. j \in Nat /\ m \in Nat \ {0} /\ turn \in 1..(cfg.maxAttempts - 1) /\ given \in Given
    BY DEF B!TypeOK
<1>3. e \in Nat \ {0}
    <2>1. turn \in Nat \ {0} /\ cfg.initialDelay \in Nat \ {0}
        BY <1>2 DEF B!TypeOK
    <2> QED
        BY <2>1, GrownIsDelay
<1>4. (100 + j) * m <= 100 * MaxDuration /\ e <= MaxDuration
    BY <1>2 DEF DurationsHold
<1>5. c \in Nat \ {0} /\ c <= m
    BY <1>2, <1>3 DEF B!Least
<1>6. B!Converted(e) = {e}
    BY <1>4 DEF B!Converted
<1>7. d = IF B!Jittered(cfg, c, draw) < 0 THEN 0 ELSE B!Jittered(cfg, c, draw)
    BY <1>6 DEF B!Backoff
<1>8. B!Jittered(cfg, c, draw) = B!Wrapped(c + q)
    <2>1. draw * j * c = draw * (j * c)
        BY <1>1, <1>2, <1>5
    <2> QED
        BY <2>1 DEF B!Jittered
<1> HIDE DEF j, m, e, c
<1>9. p \in Nat
    BY <1>2, <1>5
<1> HIDE DEF p
<1>10. q \in Int /\ 100 * q <= p /\ -p <= 100 * q
    <2>1. DrawnPercent(draw, p)
        BY <1>1, <1>9, QuotientBounded
    <2>2. Percent(q, p)
        BY <2>1 DEF DrawnPercent
    <2> HIDE DEF q
    <2> QED
        BY <2>2 DEF Percent
<1>11. 100 * c + p <= (100 + j) * m
    <2> DEFINE k == m - c
    <2>1. k \in Nat /\ m = c + k
        BY <1>2, <1>5
    <2> HIDE DEF k
    <2>2. /\ (100 + j) * (c + k) = 100 * c + j * c + 100 * k + j * k
          /\ j * k \in Nat
        BY <1>2, <1>5, <2>1
    <2>3. (100 + j) * m = 100 * c + p + 100 * k + j * k
        BY <2>1, <2>2 DEF p
    <2> DEFINE r == j * k
    <2> HIDE DEF r
    <2> QED
        BY <1>5, <1>9, <2>1, <2>2, <2>3 DEF r
<1> DEFINE top == (100 + j) * m
<1>12. top \in Nat
    BY <1>2
<1> HIDE DEF q, top
<1>13. c + q <= MaxDuration /\ -MaxDuration <= c + q
    BY <1>1, <1>4, <1>5, <1>9, <1>10, <1>11, <1>12 DEF top
<1>14. d = IF c + q < 0 THEN 0 ELSE c + q
    BY <1>1, <1>5, <1>7, <1>8, <1>10, <1>13, FitsDuration
<1>15. 100 * B!Distance(d, c) <= p
    BY <1>5, <1>9, <1>10, <1>14 DEF B!Distance
<1>16. d \in Nat /\ 100 * d <= top
    BY <1>5, <1>9, <1>10, <1>11, <1>12, <1>14 DEF top
<1>17. ASSUME j <= 99 PROVE d > 0
    <2>1. p + c <= 100 * c
        <3> DEFINE k == 99 - j
        <3>1. k \in Nat /\ j + k = 99
            BY <1>2, <1>17
        <3> HIDE DEF k
        <3>2. (j + k) * c = j * c + k * c /\ k * c \in Nat
            BY <1>2, <1>5, <3>1
        <3> QED
            BY <1>5, <1>9, <3>1, <3>2 DEF p
    <2> QED
        BY <1>5, <1>9, <1>10, <1>14, <2>1
<1> QED
    BY <1>15, <1>16, <1>17 DEF NearCurve, p, top, j, m, e, c

(* The configuration in force is the one made of what the user gave, and   *)
(* a backoff, once waited, was near the curve.                             *)
BackoffInv ==
    /\ B!TypeOK
    /\ cfg = B!WithDefaults(given)
    /\ cause = "backoff" => NearCurve(wait, turn - 1)
    /\ cause = "header" => wait > 0

LEMMA BackoffInvStep ==
    ASSUME PowersAreNatural, PowersGrow, DurationsHold, BackoffInv, [B!Next]_B!vars
    PROVE  BackoffInv'
<1>1. B!TypeOK /\ B!TypeOK'
    BY BackoffTypeStep DEF BackoffInv
<1>2. ASSUME NEW draw \in Draws, B!Delay("backoff", B!Backoff(cfg, turn, draw))
      PROVE  BackoffInv'
    <2>1. NearCurve(wait', turn)
        BY <1>1, <1>2, BackoffIsNear DEF BackoffInv, B!Delay
    <2>2. turn' - 1 = turn /\ cfg' = cfg /\ given' = given /\ cause' = "backoff"
        BY <1>1, <1>2 DEF B!Delay, B!TypeOK
    <2>3. NearCurve(wait, turn - 1)'
        BY <2>1, <2>2 DEF NearCurve, B!Grown
    <2> QED
        BY <1>1, <2>2, <2>3 DEF BackoffInv
<1>3. ASSUME NEW h \in Headers, B!RetryAfter(h) > 0, B!Delay("header", {B!RetryAfter(h)})
      PROVE  BackoffInv'
    BY <1>1, <1>3 DEF BackoffInv, B!Delay
<1>4. CASE UNCHANGED B!vars
    BY <1>1, <1>4 DEF BackoffInv, B!vars, NearCurve, B!Grown
<1>5. CASE B!AfterTransportError
    BY <1>2, <1>5 DEF B!AfterTransportError
<1>6. ASSUME NEW h \in Headers, B!AfterStatus(h) PROVE BackoffInv'
    BY <1>2, <1>3, <1>6 DEF B!AfterStatus
<1> QED
    BY <1>4, <1>5, <1>6 DEF B!Next, B!Spent

----------------------------------------------------------------------------
(* MailMessage.                                                            *)

(* A mail is what build makes of the message. *)
MailOf(last) ==
    /\ last \in A!LastSpelled(message)
    /\ mail = [header |-> A!Header(message, last), body |-> A!Body(message)]
    /\ envelope = A!Recipients(message)

MessageBuilt ==
    /\ message \in Messages
    /\ built = "nil" => \E last : MailOf(last)

LEMMA BuildStep == MessageBuilt /\ [A!Next]_A!vars => MessageBuilt'
<1> SUFFICES ASSUME MessageBuilt, [A!Next]_A!vars
             PROVE  MessageBuilt'
    OBVIOUS
<1>1. CASE A!Build
    <2>1. message' = message /\ envelope' = A!Recipients(message)
        BY <1>1 DEF A!Build
    <2>2. PICK last \in A!LastSpelled(message) :
            mail' = [header |-> A!Header(message, last), body |-> A!Body(message)]
        BY <1>1 DEF A!Build
    <2>3. MailOf(last)'
        <3>1. A!LastSpelled(message)' = A!LastSpelled(message')
            BY DEF A!LastSpelled, A!Named
        <3>2. (A!Header(message, last))' = A!Header(message', last)
            OBVIOUS
        <3> QED
            BY <2>1, <2>2, <3>1 DEF MailOf
    <2> QED
        BY <2>1, <2>3 DEF MessageBuilt
<1>2. CASE A!BuildFails
    BY <1>2 DEF A!BuildFails, MessageBuilt
<1>3. CASE UNCHANGED A!vars
    BY <1>3 DEF A!vars, MessageBuilt, MailOf
<1> QED
    BY <1>1, <1>2, <1>3 DEF A!Next

(* What a Message of the caller is. *)
LEMMA MessageIsSendable ==
    ASSUME NEW m \in Messages
    PROVE  /\ A!IsList(m.to) /\ A!IsList(m.cc) /\ A!IsList(m.bcc)
           /\ A!IsList(m.attachments)
           /\ \A i \in 1..Len(m.attachments) : m.attachments[i].size \in Nat
           /\ m.text # "" \/ m.html # ""
           /\ LineLength \in Nat \ {0}
BY OutboundAssumption DEF A!MailMessageAssumption

(* The header names the type of the body, and the encoding of a body of    *)
(* one part. *)
LEMMA HeaderLabels ==
    ASSUME NEW m, NEW last
    PROVE  /\ A!Header(m, last)["Content-Type"] = <<A!Body(m).type>>
           /\ "enc" \in DOMAIN A!Body(m) =>
                 A!Header(m, last)["Content-Transfer-Encoding"] = <<A!Body(m).enc>>
           /\ "Content-Transfer-Encoding" \in DOMAIN A!Header(m, last) =>
                 \/ "enc" \in DOMAIN A!Body(m)
                 \/ "Content-Transfer-Encoding" \in A!Named(m)
<1> DEFINE set == {"Content-Type"}
               \cup {f \in {"Content-Transfer-Encoding"} : "enc" \in DOMAIN A!Body(m)}
           own == A!OwnFields(m)
           body == A!Body(m)
           h == A!Header(m, last)
<1>1. h = [n \in DOMAIN own \cup A!Named(m) \cup set |->
            IF n = "Content-Type" THEN <<body.type>>
            ELSE IF n \in set THEN <<body.enc>>
            ELSE IF n \in A!Named(m) THEN <<m.headers[last[n]]>>
            ELSE own[n]]
    BY DEF A!Header
<1>2. "Content-Type" \in set
    OBVIOUS
<1>3. "Content-Transfer-Encoding" \in set <=> "enc" \in DOMAIN body
    OBVIOUS
<1>4. "Content-Transfer-Encoding" \notin DOMAIN own
    BY DEF A!OwnFields
<1> HIDE DEF set, own, body, h
<1>5. DOMAIN h = DOMAIN own \cup A!Named(m) \cup set
    BY <1>1
<1>6. h["Content-Type"] = <<body.type>>
    BY <1>1, <1>2
<1>7. "enc" \in DOMAIN body => h["Content-Transfer-Encoding"] = <<body.enc>>
    BY <1>1, <1>3
<1>8. "Content-Transfer-Encoding" \in DOMAIN h =>
        "enc" \in DOMAIN body \/ "Content-Transfer-Encoding" \in A!Named(m)
    BY <1>3, <1>4, <1>5
<1> QED
    BY <1>6, <1>7, <1>8 DEF body, h

LEMMA LabelsFitMail ==
    ASSUME NEW last, MailOf(last)
    PROVE  A!LabelsFit
<1>1. mail.header = A!Header(message, last) /\ mail.body = A!Body(message)
    BY DEF MailOf
<1> QED
    BY <1>1, HeaderLabels DEF A!LabelsFit

(* The three forms of the text. *)
LEMMA TextForms ==
    ASSUME NEW m \in Messages
    PROVE  \/ /\ m.html # "" /\ m.text # ""
              /\ A!WriteBodyPart(m) = A!WriteAlternative(m)
           \/ /\ m.html # "" /\ m.text = ""
              /\ A!WriteBodyPart(m) = A!Html(m)
           \/ /\ m.html = "" /\ m.text # ""
              /\ A!WriteBodyPart(m) = A!Plain(m)
BY MessageIsSendable DEF A!WriteBodyPart, A!HasBoth

(* Where a client finds the text and the files. *)
LEMMA MailParts ==
    ASSUME message \in Messages, NEW last, MailOf(last)
    PROVE  /\ A!TextOf = A!WriteBodyPart(message)
           /\ Len(A!FilesOf) = Len(message.attachments)
           /\ \A i \in 1..Len(message.attachments) :
                 A!FilesOf[i] = A!WriteAttachment(message.attachments[i])
<1> DEFINE W == A!WriteBodyPart(message)
           n == Len(message.attachments)
           files == [i \in 1..n |-> A!WriteAttachment(message.attachments[i])]
           parts == <<W>> \o files
<1>1. mail.header["Content-Type"] = <<mail.body.type>> /\ mail.body = A!Body(message)
    BY HeaderLabels DEF MailOf
<1>2. n \in Nat /\ (message.attachments = <<>> <=> n = 0)
    <2> DEFINE s == message.attachments
               T == {s[i] : i \in DOMAIN s}
    <2>1. s \in Seq(T)
        BY MessageIsSendable DEF A!IsList
    <2> HIDE DEF s, T
    <2>2. Len(s) \in Nat /\ (s # <<>> => Len(s) \in Nat \ {0}) /\ Len(<<>>) = 0
        BY <2>1, EmptySeq, LenProperties
    <2> QED
        BY <2>2 DEF s
<1>3. CASE message.attachments = <<>>
    <2>1. mail.body = W
        BY <1>1, <1>3 DEF A!Body, A!HasAttachments
    <2>2. W.type # "multipart/mixed"
        <3>1. /\ A!WriteAlternative(message).type = "multipart/alternative"
              /\ A!Html(message).type = "text/html"
              /\ A!Plain(message).type = "text/plain"
            BY DEF A!WriteAlternative, A!Html, A!Plain, A!WritePart, A!Multipart
        <3> QED
            BY <3>1, TextForms
    <2>3. ~A!IsMixed
        BY <1>1, <2>1, <2>2 DEF A!IsMixed
    <2> QED
        BY <1>2, <1>3, <2>1, <2>3 DEF A!TextOf, A!FilesOf
<1>4. CASE message.attachments # <<>>
    <2>1. mail.body = [type |-> "multipart/mixed", parts |-> parts]
        BY <1>1, <1>4 DEF A!Body, A!HasAttachments, A!Multipart
    <2>2. mail.body.type = "multipart/mixed" /\ mail.body.parts = parts
        BY <2>1
    <2>3. A!IsMixed
        BY <1>1, <2>2 DEF A!IsMixed
    <2> DEFINE T == {W} \cup {files[i] : i \in 1..n}
    <2>4. <<W>> \in Seq(T) /\ Len(<<W>>) = 1 /\ <<W>>[1] = W
        OBVIOUS
    <2>5. files \in Seq(T) /\ Len(files) = n
        <3>1. files \in [1..n -> T]
            OBVIOUS
        <3> HIDE DEF files, T
        <3>2. files \in Seq(T)
            BY <1>2, <3>1, SeqDef
        <3>3. DOMAIN files = 1..Len(files) /\ Len(files) \in Nat
            BY <3>2, LenProperties
        <3>4. 1..Len(files) = 1..n
            BY <3>1, <3>3
        <3> QED
            BY <1>2, <3>2, <3>3, <3>4
    <2>6. \A i \in 1..n : files[i] = A!WriteAttachment(message.attachments[i])
        OBVIOUS
    <2> DEFINE head == <<W>>
    <2> HIDE DEF files, T, n
    <2>7. /\ \E U : parts \in Seq(U) /\ Len(parts) = 1 + n /\ parts[1] = W
          /\ \A i \in 1..n : parts[1 + i] = files[i]
        <3>1. head \in Seq(T) /\ Len(head) = 1 /\ head[1] = W /\ parts = head \o files
            BY <2>4
        <3> HIDE DEF head, parts
        <3>2. Joint(parts, head, files)
            BY <2>5, <3>1, Joined
        <3>3. /\ parts \in Seq({parts[i] : i \in DOMAIN parts})
              /\ Len(parts) = Len(head) + Len(files)
              /\ \A i \in 1..Len(head) : parts[i] = head[i]
              /\ \A i \in 1..Len(files) : parts[Len(head) + i] = files[i]
            BY <3>2 DEF Joint
        <3>4. 1 \in 1..1
            OBVIOUS
        <3>5. Len(parts) = 1 + n /\ parts[1] = W
            BY <2>5, <3>1, <3>3, <3>4
        <3>6. \A i \in 1..n : parts[1 + i] = files[i]
            BY <2>5, <3>1, <3>3
        <3> QED
            BY <3>3, <3>5, <3>6
    <2> HIDE DEF parts, W
    <2>10. PICK U : parts \in Seq(U)
        BY <2>7
    <2>8. Len(Tail(parts)) = n /\ \A i \in 1..n : Tail(parts)[i] = parts[1 + i]
        <3>1. parts # <<>>
            BY <1>2, <2>7
        <3>2. /\ Len(Tail(parts)) = Len(parts) - 1
              /\ \A i \in 1..Len(Tail(parts)) : Tail(parts)[i] = parts[i + 1]
            BY <2>10, <3>1, HeadTailProperties, SMT
        <3>3. Len(parts) - 1 = n
            BY <1>2, <2>7
        <3>4. \A i \in 1..n : i + 1 = 1 + i
            BY <1>2
        <3> QED
            BY <3>2, <3>3, <3>4
    <2>9. A!TextOf = parts[1] /\ A!FilesOf = Tail(parts)
        BY <2>2, <2>3 DEF A!TextOf, A!FilesOf
    <2> QED
        BY <2>6, <2>7, <2>8, <2>9 DEF W, n
<1> QED
    BY <1>3, <1>4

(* What a client shows of one part, and of two alternatives.               *)
LEMMA ShownOne ==
    ASSUME NEW p, A!TextOf = p, p.type # "multipart/alternative", NEW types
    PROVE  A!Shown(types) = IF p.type \in types THEN A!Decode(p) ELSE ""
<1> DEFINE parts == <<p>>
           fit == {i \in 1..Len(parts) : parts[i].type \in types}
<1>1. A!Shown(types) = IF fit = {} THEN ""
                       ELSE A!Decode(parts[CHOOSE i \in fit : \A j \in fit : j <= i])
    BY DEF A!Shown
<1>2. CASE p.type \in types
    <2>1. fit = {1}
        BY <1>2
    <2> HIDE DEF fit
    <2>2. (CHOOSE i \in fit : \A j \in fit : j <= i) = 1
        BY <2>1
    <2>3. parts[1] = p /\ fit # {}
        BY <2>1
    <2> QED
        BY <1>1, <1>2, <2>2, <2>3
<1>3. CASE p.type \notin types
    <2>1. fit = {}
        BY <1>3
    <2> QED
        BY <1>1, <1>3, <2>1
<1> QED
    BY <1>2, <1>3

LEMMA ShownTwo ==
    ASSUME NEW p, NEW q, NEW types,
           A!TextOf = [type |-> "multipart/alternative", parts |-> <<p, q>>]
    PROVE  A!Shown(types) = IF q.type \in types THEN A!Decode(q)
                            ELSE IF p.type \in types THEN A!Decode(p) ELSE ""
<1> DEFINE parts == <<p, q>>
           fit == {i \in 1..Len(parts) : parts[i].type \in types}
<1>1. A!Shown(types) = IF fit = {} THEN ""
                       ELSE A!Decode(parts[CHOOSE i \in fit : \A j \in fit : j <= i])
    BY DEF A!Shown
<1>2. Len(parts) = 2 /\ parts[1] = p /\ parts[2] = q
    OBVIOUS
<1>3. fit = {i \in {1, 2} : parts[i].type \in types}
    BY <1>2
<1>4. CASE q.type \in types
    <2>1. 2 \in fit /\ \A j \in fit : j <= 2
        BY <1>2, <1>3, <1>4
    <2>2. fit \subseteq {1, 2}
        BY <1>3
    <2> HIDE DEF fit
    <2>3. (CHOOSE i \in fit : \A j \in fit : j <= i) = 2
        <3>1. ASSUME NEW i \in fit, \A j \in fit : j <= i
              PROVE  i = 2
            BY <2>1, <2>2, <3>1
        <3> QED
            BY <2>1, <3>1
    <2> QED
        BY <1>1, <1>2, <1>4, <2>1, <2>3
<1>5. CASE q.type \notin types /\ p.type \in types
    <2>1. fit = {1}
        BY <1>2, <1>3, <1>5
    <2> HIDE DEF fit
    <2>2. (CHOOSE i \in fit : \A j \in fit : j <= i) = 1
        BY <2>1
    <2>3. fit # {}
        BY <2>1
    <2> QED
        BY <1>1, <1>2, <1>5, <2>2, <2>3
<1>6. CASE q.type \notin types /\ p.type \notin types
    <2>1. fit = {}
        BY <1>2, <1>3, <1>6
    <2> QED
        BY <1>1, <1>6, <2>1
<1> QED
    BY <1>4, <1>5, <1>6

LEMMA BodyReadsMail ==
    ASSUME message \in Messages, NEW last, MailOf(last)
    PROVE  A!BodyReads
<1> DEFINE both == {"text/plain", "text/html"}
           plain == {"text/plain"}
<1>1. /\ A!Plain(message).type = "text/plain" /\ A!Html(message).type = "text/html"
      /\ A!Decode(A!Plain(message)) = message.text
      /\ A!Decode(A!Html(message)) = message.html
    BY DEF A!Plain, A!Html, A!WritePart, A!Encode, A!Decode
<1>2. A!TextOf = A!WriteBodyPart(message)
    BY MailParts
<1>3. CASE /\ message.html # "" /\ message.text # ""
           /\ A!WriteBodyPart(message) = A!WriteAlternative(message)
    <2>1. A!TextOf = [type |-> "multipart/alternative",
                      parts |-> <<A!Plain(message), A!Html(message)>>]
        BY <1>2, <1>3 DEF A!WriteAlternative, A!Multipart
    <2> DEFINE p == A!Plain(message)
               q == A!Html(message)
    <2>2. A!TextOf = [type |-> "multipart/alternative", parts |-> <<p, q>>]
        BY <2>1
    <2> HIDE DEF p, q
    <2>3. \A types : A!Shown(types) = IF q.type \in types THEN A!Decode(q)
                                      ELSE IF p.type \in types THEN A!Decode(p) ELSE ""
        BY <2>2, ShownTwo
    <2>4. p.type = "text/plain" /\ q.type = "text/html"
          /\ A!Decode(p) = message.text /\ A!Decode(q) = message.html
        BY <1>1 DEF p, q
    <2>5. A!Shown(both) = message.html /\ A!Shown(plain) = message.text
        BY <2>3, <2>4
    <2> QED
        BY <1>3, <2>5 DEF A!BodyReads
<1>4. CASE /\ message.html # "" /\ message.text = ""
           /\ A!WriteBodyPart(message) = A!Html(message)
    <2>1. A!Shown(both) = message.html /\ A!Shown(plain) = ""
        BY <1>1, <1>2, <1>4, ShownOne
    <2> QED
        BY <1>4, <2>1 DEF A!BodyReads
<1>5. CASE /\ message.html = "" /\ message.text # ""
           /\ A!WriteBodyPart(message) = A!Plain(message)
    <2>1. A!Shown(both) = message.text /\ A!Shown(plain) = message.text
        BY <1>1, <1>2, <1>5, ShownOne
    <2> QED
        BY <1>5, <2>1 DEF A!BodyReads
<1> QED
    BY <1>3, <1>4, <1>5, TextForms

(* The lines of a file cut its characters into intervals.                  *)
LEMMA LineOfCharacter ==
    ASSUME NEW d \in Nat \ {0}, NEW c \in Nat \ {0}
    PROVE  /\ (c - 1) \div d + 1 \in Nat \ {0}
           /\ ((c - 1) \div d + 1 - 1) * d < c
           /\ c <= ((c - 1) \div d + 1) * d
           /\ \A k \in Int : (k - 1) * d < c /\ c <= k * d => k = (c - 1) \div d + 1
<1> DEFINE q == (c - 1) \div d
<1>1. q \in Nat /\ d * q <= c - 1 /\ c - 1 < d * q + d
    BY Quotients
<1> HIDE DEF q
<1>2. ASSUME NEW k \in Int, (k - 1) * d < c, c <= k * d
      PROVE  k = q + 1
    <2>1. ~ k - 1 > q
        <3>1. k - 1 >= q + 1 => (k - 1) * d >= (q + 1) * d
            BY <1>1
        <3>2. (q + 1) * d = d * q + d
            BY <1>1
        <3> QED
            BY <1>1, <1>2, <3>1, <3>2
    <2>2. ~ k < q + 1
        <3>1. k <= q => k * d <= q * d
            BY <1>1
        <3> QED
            BY <1>1, <1>2, <3>1
    <2> QED
        BY <1>1, <2>1, <2>2
<1>3. (q + 1 - 1) * d = d * q /\ (q + 1) * d = d * q + d
    BY <1>1
<1> QED
    BY <1>1, <1>2, <1>3 DEF q

(* Every character of e on one line, no line empty or longer than d.       *)
CutWell(lines, e, d) ==
    /\ \A c \in 1..e : Cardinality({k \in DOMAIN lines : c \in lines[k]}) = 1
    /\ \A k \in DOMAIN lines : Cardinality(lines[k]) \in 1..d

LEMMA LinesCut ==
    ASSUME NEW d \in Nat \ {0}, NEW e \in Nat, NEW N, N = (e + d - 1) \div d,
           NEW L, L = [k \in 1..N |-> {c \in 1..e : (k - 1) * d < c /\ c <= k * d}]
    PROVE  CutWell(L, e, d)
<1>1. N \in Nat /\ d * N <= e + d - 1 /\ e + d - 1 < d * N + d
    <2>1. e + d - 1 \in Nat
        OBVIOUS
    <2> QED
        BY <2>1, Quotients
<1>2. ASSUME NEW c \in 1..e
      PROVE  Cardinality({k \in DOMAIN L : c \in L[k]}) = 1
    <2> DEFINE k0 == (c - 1) \div d + 1
    <2>1. /\ k0 \in Nat \ {0} /\ (k0 - 1) * d < c /\ c <= k0 * d
          /\ \A k \in Int : (k - 1) * d < c /\ c <= k * d => k = k0
        BY LineOfCharacter
    <2> HIDE DEF k0
    <2>2. k0 <= N
        <3>1. (k0 - 1) * d < d * N
            BY <1>1, <2>1
        <3>2. k0 - 1 >= N => (k0 - 1) * d >= N * d
            BY <1>1, <2>1
        <3>3. N * d = d * N
            BY <1>1
        <3> QED
            BY <1>1, <2>1, <3>1, <3>2, <3>3
    <2>3. k0 \in DOMAIN L /\ c \in L[k0]
        BY <1>1, <2>1, <2>2
    <2>4. \A k \in DOMAIN L : c \in L[k] => k = k0
        BY <1>1, <2>1
    <2>5. {k \in DOMAIN L : c \in L[k]} = {k0}
        BY <2>3, <2>4
    <2>6. Cardinality({k0}) = 1
        BY FS_Singleton
    <2> QED
        BY <2>5, <2>6
<1>3. ASSUME NEW k \in DOMAIN L
      PROVE  Cardinality(L[k]) \in 1..d
    <2>1. k \in 1..N
        OBVIOUS
    <2> DEFINE lo == (k - 1) * d
               hi == k * d
               a == lo + 1
               b == IF hi <= e THEN hi ELSE e
    <2>2. lo \in Nat /\ hi = lo + d
        BY <1>1, <2>1
    <2>3. lo < e
        <3>1. k <= N => k * d <= N * d
            BY <1>1, <2>1
        <3>2. N * d = d * N
            BY <1>1
        <3> QED
            BY <1>1, <2>1, <2>2, <3>1, <3>2
    <2>8. L[k] = {c \in 1..e : lo < c /\ c <= hi}
        BY <2>1
    <2> HIDE DEF lo, hi
    <2>4. a \in Nat /\ b \in Nat /\ a <= b /\ b - a + 1 <= d
        BY <2>2, <2>3
    <2>5. L[k] = a..b
        <3>1. \A c \in 1..e : lo < c /\ c <= hi <=> a <= c /\ c <= b
            BY <2>2
        <3>2. L[k] = {c \in 1..e : a <= c /\ c <= b}
            BY <2>8, <3>1
        <3>3. 1 <= a /\ b <= e
            BY <2>2
        <3> HIDE DEF a, b
        <3>4. {c \in 1..e : a <= c /\ c <= b} = a..b
            BY <2>4, <3>3
        <3> QED
            BY <3>2, <3>4
    <2> HIDE DEF a, b
    <2>6. Cardinality(a..b) = b - a + 1
        BY <2>4, FS_Interval
    <2> QED
        BY <2>4, <2>5, <2>6
<1> QED
    BY <1>2, <1>3 DEF CutWell

LEMMA FilesReadMail ==
    ASSUME message \in Messages, NEW last, MailOf(last)
    PROVE  A!FilesRead
<1> DEFINE n == Len(message.attachments)
<1>1. /\ Len(A!FilesOf) = n
      /\ \A i \in 1..n : A!FilesOf[i] = A!WriteAttachment(message.attachments[i])
    BY MailParts
<1>2. \A i \in 1..n : message.attachments[i].size \in Nat
    BY MessageIsSendable
<1>3. LineLength \in Nat \ {0}
    BY MessageIsSendable
<1>4. ASSUME NEW i \in 1..n, NEW given_, given_ = message.attachments[i],
             NEW file, file = A!FilesOf[i]
      PROVE  /\ file.name = given_.name
             /\ A!Decode(file) = given_.data
             /\ \A c \in 1..(4 * ((given_.size + 2) \div 3)) :
                   A!Cardinality({k \in DOMAIN file.lines : c \in file.lines[k]}) = 1
             /\ \A k \in DOMAIN file.lines :
                   A!Cardinality(file.lines[k]) \in 1..LineLength
    <2> DEFINE e == 4 * ((given_.size + 2) \div 3)
               N == (e + LineLength - 1) \div LineLength
               L == A!Lines(given_.size)
    <2>1. file = A!WriteAttachment(given_)
        BY <1>1, <1>4
    <2>2. file.name = given_.name /\ A!Decode(file) = given_.data /\ file.lines = L
        BY <2>1 DEF A!WriteAttachment, A!Encode, A!Decode
    <2>3. e \in Nat
        <3>1. given_.size + 2 \in Nat
            BY <1>2, <1>4
        <3> QED
            BY <3>1
    <2>4. L = [k \in 1..N |->
                 {c \in 1..e : (k - 1) * LineLength < c /\ c <= k * LineLength}]
        BY DEF A!Lines
    <2>5. N = (e + LineLength - 1) \div LineLength
        OBVIOUS
    <2> HIDE DEF e, N, L
    <2>6. CutWell(L, e, LineLength)
        BY <1>3, <2>3, <2>4, <2>5, LinesCut
    <2>7. /\ \A c \in 1..e : A!Cardinality({k \in DOMAIN L : c \in L[k]}) = 1
          /\ \A k \in DOMAIN L : A!Cardinality(L[k]) \in 1..LineLength
        <3>1. \A X : A!Cardinality(X) = Cardinality(X)
            BY DEF A!Cardinality, Cardinality
        <3> QED
            BY <2>6, <3>1 DEF CutWell
    <2> QED
        BY <2>2, <2>7 DEF e
<1> QED
    BY <1>1, <1>4 DEF A!FilesRead

LEMMA PeopleOfBoth ==
    ASSUME NEW s, NEW t, A!IsList(s), A!IsList(t)
    PROVE  /\ A!IsList(s \o t)
           /\ A!PeopleIn(s \o t) = A!PeopleIn(s) \cup A!PeopleIn(t)
<1> DEFINE c == s \o t
<1>1. Joint(c, s, t)
    BY Joined DEF A!IsList
<1>2. Len(s) \in Nat /\ Len(t) \in Nat
    BY LenProperties DEF A!IsList
<1> HIDE DEF c
<1>3. A!IsList(c)
    BY <1>1 DEF Joint, A!IsList
<1>4. ASSUME NEW i \in 1..Len(c)
      PROVE  c[i] \in A!PeopleIn(s) \cup A!PeopleIn(t)
    <2>1. Len(c) = Len(s) + Len(t)
        BY <1>1 DEF Joint
    <2>2. CASE i \in 1..Len(s)
        BY <1>1, <2>2 DEF Joint, A!PeopleIn
    <2>3. CASE i \notin 1..Len(s)
        <3>1. i - Len(s) \in 1..Len(t) /\ i = Len(s) + (i - Len(s))
            BY <1>2, <2>1, <2>3
        <3>2. PICK j \in 1..Len(t) : i = Len(s) + j
            BY <3>1
        <3>3. c[i] = t[j]
            BY <1>1, <3>2 DEF Joint
        <3> QED
            BY <3>3 DEF A!PeopleIn
    <2> QED
        BY <2>2, <2>3
<1>5. ASSUME NEW i \in 1..Len(s)
      PROVE  s[i] \in A!PeopleIn(c)
    <2>1. i \in 1..Len(c) /\ c[i] = s[i]
        BY <1>1, <1>2 DEF Joint
    <2> QED
        BY <2>1 DEF A!PeopleIn
<1>6. ASSUME NEW i \in 1..Len(t)
      PROVE  t[i] \in A!PeopleIn(c)
    <2>1. Len(s) + i \in 1..Len(c) /\ c[Len(s) + i] = t[i]
        BY <1>1, <1>2 DEF Joint
    <2> QED
        BY <2>1 DEF A!PeopleIn
<1>7. A!PeopleIn(c) \subseteq A!PeopleIn(s) \cup A!PeopleIn(t)
    BY <1>4 DEF A!PeopleIn
<1>8. A!PeopleIn(s) \subseteq A!PeopleIn(c)
    BY <1>5 DEF A!PeopleIn
<1>9. A!PeopleIn(t) \subseteq A!PeopleIn(c)
    BY <1>6 DEF A!PeopleIn
<1> QED
    BY <1>3, <1>7, <1>8, <1>9 DEF c

(* The fields that name people, if Headers does not set them.              *)
LEMMA FieldsNameSenders ==
    ASSUME NEW m, NEW last,
           NEW n \in {"From", "Sender", "Reply-To", "To", "Cc", "Bcc"},
           n \in DOMAIN A!Header(m, last), n \notin A!Named(m)
    PROVE  \/ n = "From" /\ A!Header(m, last)[n] = <<m.from>>
           \/ n = "To" /\ A!Header(m, last)[n] = m.to
           \/ n = "Cc" /\ A!Header(m, last)[n] = m.cc
           \/ n = "Reply-To" /\ A!Header(m, last)[n] = <<m.replyTo>>
<1> DEFINE set == {"Content-Type"}
               \cup {f \in {"Content-Transfer-Encoding"} : "enc" \in DOMAIN A!Body(m)}
           own == A!OwnFields(m)
           h == A!Header(m, last)
<1>1. h = [k \in DOMAIN own \cup A!Named(m) \cup set |->
            IF k = "Content-Type" THEN <<A!Body(m).type>>
            ELSE IF k \in set THEN <<A!Body(m).enc>>
            ELSE IF k \in A!Named(m) THEN <<m.headers[last[k]]>>
            ELSE own[k]]
    BY DEF A!Header
<1>2. n \notin set
    OBVIOUS
<1> HIDE DEF set
<1>3. n \in DOMAIN own /\ h[n] = own[n]
    BY <1>1, <1>2
<1>4. n \in {"From", "To", "Cc", "Reply-To"}
    BY <1>3 DEF A!OwnFields
<1>5. own[n] = CASE n = "From"     -> <<m.from>>
                 [] n = "To"       -> m.to
                 [] n = "Cc"       -> m.cc
                 [] n = "Reply-To" -> <<m.replyTo>>
                 [] n = "Subject"  -> A!EncodeSubject(m.subject)
                 [] OTHER          -> <<n>>
    BY <1>3 DEF A!OwnFields
<1>6. CASE n = "From"
    BY <1>3, <1>5, <1>6
<1>7. CASE n = "To"
    BY <1>3, <1>5, <1>7
<1>8. CASE n = "Cc"
    BY <1>3, <1>5, <1>8
<1>9. CASE n = "Reply-To"
    BY <1>3, <1>5, <1>9
<1> QED
    BY <1>4, <1>6, <1>7, <1>8, <1>9

LEMMA BccHiddenMail ==
    ASSUME message \in Messages, NEW last, MailOf(last)
    PROVE  A!BccHidden
<1>1. mail.header = A!Header(message, last) /\ envelope = A!Recipients(message)
    BY DEF MailOf
<1>2. A!IsList(message.to) /\ A!IsList(message.cc) /\ A!IsList(message.bcc)
    BY MessageIsSendable
<1>3. A!PeopleIn(envelope)
        = A!PeopleIn(message.to) \cup A!PeopleIn(message.cc) \cup A!PeopleIn(message.bcc)
    <2> DEFINE both == message.to \o message.cc
    <2>1. /\ A!IsList(both)
          /\ A!PeopleIn(both) = A!PeopleIn(message.to) \cup A!PeopleIn(message.cc)
        BY <1>2, PeopleOfBoth
    <2>2. envelope = both \o message.bcc
        BY <1>1 DEF A!Recipients
    <2> HIDE DEF both
    <2>3. A!PeopleIn(envelope) = A!PeopleIn(both) \cup A!PeopleIn(message.bcc)
        BY <1>2, <2>1, <2>2, PeopleOfBoth
    <2> QED
        BY <2>1, <2>3
<1>4. \A p : A!PeopleIn(<<p>>) = {p}
    BY DEF A!PeopleIn
<1>5. ASSUME NEW n \in {"From", "Sender", "Reply-To", "To", "Cc", "Bcc"},
             n \in DOMAIN mail.header, n \notin A!Named(message)
      PROVE  A!PeopleIn(mail.header[n]) \subseteq
                {message.from, message.replyTo}
                    \cup A!PeopleIn(message.to) \cup A!PeopleIn(message.cc)
    <2>1. \/ mail.header[n] = <<message.from>>
          \/ mail.header[n] = message.to
          \/ mail.header[n] = message.cc
          \/ mail.header[n] = <<message.replyTo>>
        BY <1>1, <1>5, FieldsNameSenders
    <2>2. CASE mail.header[n] = <<message.from>>
        BY <1>4, <2>2
    <2>3. CASE mail.header[n] = message.to
        BY <2>3
    <2>4. CASE mail.header[n] = message.cc
        BY <2>4
    <2>5. CASE mail.header[n] = <<message.replyTo>>
        BY <1>4, <2>5
    <2> QED
        BY <2>1, <2>2, <2>3, <2>4, <2>5
<1> QED
    BY <1>3, <1>5 DEF A!BccHidden

LEMMA MailsRead == A!Spec => []ReadsAsWritten
<1>1. A!Init => MessageBuilt
    BY DEF A!Init, MessageBuilt
<1>2. MessageBuilt => ReadsAsWritten
    <2> SUFFICES ASSUME MessageBuilt, built = "nil"
                 PROVE  A!BodyReads /\ A!FilesRead /\ A!LabelsFit /\ A!BccHidden
        BY DEF ReadsAsWritten, A!ReadsAsWritten
    <2>1. message \in Messages
        BY DEF MessageBuilt
    <2>2. PICK last : MailOf(last)
        BY DEF MessageBuilt
    <2> QED
        BY <2>1, <2>2, BodyReadsMail, FilesReadMail, LabelsFitMail, BccHiddenMail
<1> QED
    BY <1>1, <1>2, BuildStep, PTL DEF A!Spec

----------------------------------------------------------------------------
(* How many steps of its own an operation has left.                        *)

(* Of a call of the HTTP client: three for each attempt, and the first.    *)
CallLeft ==
    CASE pc = "idle"   -> 3 * MaxAttempts + 1
      [] pc = "send"   -> 3 * (MaxAttempts - attempt) + 3
      [] pc = "flight" -> 3 * (MaxAttempts - attempt) + 2
      [] pc = "sleep"  -> 3 * (MaxAttempts - attempt) + 1
      [] OTHER         -> 0

MessageLeft ==
    IF result # "none" THEN 0
    ELSE (V1 + V2 + 1 - next) * (3 * MaxAttempts + 2) + CallLeft + 1

StageLeft ==
    CASE stage = "start"    -> 11
      [] stage = "dial"     -> 10
      [] stage = "greet"    -> 9
      [] stage = "starttls" -> 8
      [] stage = "auth"     -> 7
      [] stage = "mail"     -> 6
      [] stage = "rcpt"     -> 5
      [] stage = "data"     -> 4
      [] stage = "write"    -> 3
      [] stage = "close"    -> 2
      [] OTHER              -> 1

MailLeft == IF stage = "returned" THEN 0 ELSE StageLeft + (Rcpts + 1 - rcpt)

MulticastLeft ==
    CASE phase = "loop"   -> 2 * (Len(tokens) + MaxTokensPerBatch - from) + 1
      [] phase = "flight" -> 2 * (Len(tokens) + MaxTokensPerBatch - from)
      [] OTHER            -> 0

TaskLeft ==
    IF job # "open" THEN 0
    ELSE 2 * (MaxTries - tries) + (IF call = "create" THEN 1 ELSE 0) + 1

(* None is ever negative, and none is zero before the answer.              *)
StepsLeft ==
    /\ MessageLeft \in Nat /\ (MessageLeft = 0 => result # "none")
    /\ MailLeft \in Nat /\ (MailLeft = 0 => answer # "none")
    /\ MulticastLeft \in Nat /\ (MulticastLeft = 0 => err # "none")
    /\ TaskLeft \in Nat /\ (TaskLeft = 0 => job # "open")

(* Each step of an operation uses up one at least, and nothing gives any   *)
(* back: not a late answer, a lost one, or the end of the context.         *)
UsesUp ==
    /\ IF Client THEN MessageLeft' < MessageLeft ELSE MessageLeft' = MessageLeft
    /\ IF S!Mail THEN MailLeft' < MailLeft ELSE MailLeft' = MailLeft
    /\ IF M!Step THEN MulticastLeft' < MulticastLeft ELSE MulticastLeft' = MulticastLeft
    /\ IF K!Client THEN TaskLeft' < TaskLeft ELSE TaskLeft' = TaskLeft

LEMMA MessageHasLeft ==
    ASSUME GatewayInv
    PROVE  MessageLeft \in Nat /\ (MessageLeft = 0 => result # "none")
<1>1. /\ MaxAttempts \in Nat \ {0} /\ V1 \in Nat /\ V2 \in Nat
      /\ attempt \in 1..MaxAttempts /\ next \in 1..(V1 + V2 + 1)
    BY HttpClientAssumption, WhatsAppAssumption DEF GatewayInv, TypeOK, HttpTypeOK
<1>2. CallLeft \in Nat
    BY <1>1 DEF CallLeft
<1>3. (V1 + V2 + 1 - next) * (3 * MaxAttempts + 2) \in Nat
    <2>1. \A a, b \in Nat : a * b \in Nat
        OBVIOUS
    <2>2. V1 + V2 + 1 - next \in Nat /\ 3 * MaxAttempts + 2 \in Nat
        BY <1>1
    <2> QED
        BY <2>1, <2>2
<1> QED
    BY <1>2, <1>3 DEF MessageLeft

LEMMA MessageUsesUp ==
    ASSUME GatewayInv, GatewayInv', [Next]_vars
    PROVE  IF Client THEN MessageLeft' < MessageLeft ELSE MessageLeft' = MessageLeft
<1>1. /\ MaxAttempts \in Nat \ {0} /\ V1 \in Nat /\ V2 \in Nat
      /\ attempt \in 1..MaxAttempts /\ attempt' \in 1..MaxAttempts
      /\ next \in 1..(V1 + V2 + 1) /\ next' \in 1..(V1 + V2 + 1)
    BY HttpClientAssumption, WhatsAppAssumption DEF GatewayInv, TypeOK, HttpTypeOK
<1> DEFINE Span == 3 * MaxAttempts + 2
           Full == (V1 + V2 + 1 - next) * Span
<1>2. /\ CallLeft \in Nat /\ CallLeft < Span /\ Span \in Nat /\ Full \in Nat
      /\ CallLeft' \in Nat /\ CallLeft' < Span
    <2>1. CallLeft \in Nat /\ CallLeft < Span /\ Span \in Nat
        BY <1>1 DEF CallLeft
    <2>2. CallLeft' \in Nat /\ CallLeft' < Span
        BY <1>1 DEF CallLeft
    <2>3. V1 + V2 + 1 - next \in Nat
        BY <1>1
    <2>4. \A a, b \in Nat : a * b \in Nat
        OBVIOUS
    <2> QED
        BY <2>1, <2>2, <2>3, <2>4
<1>3. MessageLeft = IF result # "none" THEN 0 ELSE Full + CallLeft + 1
    BY DEF MessageLeft
<1>4. next' = next => MessageLeft' = IF result' # "none" THEN 0 ELSE Full + CallLeft' + 1
    BY DEF MessageLeft
<1>5. ASSUME next' = next, result' = result, result = "none", CallLeft' < CallLeft
      PROVE  MessageLeft' < MessageLeft
    <2>1. MessageLeft = Full + CallLeft + 1
        BY <1>3, <1>5
    <2>2. MessageLeft' = Full + CallLeft' + 1
        BY <1>4, <1>5
    <2>3. \A f, m, n \in Nat : m < n => f + m + 1 < f + n + 1
        OBVIOUS
    <2>4. Full + CallLeft' + 1 < Full + CallLeft + 1
        BY <1>2, <1>5, <2>3
    <2> QED
        BY <2>1, <2>2, <2>4
<1>6. ASSUME next' = next, result = "none", result' # "none"
      PROVE  MessageLeft' < MessageLeft
    <2> HIDE DEF Full, Span
    <2> QED
        BY <1>2, <1>3, <1>4, <1>6
<1> HIDE DEF Full, Span
<1>7. ASSUME Client
      PROVE  MessageLeft' < MessageLeft
    <2>1. CASE TrySession
        <3>1. CallLeft' < CallLeft
            BY <1>1, <2>1 DEF TrySession, Do, CallLeft
        <3> QED
            BY <1>5, <2>1, <3>1 DEF TrySession
    <2>2. CASE Execute /\ UNCHANGED <<op, next, lastErr, result>>
        <3>1. pc \in {"send", "flight", "sleep"} /\ result = "none"
            BY <2>2 DEF Execute, Send, SendNothing, Answered, FinalStatus, RetryStatus,
               TransportError, CtxEnds, SleepDone, SleepCanceled, GatewayInv, AtSession
        <3>2. \/ pc' = "done"
              \/ pc = "send" /\ pc' = "flight" /\ attempt' = attempt
              \/ pc = "flight" /\ pc' = "sleep" /\ attempt' = attempt
              \/ pc = "sleep" /\ pc' = "send" /\ attempt' = attempt + 1
            BY <2>2 DEF Execute, Send, SendNothing, Answered, FinalStatus, RetryStatus,
               RetryOrGiveUp, TransportError, CtxEnds, SleepDone, SleepCanceled, Finish
        <3>3. CallLeft' < CallLeft
            BY <1>1, <3>1, <3>2 DEF CallLeft
        <3> QED
            BY <1>5, <2>2, <3>1, <3>3
    <2>3. CASE SessionAccepts
        BY <1>6, <2>3 DEF SessionAccepts, GatewayInv, AtSession
    <2>4. CASE SessionFails
        <3>1. /\ pc = "done" /\ pc' = "idle" /\ next' = next + 1 /\ result' = "none"
              /\ result = "none"
            BY <2>4 DEF SessionFails, GatewayInv, AtSession
        <3>2. MessageLeft = Full + 1 /\ MessageLeft' = Full
            <4>1. CallLeft = 0 /\ CallLeft' = 3 * MaxAttempts + 1
                BY <3>1 DEF CallLeft
            <4>2. MessageLeft = Full + 1
                BY <1>2, <1>3, <3>1, <4>1
            <4>3. MessageLeft' = (V1 + V2 + 1 - (next + 1)) * Span + CallLeft' + 1
                BY <3>1 DEF MessageLeft, Span
            <4>4. Span = CallLeft' + 1
                BY <1>1, <4>1 DEF Span
            <4>5. Full = (V1 + V2 + 1 - (next + 1)) * Span + Span
                <5> DEFINE k == V1 + V2 + 1 - (next + 1)
                <5>1. V1 + V2 + 1 - next = k + 1 /\ k \in Int
                    BY <1>1
                <5>2. (k + 1) * Span = k * Span + Span
                    <6> HIDE DEF k
                    <6> QED
                        BY <1>2, <5>1
                <5> QED
                    BY <5>1, <5>2 DEF Full
            <4>6. (V1 + V2 + 1 - (next + 1)) * Span \in Int
                <5>1. V1 + V2 + 1 - (next + 1) \in Int
                    BY <1>1
                <5>2. \A a, b \in Int : a * b \in Int
                    OBVIOUS
                <5> QED
                    BY <1>2, <5>1, <5>2
            <4>7. CallLeft' \in Nat
                BY <1>2
            <4> QED
                BY <4>2, <4>3, <4>4, <4>5, <4>6, <4>7
        <3> QED
            BY <1>2, <3>2
    <2>5. CASE AllFailed
        BY <1>6, <2>5 DEF AllFailed
    <2> QED
        BY <1>7, <2>1, <2>2, <2>3, <2>4, <2>5 DEF Client
<1>8. ASSUME ~Client
      PROVE  MessageLeft' = MessageLeft
    <2>1. UNCHANGED <<pc, attempt, next, result>>
        BY <1>8 DEF Next, Environment, CtxDone, Apply, LateApply, Returned, vars, httpVars
    <2> QED
        BY <2>1 DEF MessageLeft, CallLeft
<1> QED
    BY <1>7, <1>8

LEMMA MailHasLeft ==
    ASSUME MailInv
    PROVE  MailLeft \in Nat /\ (MailLeft = 0 => answer # "none")
<1>1. Rcpts \in Nat /\ rcpt \in 1..(Rcpts + 1)
    BY OutboundAssumption DEF S!SmtpSendAssumption, MailInv, MailTyped
<1>2. StageLeft \in Nat \ {0}
    BY DEF StageLeft
<1>3. stage = "returned" => answer # "none"
    BY DEF MailInv, MailTyped
<1> QED
    BY <1>1, <1>2, <1>3 DEF MailLeft

LEMMA MailUsesUp ==
    ASSUME MailWhole, [S!Next]_S!vars
    PROVE  IF S!Mail THEN MailLeft' < MailLeft ELSE MailLeft' = MailLeft
<1>1. Rcpts \in Nat /\ rcpt \in Nat /\ stage \in Stages
    BY OutboundAssumption DEF S!SmtpSendAssumption, MailWhole
<1>2. stage # "returned" => rcpt \in 1..(Rcpts + 1)
    BY <1>1 DEF MailWhole, Stages
<1>3. MailLeft \in Int /\ (stage # "returned" => MailLeft \in Nat \ {0})
    BY <1>1, <1>2 DEF MailLeft, StageLeft
<1>4. ASSUME S!Mail
      PROVE  MailLeft' < MailLeft
    <2>1. ASSUME stage' = "returned", stage # "returned"
          PROVE  MailLeft' < MailLeft
        BY <1>3, <2>1 DEF MailLeft
    <2>2. CASE S!Reject \/ S!Quit \/ S!Fails \/ S!DialCanceled
        BY <2>1, <2>2 DEF S!Reject, S!Quit, S!Fails, S!DialCanceled, S!Return
    <2>3. ASSUME stage # "returned", stage' # "returned", rcpt' = rcpt, StageLeft' < StageLeft
          PROVE  MailLeft' < MailLeft
        <3>1. StageLeft \in Nat /\ StageLeft' \in Nat
            BY DEF StageLeft
        <3>2. /\ MailLeft = StageLeft + (Rcpts + 1 - rcpt)
              /\ MailLeft' = StageLeft' + (Rcpts + 1 - rcpt)
            BY <2>3 DEF MailLeft
        <3>3. \A m, n \in Nat, d \in Int : m < n => m + d < n + d
            OBVIOUS
        <3>4. Rcpts + 1 - rcpt \in Int
            BY <1>1
        <3>5. StageLeft' + (Rcpts + 1 - rcpt) < StageLeft + (Rcpts + 1 - rcpt)
            BY <2>3, <3>1, <3>3, <3>4
        <3> QED
            BY <3>2, <3>5
    <2>4. CASE S!Dial \/ S!Dialled \/ S!Close
        <3>1. /\ rcpt' = rcpt
              /\ <<stage, stage'>> \in {<<"start", "dial">>, <<"dial", "greet">>, <<"close", "quit">>}
            BY <2>4 DEF S!Dial, S!Dialled, S!Close, S!Goto
        <3> QED
            BY <2>3, <3>1 DEF StageLeft
    <2>5. CASE S!Proceed
        <3>1. rcpt' = rcpt /\ stage' \in S!After(stage)
            BY <2>5 DEF S!Proceed, S!Goto
        <3>2. \/ stage = "greet" /\ stage' \in {"starttls", "auth", "mail"}
              \/ stage = "starttls" /\ stage' \in {"auth", "mail"}
              \/ stage = "auth" /\ stage' = "mail"
              \/ stage = "mail" /\ stage' \in {"rcpt", "data"}
              \/ stage = "data" /\ stage' = "write"
              \/ stage = "write" /\ stage' = "close"
            BY <1>1, <3>1 DEF S!After, Stages
        <3> QED
            BY <2>3, <3>1, <3>2 DEF StageLeft
    <2>6. CASE S!Rcpt
        <3>1. stage = "rcpt" /\ stage' \in {"rcpt", "data"} /\ rcpt' = rcpt + 1
            BY <2>6 DEF S!Rcpt, S!Goto
        <3> QED
            BY <1>1, <3>1 DEF MailLeft, StageLeft
    <2> QED
        BY <1>4, <2>2, <2>4, <2>5, <2>6 DEF S!Mail
<1>5. ASSUME ~S!Mail
      PROVE  MailLeft' = MailLeft
    <2>1. stage' = stage /\ rcpt' = rcpt
        BY <1>5 DEF S!Next, S!Cancel, S!Tick, S!Returned, S!vars
    <2> QED
        BY <2>1 DEF MailLeft, StageLeft
<1> QED
    BY <1>4, <1>5

(* What MulticastInv leaves open. *)
MulticastEnds ==
    /\ from <= Len(tokens) + MaxTokensPerBatch
    /\ phase = "returned" => err # "none"

LEMMA MulticastEndsInit == M!Init => MulticastEnds
<1>1. M!Init => Len(tokens) \in Nat /\ MaxTokensPerBatch \in Nat \ {0}
    BY MulticastInit, ListIsSequence DEF MulticastInv
<1> QED
    BY <1>1 DEF M!Init, MulticastEnds

LEMMA MulticastEndsStep == MulticastInv /\ MulticastEnds /\ [M!Next]_M!vars => MulticastEnds'
<1> SUFFICES ASSUME MulticastInv, MulticastEnds, [M!Next]_M!vars
             PROVE  MulticastEnds'
    OBVIOUS
<1>1. Len(tokens) \in Nat /\ MaxTokensPerBatch \in Nat \ {0} /\ from \in Nat \ {0}
    BY ListIsSequence DEF MulticastInv, MulticastTyped
<1>2. CASE M!Respond
    <2>1. tokens' = tokens /\ from' = from + MaxTokensPerBatch /\ phase' = "loop"
        BY <1>2 DEF M!Respond
    <2>2. from <= Len(tokens)
        BY <1>1, <1>2 DEF M!Respond, MulticastInv, Progress, M!Positions
    <2> QED
        BY <1>1, <2>1, <2>2 DEF MulticastEnds
<1>3. CASE ~M!Respond
    <2>1. tokens' = tokens /\ from' = from /\ (phase' = "returned" => err' # "none")
        BY <1>3 DEF M!Next, M!Step, M!Empty, M!SendBatch, M!BatchFails, M!AllSent,
           M!Returned, M!vars, MulticastEnds
    <2> QED
        BY <2>1 DEF MulticastEnds
<1> QED
    BY <1>2, <1>3

LEMMA MulticastHasLeft ==
    ASSUME MulticastInv, MulticastEnds
    PROVE  MulticastLeft \in Nat /\ (MulticastLeft = 0 => err # "none")
<1>1. /\ Len(tokens) \in Nat /\ MaxTokensPerBatch \in Nat \ {0} /\ from \in Nat \ {0}
      /\ phase \in {"loop", "flight", "returned"}
    BY ListIsSequence DEF MulticastInv, MulticastTyped
<1>2. phase = "flight" => from <= Len(tokens)
    BY <1>1 DEF MulticastInv, Progress, M!Positions
<1> QED
    BY <1>1, <1>2 DEF MulticastEnds, MulticastLeft

LEMMA MulticastUsesUp ==
    ASSUME MulticastInv, MulticastEnds, [M!Next]_M!vars
    PROVE  IF M!Step THEN MulticastLeft' < MulticastLeft ELSE MulticastLeft' = MulticastLeft
<1>1. /\ Len(tokens) \in Nat /\ MaxTokensPerBatch \in Nat \ {0} /\ from \in Nat \ {0}
      /\ phase \in {"loop", "flight", "returned"}
    BY ListIsSequence DEF MulticastInv, MulticastTyped
<1>2. phase = "flight" => from <= Len(tokens)
    BY <1>1 DEF MulticastInv, Progress, M!Positions
<1>3. MulticastLeft \in Nat
    BY MulticastHasLeft
<1>4. M!Empty \/ M!AllSent => MulticastLeft' < MulticastLeft
    BY <1>1, <1>3 DEF M!Empty, M!AllSent, MulticastLeft, MulticastEnds
<1>5. M!SendBatch => MulticastLeft' < MulticastLeft
    BY <1>1 DEF M!SendBatch, MulticastLeft
<1>6. M!BatchFails => MulticastLeft' < MulticastLeft
    BY <1>1, <1>2 DEF M!BatchFails, MulticastLeft
<1>7. M!Respond => MulticastLeft' < MulticastLeft
    <2> SUFFICES ASSUME M!Respond PROVE MulticastLeft' < MulticastLeft
        OBVIOUS
    <2>1. /\ phase = "flight" /\ phase' = "loop" /\ tokens' = tokens
          /\ from' = from + MaxTokensPerBatch
        BY DEF M!Respond
    <2> QED
        BY <1>1, <2>1 DEF MulticastLeft
<1>8. M!Step => MulticastLeft' < MulticastLeft
    BY <1>4, <1>5, <1>6, <1>7 DEF M!Step
<1>9. ~M!Step => MulticastLeft' = MulticastLeft
    BY DEF M!Next, M!Returned, M!vars, MulticastLeft
<1> QED
    BY <1>8, <1>9

LEMMA TaskHasLeft ==
    ASSUME TaskCounted
    PROVE  TaskLeft \in Nat /\ (TaskLeft = 0 => job # "open")
BY OutboundAssumption DEF K!CloudTaskAssumption, TaskCounted, TaskLeft

LEMMA TaskUsesUp ==
    ASSUME TaskCounted, [K!Next]_K!vars
    PROVE  IF K!Client THEN TaskLeft' < TaskLeft ELSE TaskLeft' = TaskLeft
<1>1. MaxTries \in Nat
    BY OutboundAssumption DEF K!CloudTaskAssumption
<1> USE <1>1 DEF TaskLeft, TaskCounted
<1>2. ASSUME NEW name \in Names \cup {NoName}, NEW f \in Flaws, K!Create(name, f)
      PROVE  TaskLeft' < TaskLeft
    BY <1>2 DEF K!Create
<1>3. K!CreateReturns => TaskLeft' < TaskLeft
    BY DEF K!CreateReturns
<1>4. K!CreateFails => TaskLeft' < TaskLeft
    BY DEF K!CreateFails
<1>5. K!GivesUp => TaskLeft' < TaskLeft
    BY DEF K!GivesUp
<1>6. K!Client => TaskLeft' < TaskLeft
    BY <1>2, <1>3, <1>4, <1>5 DEF K!Client
<1>7. K!Delete \/ K!Run \/ (\E r \in lateTasks : K!LateCreate(r)) \/ UNCHANGED K!vars
         => TaskLeft' = TaskLeft
    BY DEF K!Delete, K!Run, K!LateCreate, K!vars
<1> QED
    BY <1>6, <1>7 DEF K!Next

LEMMA TaskInvariance == K!Spec => []TaskCounted
BY CountedInit, CountedStep, PTL DEF K!Spec

LEMMA MulticastInvariance == M!Spec => [](MulticastInv /\ MulticastEnds)
BY MulticastInit, MulticastStep, MulticastEndsInit, MulticastEndsStep, PTL DEF M!Spec

----------------------------------------------------------------------------
(* The run's specification, of which every behaviour is one of the parts.  *)

LEMMA PartsStep ==
    ASSUME [OutboundNext]_allVars
    PROVE  /\ [Next]_vars /\ [A!Next]_A!vars /\ [S!Next]_S!vars
           /\ [M!Next]_M!vars /\ [K!Next]_K!vars /\ [B!Next]_B!vars
<1>1. [Next]_vars
    BY DEF OutboundNext, allVars
<1>2. [S!Next]_S!vars
    BY DEF OutboundNext, allVars, smtpVars, S!vars, S!settings
<1>3. [M!Next]_M!vars
    BY DEF OutboundNext, allVars, multicastVars, M!vars
<1>4. [K!Next]_K!vars
    BY DEF OutboundNext, allVars, taskVars, K!vars
<1>5. [B!Next]_B!vars
    BY DEF OutboundNext, allVars, backoffVars, B!vars
<1>6. [A!Next]_A!vars
    BY DEF OutboundNext, allVars, mailVars, A!vars
<1> QED
    BY <1>1, <1>2, <1>3, <1>4, <1>5, <1>6

LEMMA PartsRun ==
    OutboundSpec => Spec /\ A!Spec /\ S!Spec /\ M!Spec /\ K!Spec /\ B!Spec
<1>1. OutboundInit => Init /\ A!Init /\ S!Init /\ M!Init /\ K!Init /\ B!Init
    BY DEF OutboundInit
<1> QED
    BY <1>1, PartsStep, PTL
    DEF OutboundSpec, Spec, A!Spec, S!Spec, M!Spec, K!Spec, B!Spec

(* SendMessage, mailer.Send and cloudtask.Create answer once, and say yes  *)
(* only to what the remote service has really done.                        *)
THEOREM EverythingDelivers == OutboundSpec => Delivers
BY PartsRun, MessageDelivers, MailDelivers, TaskDelivers, PTL DEF Delivers

(* SendMulticast accounts for every answer of the service, to the right    *)
(* token and in the order of the list, for any lists and size of a batch   *)
(* (chunkTokens, MulticastResult).                                         *)
THEOREM EveryAnswerAccounted == OutboundSpec => []Accounted
BY PartsRun, MulticastCounts, PTL

(* build makes a mail that reads as its Message, for any messages and any  *)
(* length of a line: either form shown, every file whole, the header true  *)
(* to the body, nobody in BCC told (message.go).                           *)
THEOREM MailsReadAsWritten == OutboundSpec => []ReadsAsWritten
BY PartsRun, MailsRead, PTL

(* calculateDelay never comes back before the time a service asks for, if  *)
(* a duration can hold what any service asks for (retryAfterDelay).        *)
THEOREM RetryAfterIsRespected ==
    ASSUME PowersAreNatural, \A h \in Headers : 100 * h.value <= MaxDuration
    PROVE  OutboundSpec => []B!RetryAfterRespected
<1>1. B!Init => B!RetryAfterRespected
    BY DEF B!Init, B!RetryAfterRespected
<1>2. B!TypeOK /\ B!RetryAfterRespected /\ [B!Next]_B!vars => B!RetryAfterRespected'
    BY RespectStep
<1>3. B!Spec => []B!TypeOK
    BY BackoffTypes
<1> QED
    BY <1>1, <1>2, <1>3, PartsRun, PTL DEF B!Spec

(* Every backoff is within the jitter of the exponential of its attempt,   *)
(* up to the cap, and no failed attempt is followed by the next without a  *)
(* delay unless the jitter may take all of it, whatever else a user gives, *)
(* as long as a duration holds the exponential and the cap (backoffDelay). *)
THEOREM BackoffsFollowTheCurve ==
    ASSUME PowersAreNatural, PowersGrow, DurationsHold
    PROVE  OutboundSpec => [](B!WithinCurve /\ (cfg.jitter <= 99 => B!NoHotRetry))
<1>1. BackoffInv => B!WithinCurve /\ (cfg.jitter <= 99 => B!NoHotRetry)
    BY DEF BackoffInv, NearCurve, B!WithinCurve, B!NoHotRetry, B!TypeOK
<1>2. B!TypeOK /\ B!Init => BackoffInv
    BY DEF BackoffInv, B!Init
<1>3. BackoffInv /\ [B!Next]_B!vars => BackoffInv'
    BY BackoffInvStep
<1>4. B!Spec => []B!TypeOK
    BY BackoffTypes
<1> QED
    BY <1>1, <1>2, <1>3, <1>4, PartsRun, PTL DEF B!Spec

(* A message, a mail, a multicast and a task end after a number of steps   *)
(* of their own that is known when they start (for a message, at most      *)
(* V1 + V2 + 1 times 3 * MaxAttempts + 2): every step of theirs leaves     *)
(* fewer, none is left only with the answer, and nothing the network, the  *)
(* service or the context does adds one (the loops of execute,             *)
(* SendMessage, smtpSend and SendMulticast).                               *)
THEOREM StepsRunOut == OutboundSpec => []StepsLeft /\ [][UsesUp]_allVars
<1> DEFINE Inv == /\ GatewayInv /\ MailInv /\ TaskCounted
                  /\ MulticastInv /\ MulticastEnds
<1>1. OutboundSpec => []Inv
    BY PartsRun, GatewayInvariance, MailInvariance, TaskInvariance, MulticastInvariance, PTL
<1>2. Inv => StepsLeft
    BY MessageHasLeft, MailHasLeft, MulticastHasLeft, TaskHasLeft DEF StepsLeft
<1>3. Inv /\ Inv' /\ [OutboundNext]_allVars => UsesUp
    <2> SUFFICES ASSUME Inv, Inv', [OutboundNext]_allVars PROVE UsesUp
        OBVIOUS
    <2>1. [Next]_vars /\ [S!Next]_S!vars /\ [M!Next]_M!vars /\ [K!Next]_K!vars
        BY PartsStep
    <2>2. IF Client THEN MessageLeft' < MessageLeft ELSE MessageLeft' = MessageLeft
        BY <2>1, MessageUsesUp
    <2>3. IF S!Mail THEN MailLeft' < MailLeft ELSE MailLeft' = MailLeft
        BY <2>1, MailUsesUp DEF MailInv
    <2>4. IF M!Step THEN MulticastLeft' < MulticastLeft ELSE MulticastLeft' = MulticastLeft
        BY <2>1, MulticastUsesUp
    <2>5. IF K!Client THEN TaskLeft' < TaskLeft ELSE TaskLeft' = TaskLeft
        BY <2>1, TaskUsesUp
    <2> QED
        BY <2>2, <2>3, <2>4, <2>5 DEF UsesUp
<1> QED
    BY <1>1, <1>2, <1>3, PTL DEF OutboundSpec

(* The states of the five parts have their types: among them that a mail   *)
(* is taken for all of its recipients or for none, that the service counts *)
(* the tasks it knows, and that no delay is negative, whatever the         *)
(* exponential converts to.                                                *)
THEOREM OutboundTypeCorrect ==
    ASSUME PowersAreNatural
    PROVE  OutboundSpec => []OutboundTypeOK
<1>1. GatewayInv => TypeOK
    BY DEF GatewayInv
<1>2. MulticastInv => M!TypeOK
    BY DEF MulticastInv, MulticastTyped, Answers, M!TypeOK
<1>3. TypeOK /\ S!TypeOK /\ M!TypeOK /\ K!TypeOK /\ B!TypeOK => OutboundTypeOK
    BY DEF OutboundTypeOK
<1>4. B!Spec => []B!TypeOK
    BY BackoffTypes
<1> QED
    BY <1>1, <1>2, <1>3, <1>4, PartsRun, GatewayInvariance, MailTypes, MulticastCounts,
       TaskTypes, PTL
=============================================================================
