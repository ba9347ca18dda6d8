------------------------------ MODULE SmtpSend ------------------------------
(***************************************************************************)
(* mailer/mailer.go: one Send, from the checks of the message to the QUIT  *)
(* of the SMTP conversation.  The server is external: it may refuse any    *)
(* command, answer late, never, or after the client has given up.  Time is *)
(* a clock; a call that waits for the network ends at the latest when its  *)
(* deadline is reached, which is when the clock stands still for it.       *)
(***************************************************************************)
EXTENDS Naturals

CONSTANTS
    Rcpts,      \* number of recipients, To, CC and BCC together
    Timeout,    \* Config.Timeout (positive: New replaces the rest)
    Deadlines,  \* the deadlines a caller's context may have, NoDeadline for none
    NoDeadline, \* beyond every time that matters
    Flaws       \* what can be wrong with the message or the configuration

SmtpSendAssumption ==
    /\ Rcpts \in Nat
    /\ Timeout \in Nat \ {0}
    /\ NoDeadline \in Nat
    /\ Deadlines \subseteq 0..NoDeadline

VARIABLES
    useTLS,    \* Config.UseTLS
    login,     \* Config.Username is set
    flaw,      \* what is wrong with the message, "none" if it is sendable
    ctxEnd,    \* the deadline of the caller's context
    canceled,  \* the caller has cancelled it
    clock,     \* the time since Send was called
    stage,     \* the command in progress
    rcpt,      \* the recipient in progress
    limit,     \* the deadline of the wait in progress
    taken,     \* recipients the server has accepted
    mailed,    \* the recipients the server has taken the message for
    answer     \* what Send returned

settings == <<useTLS, login, flaw, ctxEnd>>
vars == <<settings, canceled, clock, stage, rcpt, limit, taken, mailed, answer>>

Recipients == 1..Rcpts

Least(a, b) == IF a < b THEN a ELSE b
Greatest(a, b) == IF a < b THEN b ELSE a

Init ==
    /\ useTLS \in BOOLEAN
    /\ login \in BOOLEAN
    /\ flaw \in Flaws
    /\ ctxEnd \in Deadlines
    /\ canceled = FALSE
    /\ clock = 0
    /\ stage = "start"
    /\ rcpt = 1
    /\ limit = NoDeadline
    /\ taken = {}
    /\ mailed = {}
    /\ answer = "none"

----------------------------------------------------------------------------
(* Send and smtpSend.                                                      *)

Return(res) ==
    /\ stage' = "returned"
    /\ answer' = res
    /\ UNCHANGED <<settings, canceled, clock, rcpt, limit, taken>>

Goto(s) ==
    /\ stage' = s
    /\ UNCHANGED <<settings, canceled, clock, answer>>

(* validate: what the message lacks. *)
Flawed == flaw # "none"

(* validate, build and the check of Host fail before the network is used.  *)
Reject ==
    /\ stage = "start"
    /\ Flawed
    /\ Return("error")
    /\ UNCHANGED mailed

(* The dialer: its timeout, and the context's end unless UseTLS, because   *)
(* DialWithDialer is not given the context.                                *)
Dial ==
    /\ stage = "start"
    /\ ~Flawed
    /\ Goto("dial")
    /\ limit' = IF useTLS THEN clock + Timeout ELSE Least(ctxEnd, clock + Timeout)
    /\ UNCHANGED <<rcpt, taken, mailed>>

(* Variant: the connection gets a deadline only from the context.          *)
IoDeadlineOfContext == ctxEnd

(* The connection's deadline: the context's, else Timeout from now.  With  *)
(* a deadline in the context Timeout says nothing of the conversation,     *)
(* neither when it is shorter nor when it is longer, although "subsequent  *)
(* SMTP I/O respects cfg.Timeout" (mailer.go:74).                          *)
IoDeadline == IF ctxEnd # NoDeadline THEN ctxEnd ELSE clock + Timeout

(* A wait has time left. *)
InTime == clock < limit

Dialled ==
    /\ stage = "dial"
    /\ InTime
    /\ Goto("greet")
    /\ limit' = IoDeadline
    /\ UNCHANGED <<rcpt, taken, mailed>>

(* The server answers a command well: on to the next one.  STARTTLS is     *)
(* used when the server offers it, AUTH when there is a user.              *)
After(s) ==
    CASE s = "greet"    -> (IF useTLS THEN {} ELSE {"starttls"})
                            \cup {IF login THEN "auth" ELSE "mail"}
      [] s = "starttls" -> {IF login THEN "auth" ELSE "mail"}
      [] s = "auth"     -> {"mail"}
      [] s = "mail"     -> {IF Rcpts = 0 THEN "data" ELSE "rcpt"}
      [] s = "data"     -> {"write"}
      [] s = "write"    -> {"close"}
      [] OTHER          -> {}

Proceed ==
    /\ InTime
    /\ \E s \in After(stage) : Goto(s)
    /\ UNCHANGED <<rcpt, limit, taken, mailed>>

(* Variant: a recipient the server refuses is passed over.                 *)
RcptLenient ==
    /\ stage = "rcpt"
    /\ InTime
    /\ Goto(IF rcpt = Rcpts THEN "data" ELSE "rcpt")
    /\ rcpt' = rcpt + 1
    /\ \E ok \in BOOLEAN : taken' = IF ok THEN taken \cup {rcpt} ELSE taken
    /\ UNCHANGED <<limit, mailed>>

(* RCPT TO, one recipient after the other. *)
Rcpt ==
    /\ stage = "rcpt"
    /\ InTime
    /\ Goto(IF rcpt = Rcpts THEN "data" ELSE "rcpt")
    /\ rcpt' = rcpt + 1
    /\ taken' = taken \cup {rcpt}
    /\ UNCHANGED <<limit, mailed>>

(* w.Close(): the server takes the message for every recipient accepted.   *)
Close ==
    /\ stage = "close"
    /\ InTime
    /\ Goto("quit")
    /\ mailed' = taken
    /\ UNCHANGED <<rcpt, limit, taken>>

Quit ==
    /\ stage = "quit"
    /\ InTime
    /\ Return("nil")
    /\ UNCHANGED mailed

(* A command is refused, the connection breaks or its deadline passes.     *)
(* Send returns the error; the answer to the end of the data, and to QUIT, *)
(* may be lost although the server has taken the message.                  *)
Fails ==
    /\ stage \notin {"start", "returned"}
    /\ Return("error")
    /\ mailed' \in {mailed} \cup IF stage = "close" THEN {taken} ELSE {}

(* The dial ends with its context, unless UseTLS. *)
DialCanceled ==
    /\ stage = "dial"
    /\ canceled
    /\ ~useTLS
    /\ Return("error")
    /\ UNCHANGED mailed

----------------------------------------------------------------------------
(* The environment.                                                        *)

Cancel ==
    /\ ~canceled
    /\ canceled' = TRUE
    /\ UNCHANGED <<settings, clock, stage, rcpt, limit, taken, mailed, answer>>

(* Time passes while Send waits, not beyond the deadline of its wait.      *)
Tick ==
    /\ stage \notin {"start", "returned"}
    /\ clock < limit
    /\ clock < NoDeadline
    /\ clock' = clock + 1
    /\ UNCHANGED <<settings, canceled, stage, rcpt, limit, taken, mailed, answer>>

Mail ==
    \/ Reject
    \/ Dial
    \/ Dialled
    \/ Proceed
    \/ Rcpt
    \/ Close
    \/ Quit
    \/ Fails
    \/ DialCanceled

Returned ==
    /\ stage = "returned"
    /\ UNCHANGED vars

Next == Mail \/ Cancel \/ Tick \/ Returned

Spec == Init /\ [][Next]_vars

(* The goroutine is scheduled, and the network ends every wait at its      *)
(* deadline.                                                               *)
FairSpec == Spec /\ WF_vars(Mail)

----------------------------------------------------------------------------
(* Properties.                                                             *)

TypeOK ==
    /\ useTLS \in BOOLEAN /\ login \in BOOLEAN /\ canceled \in BOOLEAN
    /\ clock \in 0..NoDeadline
    /\ rcpt \in 1..(Rcpts + 1)
    /\ limit \in Nat
    /\ taken = 1..(rcpt - 1)
    /\ mailed \in {{}, Recipients}
    /\ answer \in {"none", "nil", "error"}
    /\ stage = "returned" <=> answer # "none"

(* Send never outlasts the time it was given: the context's deadline, or   *)
(* Timeout for the dial and Timeout for the conversation; with UseTLS the  *)
(* dial may use up its Timeout although the context has ended.  This is    *)
(* what the code keeps (mailer.go:83-98), and less than mailer.go:74 says: *)
(* a context's deadline beyond Timeout lets the server hold a Send up that *)
(* long. *)
WithinDeadline ==
    clock <= IF ctxEnd = NoDeadline THEN 2 * Timeout
             ELSE IF useTLS THEN Greatest(ctxEnd, Timeout) ELSE ctxEnd
=============================================================================
