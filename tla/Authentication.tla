--------------------------- MODULE Authentication ---------------------------
(***************************************************************************)
(* A request on its way to its handler: middleware.Auth with a strategy of *)
(* jwt.NewAccountStrategy over identity.Lookup, then AuthorizeRoles and    *)
(* RequirePermission, then the handler and response.Error.                 *)
(*                                                                         *)
(* The account of one user lives in a table that other services write:     *)
(* there devices log in, and roles, links and permissions change, between  *)
(* any two steps of a request.  Token, row and permissions are read at     *)
(* three moments.                                                          *)
(***************************************************************************)
EXTENDS Tokens, ErrorMapping, FiniteSets, Sequences

CONSTANTS
    Requests,           \* requests in flight; each is used again and again
    Devices,            \* devices the user logs in from
    User,               \* the user's uuid
    Roles,              \* role codes of the row, "" if it has none
    Fold(_),            \* a role code as strings.EqualFold sees it
    SingleDeviceRoles,
    BoundRoles,         \* roles that need their link
    Routes,             \* the routes: their guards
    HandlerErrors,      \* errors a handler may end with
    MaxTime,            \* bound: the clock
    MaxChanges          \* bound: changes of the row and the permissions

ASSUME AuthenticationAssumption ==
    /\ User # None
    /\ SingleDeviceRoles \subseteq Roles
    /\ BoundRoles \subseteq Roles
    /\ Routes \subseteq [guarded : BOOLEAN, roles : SUBSET STRING,
                         permission : BOOLEAN]
    /\ MaxTime \in Nat
    /\ MaxChanges \in Nat

(* The handlers behind Auth leave the 401 to it. *)
ASSUME HandlersAssumption ==
    \A err \in HandlerErrors :
        Error(err) # 401 /\ Error(NormalizeDBError(err)) # 401

VARIABLES
    now,      \* the clock, in ticks
    row,      \* the user's row; field token: user_token
    granted,  \* the roles that have the permission
    session,  \* each device's token and the moment it was given it
    latest,   \* history: the login the row's token comes from
    changes,  \* changes made so far
    pc,       \* where each request is
    token,    \* its bearer token, NoToken if it carries none
    route,    \* the route it asks for
    account,  \* the account as looked up
    codes,    \* whether PermissionCodes has the permission
    answers,  \* the statuses sent
    origin,   \* history: the login the token comes from
    fault,    \* history: the error the handler ended with
    facts,    \* history: what held of the request at some moment
    roles,    \* history: the roles the user had meanwhile
    grants    \* history: the roles that had the permission meanwhile

table == <<row, granted, latest, changes>>

request == <<pc, token, route, account, codes, answers, origin, fault>>

vars == <<now, table, session, request, facts, roles, grants>>

NoToken == [signed |-> FALSE, sub |-> None, user_uuid |-> None, exp |-> Absent,
            expired |-> Absent, iat |-> Absent, iss |-> None]

NoRoute == [guarded |-> FALSE, roles |-> {}, permission |-> FALSE]

NoFault == App(None)

NoLogin == [device |-> None, at |-> Absent, kind |-> None]

NoAccount == [present |-> FALSE, active |-> FALSE, linked |-> FALSE,
              role |-> "", token |-> NoToken]

Seconds == {Absent} \cup 0..Expiry(MaxTime)

Claims == [signed : BOOLEAN, sub : {User, None}, user_uuid : {User, None},
           exp : Seconds, expired : Seconds, iat : Seconds, iss : {Issuer, None}]

(* The kinds of token: of this framework (`exp`), of the older service     *)
(* (`expired`), and of the older service with neither claim.               *)
Kinds == {"framework", "old", "lasting"}

(* A login: where, when, and with what kind of token. *)
Logins == [device : Devices, at : 0..MaxTime, kind : Kinds] \cup {NoLogin}

Accounts == [present : BOOLEAN, active : BOOLEAN, linked : BOOLEAN,
             role : Roles \cup {""}, token : Claims]

----------------------------------------------------------------------------
(* What can be said of a request at a moment, from what happened and not   *)
(* from what the code reads.                                               *)

(* Its login is no older than the lifetime of a token.  A token with       *)
(* neither `exp` nor `expired` has no lifetime: it is accepted for ever,   *)
(* on purpose (jwt_test.go:254-259, CHANGELOG.md:107) ...                  *)
Alive(login, t) ==
    /\ login # NoLogin
    /\ login.kind = "lasting" \/ t <= login.at + Time(TTL)

(* ... and, given or taken a second, younger.                              *)
Fresh(login, t) ==
    /\ login # NoLogin
    /\ login.kind = "lasting" \/ t + Rate <= login.at + Time(TTL)

(* Two logins whose tokens nothing tells apart: of the same kind, and of   *)
(* the same second if the token holds one. *)
AsGoodAs(login, other) ==
    /\ login.kind = other.kind
    /\ login.kind = "lasting" \/ Unix(login.at) = Unix(other.at)

(* No login has come after it, but for one as good. *)
Current(login) ==
    /\ login # NoLogin
    /\ latest # NoLogin
    /\ AsGoodAs(login, latest)

(* The user may act from this login if it is the latest, or as good as. *)
Standing(asLatest) ==
    /\ row.present
    /\ row.active
    /\ row.role \in BoundRoles => row.linked
    /\ row.role \in SingleDeviceRoles => asLatest

(* What holds of a request, named. *)
Holds(fact, login) ==
    \/ fact = "alive" /\ Alive(login, now)
    \/ fact = "stale" /\ ~Fresh(login, now)
    \/ fact = "standing" /\ Standing(Current(login))
    \/ fact = "barred" /\ ~Standing(login = latest)
    \/ fact = "latest" /\ login = latest

Facts == {"alive", "stale", "standing", "barred", "latest"}

FactsOf(login) == {fact \in Facts : Holds(fact, login)}

InFlight(r) == pc[r] # "idle"

(* History: what a change of the table or the clock makes of the requests  *)
(* in flight. *)
Witness ==
    /\ facts' = [r \in Requests |->
                   facts[r] \cup IF InFlight(r) THEN FactsOf(origin[r])' ELSE {}]
    /\ roles' = [r \in Requests |->
                   roles[r] \cup IF InFlight(r) THEN {row.role}' ELSE {}]
    /\ grants' = [r \in Requests |->
                   grants[r] \cup IF InFlight(r) THEN granted' ELSE {}]

Init ==
    /\ now = 0
    /\ row \in [present : {TRUE}, active : {TRUE}, linked : {TRUE}, role : Roles,
                token : {NoToken}]
    /\ granted = {}
    /\ latest = NoLogin
    /\ changes = 0
    /\ session = [d \in Devices |-> [token |-> NoToken, login |-> NoLogin]]
    /\ pc = [r \in Requests |-> "idle"]
    /\ token = [r \in Requests |-> NoToken]
    /\ route = [r \in Requests |-> NoRoute]
    /\ account = [r \in Requests |-> NoAccount]
    /\ codes = [r \in Requests |-> FALSE]
    /\ answers = [r \in Requests |-> <<>>]
    /\ origin = [r \in Requests |-> NoLogin]
    /\ fault = [r \in Requests |-> NoFault]
    /\ facts = [r \in Requests |-> {}]
    /\ roles = [r \in Requests |-> {}]
    /\ grants = [r \in Requests |-> {}]

----------------------------------------------------------------------------
(* The services that own the table. *)

(* A login gives the device a token and puts it in the row. *)
LogInWith(d, t, kind) ==
    /\ changes < MaxChanges
    /\ row.present
    /\ changes' = changes + 1
    /\ latest' = [device |-> d, at |-> now, kind |-> kind]
    /\ session' = [session EXCEPT ![d] = [token |-> t, login |-> latest']]
    /\ row' = [row EXCEPT !.token = t]
    /\ UNCHANGED <<now, granted, request>>
    /\ Witness

LogIn(d) == LogInWith(d, Generate(User, now), "framework")

(* The older authentication service signs its tokens itself, with an       *)
(* `expired` or without (legacyToken of jwt_test.go). *)
GenerateOld(user, expired) ==
    [signed |-> TRUE, sub |-> None, user_uuid |-> user, exp |-> Absent,
     expired |-> expired, iat |-> Absent, iss |-> Issuer]

LogInOld(d) ==
    \/ LogInWith(d, GenerateOld(User, Expiry(now)), "old")
    \/ LogInWith(d, GenerateOld(User, Absent), "lasting")

(* The row loses its token, changes its role, loses or gets its link, is   *)
(* deactivated or activated, removed or restored.                          *)
ChangeAccount ==
    /\ changes < MaxChanges
    /\ changes' = changes + 1
    /\ \/ row' = [row EXCEPT !.token = NoToken] /\ latest' = NoLogin
       \/ /\ \/ \E role \in Roles : row' = [row EXCEPT !.role = role]
             \/ row' = [row EXCEPT !.linked = ~@]
             \/ row' = [row EXCEPT !.active = ~@]
             \/ row' = [row EXCEPT !.present = ~@]
          /\ UNCHANGED latest
    /\ UNCHANGED <<now, granted, session, request>>
    /\ Witness

ChangePermissions ==
    /\ changes < MaxChanges
    /\ changes' = changes + 1
    /\ \E role \in Roles :
          granted' = IF role \in granted THEN granted \ {role} ELSE granted \cup {role}
    /\ UNCHANGED <<now, row, latest, session, request>>
    /\ Witness

Tick ==
    /\ now < MaxTime
    /\ now' = now + 1
    /\ UNCHANGED <<table, session, request>>
    /\ Witness

----------------------------------------------------------------------------
(* A request.                                                              *)

history == <<facts, roles, grants>>

(* It arrives with the bearer token of a login, however long ago, without  *)
(* one, or with one that no login gives (of another signer, without the    *)
(* issuer, without a subject). *)
Arrives(r, ro, t, login) ==
    /\ pc[r] = "idle"
    /\ pc' = [pc EXCEPT ![r] = "parse"]
    /\ token' = [token EXCEPT ![r] = t]
    /\ route' = [route EXCEPT ![r] = ro]
    /\ account' = [account EXCEPT ![r] = NoAccount]
    /\ codes' = [codes EXCEPT ![r] = FALSE]
    /\ answers' = [answers EXCEPT ![r] = <<>>]
    /\ origin' = [origin EXCEPT ![r] = login]
    /\ fault' = [fault EXCEPT ![r] = NoFault]
    /\ facts' = [facts EXCEPT ![r] = FactsOf(login)]
    /\ roles' = [roles EXCEPT ![r] = {row.role}]
    /\ grants' = [grants EXCEPT ![r] = granted]
    /\ UNCHANGED <<now, table, session>>

Stray ==
    LET ours == Generate(User, now)
    IN  {NoToken} \cup ({[ours EXCEPT !.sub = None], [ours EXCEPT !.signed = FALSE],
                         [ours EXCEPT !.iss = None]} \ {ours})

Receive(r) ==
    \E ro \in Routes :
        \/ \E d \in Devices : Arrives(r, ro, session[d].token, session[d].login)
        \/ \E t \in Stray : Arrives(r, ro, t, NoLogin)

Answer(r, status) == answers' = [answers EXCEPT ![r] = Append(@, status)]

(* A request moves on; everybody else stands still. *)
Goes(r, next) ==
    /\ pc' = [pc EXCEPT ![r] = next]
    /\ UNCHANGED <<now, table, session, token, route, origin, answers, fault, history>>

(* A request has been answered: its context is gone. *)
Ends(r, status, err) ==
    /\ pc' = [pc EXCEPT ![r] = "idle"]
    /\ token' = [token EXCEPT ![r] = NoToken]
    /\ route' = [route EXCEPT ![r] = NoRoute]
    /\ account' = [account EXCEPT ![r] = NoAccount]
    /\ codes' = [codes EXCEPT ![r] = FALSE]
    /\ origin' = [origin EXCEPT ![r] = NoLogin]
    /\ roles' = [roles EXCEPT ![r] = {}]
    /\ grants' = [grants EXCEPT ![r] = {}]
    /\ fault' = [fault EXCEPT ![r] = err]
    /\ Answer(r, status)
    /\ UNCHANGED <<now, table, session, facts>>

(* Variant: without c.Abort the next handler runs. *)
RejectUnaborted(r, status) ==
    /\ pc' = [pc EXCEPT ![r] = "handle"]
    /\ Answer(r, status)
    /\ UNCHANGED <<now, table, session, token, route, account, codes, origin, fault,
                   history>>

(* response.Error and c.Abort. *)
Reject(r, status) == Ends(r, status, NoFault)

Unauthorized == Error(App("UNAUTHORIZED"))

Forbidden == Error(App("FORBIDDEN"))

(* No strategy can handle the request, Parse fails, or no subject. *)
Authenticates(t) == t # NoToken /\ Parses(t, now) /\ Subject(t) # None

Refuse(r) ==
    /\ pc[r] = "parse"
    /\ ~Authenticates(token[r])
    /\ Reject(r, Unauthorized)

Parse(r) ==
    /\ pc[r] = "parse"
    /\ Authenticates(token[r])
    /\ Goes(r, "lookup")
    /\ UNCHANGED <<account, codes>>

(* The checks of the validator on the row it has read. *)
Accepts(a, t) ==
    /\ a.role \in SingleDeviceRoles => a.token = t
    /\ a.active
    /\ a.role \in BoundRoles => a.linked

(* Variant: a failing database is taken for a missing account. *)
LookupFailsUnauthorized(r) ==
    /\ pc[r] = "lookup"
    /\ Reject(r, Unauthorized)

(* The database fails: identity.Lookup normalises the error. *)
LookupFails(r) ==
    /\ pc[r] = "lookup"
    /\ Reject(r, Error(NormalizeDBError(Unexpected)))

LookupRefuses(r) ==
    /\ pc[r] = "lookup"
    /\ ~(row.present /\ Accepts(row, token[r]))
    /\ Reject(r, Unauthorized)

Lookup(r) ==
    /\ pc[r] = "lookup"
    /\ row.present
    /\ Accepts(row, token[r])
    /\ account' = [account EXCEPT ![r] = row]
    /\ Goes(r, "permissions")
    /\ UNCHANGED codes

(* Permissions(ctx, account.Role), if there is a role. *)
PermissionsFail(r) ==
    /\ pc[r] = "permissions"
    /\ account[r].role # ""
    /\ Reject(r, Error(Unexpected))

(* Variant: the permissions of all roles together. *)
PermissionsAnyRole(r) ==
    /\ pc[r] = "permissions"
    /\ codes' = [codes EXCEPT ![r] = granted # {}]
    /\ Goes(r, "guard")
    /\ UNCHANGED account

Permissions(r) ==
    /\ pc[r] = "permissions"
    /\ codes' = [codes EXCEPT ![r] = account[r].role # "" /\ account[r].role \in granted]
    /\ Goes(r, "guard")
    /\ UNCHANGED account

(* AuthorizeRoles: no role, or none that matches, is a 403. *)
AuthorizeRoles(r) ==
    /\ account[r].role # ""
    /\ \E role \in route[r].roles : Fold(role) = Fold(account[r].role)

RequirePermission(r) == codes[r]

Passes(r) ==
    /\ route[r].guarded => AuthorizeRoles(r)
    /\ route[r].permission => RequirePermission(r)

(* Variant: c.Abort without an answer. *)
ForbidSilently(r) ==
    /\ pc[r] = "guard"
    /\ ~Passes(r)
    /\ Goes(r, "idle")
    /\ UNCHANGED <<account, codes>>

Forbid(r) ==
    /\ pc[r] = "guard"
    /\ ~Passes(r)
    /\ Reject(r, Forbidden)

Admit(r) ==
    /\ pc[r] = "guard"
    /\ Passes(r)
    /\ Goes(r, "handle")
    /\ UNCHANGED <<account, codes>>

(* The handler answers, or ends with an error, raw or normalised. *)
Succeed(r) == pc[r] = "handle" /\ Ends(r, 200, NoFault)

Fail(r) ==
    /\ pc[r] = "handle"
    /\ \E err \in HandlerErrors :
          Ends(r, Error(err), err) \/ Ends(r, Error(NormalizeDBError(err)), err)

Step(r) ==
    \/ Refuse(r) \/ Parse(r)
    \/ LookupFails(r) \/ LookupRefuses(r) \/ Lookup(r)
    \/ PermissionsFail(r) \/ Permissions(r)
    \/ Forbid(r) \/ Admit(r)
    \/ Succeed(r) \/ Fail(r)

Next ==
    \/ \E r \in Requests : Receive(r) \/ Step(r)
    \/ \E d \in Devices : LogIn(d) \/ LogInOld(d)
    \/ ChangeAccount
    \/ ChangePermissions
    \/ Tick

(* A request in flight goes on: the database answers or fails, and no      *)
(* handler hangs. *)
Fairness == \A r \in Requests : WF_vars(Step(r))

Spec == Init /\ [][Next]_vars

FairSpec == Spec /\ Fairness

----------------------------------------------------------------------------
(* Properties.                                                             *)

TypeOK ==
    /\ now \in 0..MaxTime
    /\ row \in Accounts
    /\ granted \subseteq Roles
    /\ latest \in Logins
    /\ changes \in 0..MaxChanges
    /\ session \in [Devices -> [token : Claims, login : Logins]]
    /\ pc \in [Requests -> {"idle", "parse", "lookup", "permissions", "guard", "handle"}]
    /\ token \in [Requests -> Claims]
    /\ route \in [Requests -> Routes \cup {NoRoute}]
    /\ account \in [Requests -> Accounts]
    /\ codes \in [Requests -> BOOLEAN]
    /\ answers \in [Requests -> Seq(Nat)]
    /\ origin \in [Requests -> Logins]
    /\ fault \in [Requests -> HandlerErrors \cup {NoFault}]
    /\ facts \in [Requests -> SUBSET Facts]
    /\ roles \in [Requests -> SUBSET (Roles \cup {""})]
    /\ grants \in [Requests -> SUBSET Roles]

(* A handler runs only for a login that was within its lifetime at some    *)
(* moment of the request, if its token says when it ends (in `exp` or in   *)
(* `expired`), and of a user who was present, active, linked and not       *)
(* superseded by another login at some moment of it: no order of logins,   *)
(* deactivations and requests lets an old verdict stand in for a new one.  *)
(* A token that does not say when it ends is served for as long as its     *)
(* user is: "Token lama tanpa kedua klaim tetap diterima", CHANGELOG.md:107. *)
ServedWhileEntitled ==
    \A r \in Requests :
        pc[r] = "handle" => {"alive", "standing"} \subseteq facts[r]

(* Nobody is logged out without a cause: a 401 goes only to a request that *)
(* was, at some moment, out of date or not entitled.  A failing database   *)
(* is not a cause (docs/packages.md:994), and time is none for a token     *)
(* without an expiry (TestParse_LegacyWithoutExpiry_Accepted).             *)
NoFalseLogout ==
    \A r \in Requests :
        answers[r] = <<401>> => facts[r] \cap {"stale", "barred"} # {}

(* However a request ends, it is answered once: what rejects it also keeps *)
(* the handlers behind it from answering too. *)
OneAnswer == \A r \in Requests : Len(answers[r]) <= 1

(* A handler behind guards runs only with a role the user had meanwhile,   *)
(* and with a permission that role had meanwhile, although role and        *)
(* permissions are read at different moments. *)
RightsOfRoleRead ==
    \A r \in Requests :
        pc[r] = "handle" =>
            \E role \in roles[r] :
                /\ route[r].guarded => Fold(role) \in {Fold(x) : x \in route[r].roles}
                /\ route[r].permission => role \in grants[r]

(* Errors the client can mend (codes below 500, violated constraints)      *)
(* reach it as 4xx and all others as 5xx, whether the handler passed them  *)
(* on raw or through NormalizeDBError. *)
Mendable(err) ==
    \/ err = DuplicatedKey
    \/ err.kind = "postgres" /\ err.code \in Violations
    \/ err.kind = "app" /\ err.code \notin {"INTERNAL_SERVER_ERROR", "SERVICE_UNAVAILABLE"}

FaultsKeepTheirClass ==
    \A r \in Requests :
        fault[r] # NoFault => \A n \in DOMAIN answers[r] :
                               (answers[r][n] < 500) <=> Mendable(fault[r])

(* Every request is answered, exactly once. *)
Answered ==
    /\ []OneAnswer
    /\ \A r \in Requests : InFlight(r) ~> ~InFlight(r) /\ answers[r] # <<>>

(* account.go:38-39: a role of SingleDeviceRoles has one active device.    *)
(* Logins of one second get the same token, so both devices stay in (and   *)
(* so do logins of any time, if their tokens carry no second at all).      *)
LatestDeviceOnly ==
    \A r \in Requests :
        pc[r] = "handle" /\ account[r].role \in SingleDeviceRoles =>
            "latest" \in facts[r]
=============================================================================
