------------------------ MODULE AuthenticationProofs ------------------------
(***************************************************************************)
(* What holds of every request, for any number of requests and devices and *)
(* any changes of the table. First what does not depend on the clock: it   *)
(* is answered at most once, with the step that ends it, and the handler   *)
(* runs only with rights its user's role had meanwhile. Then what goes     *)
(* back from a token to its login: only the entitled are served, and a 401 *)
(* has a cause. Last, the types, and that an error keeps the class of its  *)
(* status on every path.                                                   *)
(***************************************************************************)
EXTENDS Authentication, TLAPS

(* The variables of a request are functions of the request. *)
Shape ==
    /\ pc \in [Requests -> {"idle", "parse", "lookup", "permissions", "guard", "handle"}]
    /\ codes \in [Requests -> BOOLEAN]
    /\ route = [r \in Requests |-> route[r]]
    /\ account = [r \in Requests |-> account[r]]
    /\ answers = [r \in Requests |-> answers[r]]
    /\ roles = [r \in Requests |-> roles[r]]
    /\ grants = [r \in Requests |-> grants[r]]

(* A request in flight has not been answered; one that has ended has been  *)
(* answered once, or has never been made. *)
AnsweredAtEnd ==
    \A r \in Requests :
        /\ InFlight(r) => answers[r] = <<>>
        /\ answers[r] \in {<<>>} \cup {<<status>> : status \in Nat}

(* The history holds what the table holds now ... *)
Witnessed ==
    \A r \in Requests :
        InFlight(r) => row.role \in roles[r] /\ granted \subseteq grants[r]

(* ... and what a request has read: its role, its permission, and that the *)
(* guards have let it pass. *)
ReadsWitnessed ==
    \A r \in Requests :
        /\ pc[r] \in {"permissions", "guard", "handle"} => account[r].role \in roles[r]
        /\ pc[r] \in {"guard", "handle"} /\ codes[r] => account[r].role \in grants[r]
        /\ pc[r] = "handle" => Passes(r)

IInv == Shape /\ AnsweredAtEnd /\ Witnessed /\ ReadsWitnessed

----------------------------------------------------------------------------
(* Every status is a number. *)
LEMMA StatusIsNat == \A err : Error(err) \in Nat
  BY DEF Error, HttpStatus

(* An AppError violates no constraint: its code alone tells its status.    *)
LEMMA AppStatus == \A code : Error(App(code)) = HttpStatus(App(code))
  BY DEF Error, IsDBConstraintError, IsDuplicateError, IsForeignKeyError,
         IsNotNullError, IsCheckConstraintError, IsPostgres, App, DuplicatedKey

LEMMA InitIInv == Init => IInv
  BY DEF Init, IInv, Shape, AnsweredAtEnd, Witnessed, ReadsWitnessed, InFlight

(* A change of the table or of the clock, with its Witness. *)
LEMMA WitnessStep ==
    ASSUME IInv, Witness, UNCHANGED request
    PROVE  IInv'
  <1> USE DEF IInv, Shape
  <1>1. Shape'
    BY DEF request, Witness
  <1>2. AnsweredAtEnd'
    BY DEF request, AnsweredAtEnd, InFlight
  <1>3. \A r \in Requests : roles[r] \subseteq roles'[r] /\ grants[r] \subseteq grants'[r]
    BY DEF Witness
  <1>4. Witnessed'
    BY DEF request, Witness, Witnessed, InFlight
  <1>5. ReadsWitnessed'
    BY <1>3 DEF request, ReadsWitnessed, Passes, AuthorizeRoles, RequirePermission
  <1> QED  BY <1>1, <1>2, <1>4, <1>5

LEMMA ArrivesStep ==
    ASSUME IInv, NEW r \in Requests, NEW ro \in Routes, NEW t, NEW login,
           Arrives(r, ro, t, login)
    PROVE  IInv'
  <1> USE DEF IInv, Shape, Arrives, table
  <1>1. Shape'
    OBVIOUS
  <1>2. AnsweredAtEnd'
    BY DEF AnsweredAtEnd, InFlight
  <1>3. Witnessed'
    BY DEF Witnessed, InFlight
  <1>4. ReadsWitnessed'
    BY DEF ReadsWitnessed, Passes, AuthorizeRoles, RequirePermission
  <1> QED  BY <1>1, <1>2, <1>3, <1>4

(* A request that is answered was in flight, and is so no longer. *)
LEMMA EndsStep ==
    ASSUME IInv, NEW r \in Requests, NEW status \in Nat, NEW err,
           pc[r] # "idle", Ends(r, status, err)
    PROVE  IInv'
  <1> USE DEF IInv, Shape, Ends, table, Answer
  <1>1. Shape'
    OBVIOUS
  <1>2. AnsweredAtEnd'
    <2>1. answers[r] = <<>>
      BY DEF AnsweredAtEnd, InFlight
    <2>2. answers'[r] = <<status>>
      BY <2>1
    <2> QED  BY <2>2 DEF AnsweredAtEnd, InFlight
  <1>3. Witnessed'
    BY DEF Witnessed, InFlight
  <1>4. ReadsWitnessed'
    BY DEF ReadsWitnessed, Passes, AuthorizeRoles, RequirePermission
  <1> QED  BY <1>1, <1>2, <1>3, <1>4

(* A request that goes on. *)
LEMMA GoesStep ==
    ASSUME IInv, NEW r \in Requests,
           Parse(r) \/ Lookup(r) \/ Permissions(r) \/ Admit(r)
    PROVE  IInv'
  <1> USE DEF IInv, Shape, Parse, Lookup, Permissions, Admit, Goes, table, history
  <1>1. Shape'
    OBVIOUS
  <1>2. AnsweredAtEnd'
    BY DEF AnsweredAtEnd, InFlight
  <1>3. Witnessed'
    BY DEF Witnessed, InFlight
  <1>4. ReadsWitnessed'
    <2> USE DEF ReadsWitnessed, Passes, AuthorizeRoles, RequirePermission
    <2>1. CASE Parse(r)
      BY <2>1
    <2>2. CASE Lookup(r)
      BY <2>2 DEF Witnessed, InFlight
    <2>3. CASE Permissions(r)
      BY <2>3 DEF Witnessed, InFlight
    <2>4. CASE Admit(r)
      BY <2>4
    <2> QED  BY <2>1, <2>2, <2>3, <2>4
  <1> QED  BY <1>1, <1>2, <1>3, <1>4

LEMMA NextIInv == IInv /\ [Next]_vars => IInv'
  <1> SUFFICES ASSUME IInv, [Next]_vars PROVE IInv'
    OBVIOUS
  <1>1. ASSUME NEW r \in Requests, Receive(r) PROVE IInv'
    BY <1>1, ArrivesStep DEF Receive
  <1>2. ASSUME NEW r \in Requests, Step(r) PROVE IInv'
    <2>1. CASE Refuse(r) \/ LookupFails(r) \/ LookupRefuses(r) \/ PermissionsFail(r)
                 \/ Forbid(r)
      BY <2>1, EndsStep, StatusIsNat
         DEF Refuse, LookupFails, LookupRefuses, PermissionsFail, Forbid, Reject,
             Unauthorized, Forbidden
    <2>2. CASE Succeed(r) \/ Fail(r)
      BY <2>2, EndsStep, StatusIsNat DEF Succeed, Fail
    <2>3. CASE Parse(r) \/ Lookup(r) \/ Permissions(r) \/ Admit(r)
      BY <2>3, GoesStep
    <2> QED  BY <1>2, <2>1, <2>2, <2>3 DEF Step
  <1>3. ASSUME NEW d \in Devices, LogIn(d) \/ LogInOld(d) PROVE IInv'
    BY <1>3, WitnessStep DEF LogIn, LogInOld, LogInWith
  <1>4. CASE ChangeAccount \/ ChangePermissions \/ Tick
    BY <1>4, WitnessStep DEF ChangeAccount, ChangePermissions, Tick
  <1>5. CASE UNCHANGED vars
    BY <1>5 DEF vars, request, table, IInv, Shape, AnsweredAtEnd, Witnessed,
       ReadsWitnessed, InFlight, Passes, AuthorizeRoles, RequirePermission
  <1> QED
    BY <1>1, <1>2, <1>3, <1>4, <1>5 DEF Next

(* The inductive invariant holds in every behaviour. *)
THEOREM Invariance == Spec => []IInv
  BY InitIInv, NextIInv, PTL DEF Spec

(* A request is never answered twice, wherever on its way it is rejected. *)
THEOREM AnsweredOnce == Spec => []OneAnswer
  <1>1. ASSUME IInv, NEW r \in Requests PROVE Len(answers[r]) <= 1
    <2>1. CASE answers[r] = <<>>
      BY <2>1
    <2>2. ASSUME NEW status \in Nat, answers[r] = <<status>>
          PROVE  Len(answers[r]) <= 1
      BY <2>2
    <2> QED  BY <1>1, <2>1, <2>2 DEF IInv, AnsweredAtEnd
  <1>2. IInv => OneAnswer
    BY <1>1 DEF OneAnswer
  <1> QED  BY <1>2, Invariance, PTL

(* How many steps of its own a request at p may still take. *)
StepsFrom(p) ==
    CASE p = "parse"       -> 5
      [] p = "lookup"      -> 4
      [] p = "permissions" -> 3
      [] p = "guard"       -> 2
      [] p = "handle"      -> 1
      [] OTHER             -> 0

(* A request in flight stands, or comes closer to its end; it is answered  *)
(* with the step that ends it, and with no other. *)
ComesCloser(r) ==
    InFlight(r) =>
        \/ pc'[r] = pc[r] /\ answers'[r] = answers[r]
        \/ /\ StepsFrom(pc'[r]) < StepsFrom(pc[r])
           /\ pc'[r] = "idle" <=> answers'[r] # <<>>

(* Every request in flight comes to its answer in five steps of its own at *)
(* most: none goes back, none is dropped without an answer, whatever is    *)
(* changed meanwhile (RequireAuth, the guards and the handler). *)
THEOREM RequestsComeToAnswer == Spec => [][\A r \in Requests : ComesCloser(r)]_vars
  <1>1. ASSUME IInv, NEW q \in Requests, NEW r \in Requests, Step(q) PROVE ComesCloser(r)
    <2> SUFFICES ASSUME InFlight(r) PROVE ComesCloser(r)
      BY DEF ComesCloser
    <2>1. /\ answers[r] = <<>>
          /\ pc \in [Requests -> {"idle", "parse", "lookup", "permissions", "guard", "handle"}]
          /\ answers = [x \in Requests |-> answers[x]]
      BY <1>1 DEF IInv, AnsweredAtEnd, Shape
    <2>2. pc[r] # "idle"
      BY DEF InFlight
    <2>3. ASSUME NEW status, NEW err, Ends(q, status, err) PROVE ComesCloser(r)
      <3>1. CASE q = r
        <4>1. pc'[r] = "idle" /\ answers'[r] = <<status>>
          BY <2>1, <2>3, <3>1 DEF Ends, Answer
        <4> QED  BY <2>1, <2>2, <4>1 DEF ComesCloser, StepsFrom
      <3>2. CASE q # r
        BY <2>1, <2>3, <3>2 DEF Ends, Answer, ComesCloser
      <3> QED  BY <3>1, <3>2
    <2>4. CASE Refuse(q) \/ LookupFails(q) \/ LookupRefuses(q) \/ PermissionsFail(q)
                 \/ Forbid(q) \/ Succeed(q) \/ Fail(q)
      BY <2>3, <2>4 DEF Refuse, LookupFails, LookupRefuses, PermissionsFail, Forbid,
         Reject, Succeed, Fail
    <2>5. CASE Parse(q) \/ Lookup(q) \/ Permissions(q) \/ Admit(q)
      <3>1. /\ answers' = answers
            /\ \/ pc[q] = "parse" /\ pc' = [pc EXCEPT ![q] = "lookup"]
               \/ pc[q] = "lookup" /\ pc' = [pc EXCEPT ![q] = "permissions"]
               \/ pc[q] = "permissions" /\ pc' = [pc EXCEPT ![q] = "guard"]
               \/ pc[q] = "guard" /\ pc' = [pc EXCEPT ![q] = "handle"]
        BY <2>5 DEF Parse, Lookup, Permissions, Admit, Goes
      <3> QED  BY <2>1, <3>1 DEF ComesCloser, StepsFrom
    <2> QED  BY <1>1, <2>4, <2>5 DEF Step
  <1>2. ASSUME IInv, NEW q \in Requests, NEW r \in Requests, Receive(q) PROVE ComesCloser(r)
    <2>1. PICK ro, t, login : Arrives(q, ro, t, login)
      BY <1>2 DEF Receive
    <2>2. /\ pc \in [Requests -> {"idle", "parse", "lookup", "permissions", "guard", "handle"}]
          /\ answers = [x \in Requests |-> answers[x]]
      BY <1>2 DEF IInv, Shape
    <2> QED  BY <2>1, <2>2 DEF Arrives, ComesCloser, InFlight
  <1>3. ASSUME NEW r \in Requests,
               \/ \E d \in Devices : LogIn(d) \/ LogInOld(d)
               \/ ChangeAccount \/ ChangePermissions \/ Tick \/ UNCHANGED vars
        PROVE  ComesCloser(r)
    <2>1. UNCHANGED <<pc, answers>>
      BY <1>3 DEF LogIn, LogInOld, LogInWith, ChangeAccount, ChangePermissions, Tick,
         request, vars
    <2> QED  BY <2>1 DEF ComesCloser
  <1>4. IInv /\ [Next]_vars => \A r \in Requests : ComesCloser(r)
    BY <1>1, <1>2, <1>3 DEF Next
  <1> QED
    BY <1>4, Invariance, PTL DEF Spec

(* A guarded handler runs only with a role its user had meanwhile and the  *)
(* permission that role had meanwhile. *)
THEOREM RightsWereHeld == Spec => []RightsOfRoleRead
  <1>1. IInv => RightsOfRoleRead
    <2> SUFFICES ASSUME IInv, NEW r \in Requests, pc[r] = "handle"
                 PROVE  \E role \in roles[r] :
                          /\ route[r].guarded => Fold(role) \in {Fold(x) : x \in route[r].roles}
                          /\ route[r].permission => role \in grants[r]
      BY DEF RightsOfRoleRead
    <2>1. account[r].role \in roles[r]
      BY DEF IInv, ReadsWitnessed
    <2>2. route[r].guarded => Fold(account[r].role) \in {Fold(x) : x \in route[r].roles}
      BY DEF IInv, ReadsWitnessed, Passes, AuthorizeRoles
    <2>3. route[r].permission => account[r].role \in grants[r]
      BY DEF IInv, ReadsWitnessed, Passes, RequirePermission
    <2> QED  BY <2>1, <2>2, <2>3
  <1> QED  BY <1>1, Invariance, PTL

----------------------------------------------------------------------------
(* Entitlement.  Nobody is served without being entitled, for any rate of  *)
(* the clock, any lifetime, any roles and any number of devices, requests  *)
(* and changes.  The argument goes back from a token to its login: a token *)
(* that parses was given by a login not longer ago than the lifetime, if   *)
(* it carries an expiry at all, and one that equals the row's was given by *)
(* a login as good as the latest.  The other way round, a fresh token parses, and the validator    *)
(* accepts the latest one, so that a 401 has a cause.                      *)

(* The token a login gives. *)
TokenOf(login) ==
    CASE login.kind = "framework" -> Generate(User, login.at)
      [] login.kind = "old"       -> GenerateOld(User, Expiry(login.at))
      [] login.kind = "lasting"   -> GenerateOld(User, Absent)

PastLogin(login) ==
    /\ login # NoLogin
    /\ login.at \in Nat
    /\ login.kind \in Kinds

(* A token that no Parse accepts, whenever. *)
Unusable(t) ==
    \/ ~t.signed
    \/ Subject(t) = None
    \/ Issuer # None /\ t.iss # Issuer

(* Where a token comes from. *)
Given(t, login) ==
    \/ login = NoLogin /\ Unusable(t)
    \/ PastLogin(login) /\ t = TokenOf(login)

Clock == now \in Nat

SessionsGiven == \A d \in Devices : Given(session[d].token, session[d].login)

RowGiven == Given(row.token, latest)

RequestsGiven ==
    \A r \in Requests : InFlight(r) => Given(token[r], origin[r])

(* The history of a request holds what is the case now ... *)
FactsNow ==
    \A r \in Requests : InFlight(r) => FactsOf(origin[r]) \subseteq facts[r]

(* ... and what its steps have found. *)
FactsFound ==
    \A r \in Requests :
        /\ pc[r] \in {"lookup", "permissions", "guard", "handle"} =>
               origin[r] # NoLogin /\ "alive" \in facts[r]
        /\ pc[r] \in {"permissions", "guard", "handle"} => "standing" \in facts[r]

Columns ==
    /\ pc \in [Requests -> {"idle", "parse", "lookup", "permissions", "guard", "handle"}]
    /\ token = [r \in Requests |-> token[r]]
    /\ origin = [r \in Requests |-> origin[r]]
    /\ facts = [r \in Requests |-> facts[r]]
    /\ session = [d \in Devices |-> session[d]]
    /\ row = [present |-> row.present, active |-> row.active,
              linked |-> row.linked, role |-> row.role, token |-> row.token]

EInv ==
    /\ Columns
    /\ Clock
    /\ SessionsGiven
    /\ RowGiven
    /\ RequestsGiven
    /\ FactsNow
    /\ FactsFound

----------------------------------------------------------------------------
(* A second begins no later than any moment of it, and ends after it. *)
LEMMA UnixFloor ==
    ASSUME NEW t \in Nat
    PROVE  Unix(t) \in Nat /\ Time(Unix(t)) <= t
  BY TokensAssumption, SMTT(30) DEF Unix, Time

(* The lifetime is a number of whole seconds. *)
LEMMA ExpirySeconds ==
    ASSUME NEW t \in Nat
    PROVE  Expiry(t) = Unix(t) + TTL
  <1>1. Time(TTL) = Rate * TTL
    BY TokensAssumption, SMT DEF Time
  <1> QED  BY <1>1, TokensAssumption, SMTT(30) DEF Expiry, Unix, Time

(* No token expires later than its lifetime after its login. *)
LEMMA ExpiryWithinLifetime ==
    ASSUME NEW t \in Nat
    PROVE  Expiry(t) \in Nat /\ Time(Expiry(t)) <= t + Time(TTL)
  <1>1. t + Time(TTL) \in Nat
    BY TokensAssumption DEF Time
  <1> QED  BY <1>1, UnixFloor DEF Expiry

(* What parses was given by a login within its lifetime, if it has one. *)
LEMMA ParsedIsAlive ==
    ASSUME NEW t, NEW login, Clock, Given(t, login), Authenticates(t)
    PROVE  PastLogin(login) /\ t = TokenOf(login) /\ Alive(login, now)
  <1>1. ~Unusable(t)
    BY DEF Authenticates, Parses, Verified, Unusable
  <1>2. PastLogin(login) /\ t = TokenOf(login)
    BY <1>1 DEF Given
  <1>3. CASE login.kind = "lasting"
    BY <1>2, <1>3 DEF Alive, PastLogin
  <1>4. CASE login.kind # "lasting"
    <2>1. Expiry(login.at) \in Nat /\ Time(Expiry(login.at)) <= login.at + Time(TTL)
      BY <1>2, ExpiryWithinLifetime DEF PastLogin
    <2>2. ExpiresAt(t) = Expiry(login.at)
      BY <1>2, <1>4, <2>1
         DEF PastLogin, Kinds, TokenOf, Generate, GenerateOld, ExpiresAt, Absent
    <2>3. now <= Time(Expiry(login.at))
      BY <2>1, <2>2 DEF Authenticates, Parses, Absent
    <2>4. Time(Expiry(login.at)) \in Int /\ Time(TTL) \in Int
      BY <2>1, TokensAssumption DEF Time
    <2>5. now <= login.at + Time(TTL)
      BY <1>2, <2>1, <2>3, <2>4 DEF Clock, PastLogin
    <2> QED  BY <1>2, <2>5 DEF Alive, PastLogin
  <1> QED  BY <1>2, <1>3, <1>4

(* Two logins with the same token are of one kind, and of one second if    *)
(* the token holds one. *)
LEMMA TokenTellsLogin ==
    ASSUME NEW l, NEW m, PastLogin(l), PastLogin(m), TokenOf(l) = TokenOf(m)
    PROVE  AsGoodAs(l, m)
  <1>1. /\ Expiry(l.at) = Unix(l.at) + TTL /\ Expiry(m.at) = Unix(m.at) + TTL
        /\ Unix(l.at) \in Nat /\ Unix(m.at) \in Nat /\ TTL \in Nat
    BY ExpirySeconds, UnixFloor, TokensAssumption DEF PastLogin
  <1>2. ASSUME NEW x, PastLogin(x)
        PROVE  /\ TokenOf(x).user_uuid = IF x.kind = "framework" THEN None ELSE User
               /\ TokenOf(x).iat = IF x.kind = "framework" THEN Unix(x.at) ELSE Absent
               /\ TokenOf(x).expired = IF x.kind = "old" THEN Expiry(x.at) ELSE Absent
    BY <1>2 DEF PastLogin, Kinds, TokenOf, Generate, GenerateOld
  <1>3. l.kind = "framework" <=> m.kind = "framework"
    BY <1>2, AuthenticationAssumption
  <1>4. l.kind = "old" <=> m.kind = "old"
    BY <1>1, <1>2 DEF Absent
  <1>5. l.kind = m.kind
    BY <1>3, <1>4 DEF PastLogin, Kinds
  <1>6. l.kind # "lasting" => Unix(l.at) = Unix(m.at)
    BY <1>1, <1>2, <1>5 DEF PastLogin, Kinds
  <1> QED  BY <1>5, <1>6 DEF AsGoodAs

(* Whoever the validator accepts is standing. *)
LEMMA AcceptedIsStanding ==
    ASSUME NEW t, NEW login, RowGiven, PastLogin(login), t = TokenOf(login),
           row.present, Accepts(row, t)
    PROVE  Standing(Current(login))
  <1>1. ASSUME row.role \in SingleDeviceRoles PROVE Current(login)
    <2>1. row.token = TokenOf(login)
      BY <1>1 DEF Accepts
    <2>2. ~Unusable(TokenOf(login))
      BY AuthenticationAssumption
         DEF PastLogin, Kinds, Unusable, TokenOf, Generate, GenerateOld, Subject
    <2>3. PastLogin(latest) /\ TokenOf(latest) = TokenOf(login)
      BY <2>1, <2>2 DEF RowGiven, Given
    <2> QED  BY <2>3, TokenTellsLogin DEF Current, PastLogin, AsGoodAs
  <1> QED  BY <1>1 DEF Standing, Accepts

----------------------------------------------------------------------------
LEMMA InitEInv == Init => EInv
  BY DEF Init, EInv, Columns, Clock, SessionsGiven, RowGiven, RequestsGiven,
         FactsNow, FactsFound, Given, Unusable, NoToken, InFlight

(* The environment's steps: what a request has found is not lost. *)
LEMMA WitnessKeepsEInv ==
    ASSUME EInv, Witness, UNCHANGED request,
           Clock', SessionsGiven', RowGiven',
           session' = [d \in Devices |-> session'[d]],
           row' = [present |-> row'.present, active |-> row'.active,
                   linked |-> row'.linked, role |-> row'.role, token |-> row'.token]
    PROVE  EInv'
  <1> USE DEF EInv, Columns, request
  <1>1. Columns'
    BY DEF Witness
  <1>2. RequestsGiven'
    BY DEF RequestsGiven, Given, Unusable, PastLogin, InFlight
  <1>3. FactsNow'
    BY DEF Witness, FactsNow, InFlight
  <1>4. FactsFound'
    <2>1. \A r \in Requests : facts[r] \subseteq facts'[r]
      BY DEF Witness
    <2> QED  BY <2>1 DEF FactsFound
  <1> QED  BY <1>1, <1>2, <1>3, <1>4

LEMMA LogInKeepsEInv ==
    ASSUME EInv, NEW d \in Devices, NEW kind \in Kinds, NEW t,
           t = TokenOf([device |-> d, at |-> now, kind |-> kind]),
           LogInWith(d, t, kind)
    PROVE  EInv'
  <1> USE DEF EInv, Columns, LogInWith
  <1>1. PastLogin(latest')
    BY DEF PastLogin, Clock, NoLogin, Absent
  <1>2. Given(t, latest')
    BY <1>1 DEF Given
  <1>3. Clock'
    BY DEF Clock
  <1>4. row' = [present |-> row'.present, active |-> row'.active,
                linked |-> row'.linked, role |-> row'.role, token |-> row'.token]
        /\ row'.token = t
    OBVIOUS
  <1>5. RowGiven'
    BY <1>2, <1>4 DEF RowGiven, Given, PastLogin
  <1>6. SessionsGiven' /\ session' = [e \in Devices |-> session'[e]]
    BY <1>2 DEF SessionsGiven, Given
  <1> QED  BY <1>3, <1>4, <1>5, <1>6, WitnessKeepsEInv

LEMMA ChangeKeepsEInv ==
    ASSUME EInv, ChangeAccount \/ ChangePermissions \/ Tick
    PROVE  EInv'
  <1> USE DEF EInv, Columns, ChangeAccount, ChangePermissions, Tick, table
  <1>1. Clock'
    BY DEF Clock
  <1>2. SessionsGiven' /\ session' = [d \in Devices |-> session'[d]]
    BY DEF SessionsGiven
  <1>3. row' = [present |-> row'.present, active |-> row'.active,
                linked |-> row'.linked, role |-> row'.role, token |-> row'.token]
    OBVIOUS
  <1>4. \/ row'.token = row.token /\ latest' = latest
        \/ row'.token = NoToken /\ latest' = NoLogin
    OBVIOUS
  <1>5. RowGiven'
    BY <1>4 DEF RowGiven, Given, Unusable, NoToken, PastLogin
  <1> QED  BY <1>1, <1>2, <1>3, <1>5, WitnessKeepsEInv

(* A request arrives with what a login gave, or with what no Parse takes. *)
LEMMA ArrivesKeepsEInv ==
    ASSUME EInv, NEW r \in Requests, NEW ro, NEW t, NEW login,
           Given(t, login), Arrives(r, ro, t, login)
    PROVE  EInv'
  <1> USE DEF EInv, Columns, Arrives, table
  <1>1. Columns' /\ Clock' /\ SessionsGiven' /\ RowGiven'
    BY DEF Clock, SessionsGiven, RowGiven, Given
  <1>2. RequestsGiven'
    BY DEF RequestsGiven, Given, InFlight
  <1>3. FactsNow'
    BY DEF FactsNow, FactsOf, Holds, Alive, Fresh, Standing, Current, AsGoodAs, InFlight
  <1>4. FactsFound'
    BY DEF FactsFound
  <1> QED  BY <1>1, <1>2, <1>3, <1>4

LEMMA StrayIsUnusable == \A t \in Stray : Unusable(t)
  BY DEF Stray, Unusable, NoToken, Generate, Subject

(* A request goes on: Parse finds its login alive, Lookup finds it standing. *)
LEMMA GoesKeepsEInv ==
    ASSUME EInv, NEW r \in Requests,
           Parse(r) \/ Lookup(r) \/ Permissions(r) \/ Admit(r)
    PROVE  EInv'
  <1>0. FactsNow'
    <2>1. /\ now' = now /\ row' = row /\ latest' = latest
          /\ origin' = origin /\ facts' = facts
      BY DEF Parse, Lookup, Permissions, Admit, Goes, table, history
    <2>2. pc[r] # "idle" /\ pc' = [pc EXCEPT ![r] = pc'[r]]
      BY DEF EInv, Columns, Parse, Lookup, Permissions, Admit, Goes
    <2>3. \A q \in Requests : InFlight(q)' => InFlight(q)
      BY <2>2 DEF EInv, Columns, InFlight
    <2>4. ASSUME NEW q \in Requests
          PROVE  FactsOf(origin[q])' = FactsOf(origin[q])
      BY <2>1 DEF FactsOf, Holds, Alive, Fresh, Standing, Current, AsGoodAs
    <2> QED  BY <2>1, <2>3, <2>4 DEF EInv, FactsNow
  <1> USE DEF EInv, Columns, Parse, Lookup, Permissions, Admit, Goes, table, history
  <1>1. Columns' /\ Clock' /\ SessionsGiven' /\ RowGiven'
    BY DEF Clock, SessionsGiven, RowGiven, Given
  <1>2. RequestsGiven'
    BY DEF RequestsGiven, Given, InFlight
  <1>3. FactsNow'
    BY <1>0
  <1>4. InFlight(r) /\ Given(token[r], origin[r]) /\ FactsOf(origin[r]) \subseteq facts[r]
    BY DEF InFlight, RequestsGiven, FactsNow
  <1>5. CASE Parse(r)
    <2>1. PastLogin(origin[r]) /\ Alive(origin[r], now)
      BY <1>4, <1>5, ParsedIsAlive
    <2>2. "alive" \in facts[r]
      BY <1>4, <2>1 DEF FactsOf, Facts, Holds
    <2>3. FactsFound'
      BY <1>5, <2>1, <2>2 DEF FactsFound, PastLogin
    <2> QED  BY <1>1, <1>2, <1>3, <2>3
  <1>6. CASE Lookup(r)
    <2>1. PastLogin(origin[r]) /\ token[r] = TokenOf(origin[r])
      BY <1>4, <1>6 DEF FactsFound, Given
    <2>2. Standing(Current(origin[r]))
      BY <1>6, <2>1, AcceptedIsStanding
    <2>3. "standing" \in facts[r]
      BY <1>4, <2>2 DEF FactsOf, Facts, Holds
    <2>4. FactsFound'
      BY <1>6, <2>3 DEF FactsFound
    <2> QED  BY <1>1, <1>2, <1>3, <2>4
  <1>7. CASE Permissions(r) \/ Admit(r)
    <2>1. FactsFound'
      BY <1>7 DEF FactsFound
    <2> QED  BY <1>1, <1>2, <1>3, <2>1
  <1> QED  BY <1>5, <1>6, <1>7

LEMMA EndsKeepsEInv ==
    ASSUME EInv, NEW r \in Requests, NEW status, NEW err, Ends(r, status, err)
    PROVE  EInv'
  <1> USE DEF EInv, Columns, Ends, table
  <1>1. Columns' /\ Clock' /\ SessionsGiven' /\ RowGiven'
    BY DEF Clock, SessionsGiven, RowGiven, Given
  <1>2. RequestsGiven'
    BY DEF RequestsGiven, Given, InFlight
  <1>3. FactsNow'
    BY DEF FactsNow, FactsOf, Holds, Alive, Fresh, Standing, Current, AsGoodAs, InFlight
  <1>4. FactsFound'
    BY DEF FactsFound
  <1> QED  BY <1>1, <1>2, <1>3, <1>4

LEMMA NextEInv == EInv /\ [Next]_vars => EInv'
  <1> SUFFICES ASSUME EInv, [Next]_vars PROVE EInv'
    OBVIOUS
  <1>1. ASSUME NEW r \in Requests, Receive(r) PROVE EInv'
    <2>1. ASSUME NEW ro \in Routes, NEW d \in Devices,
                 Arrives(r, ro, session[d].token, session[d].login)
          PROVE  EInv'
      BY <2>1, ArrivesKeepsEInv DEF EInv, SessionsGiven
    <2>2. ASSUME NEW ro \in Routes, NEW t \in Stray, Arrives(r, ro, t, NoLogin)
          PROVE  EInv'
      BY <2>2, ArrivesKeepsEInv, StrayIsUnusable DEF Given
    <2> QED  BY <1>1, <2>1, <2>2 DEF Receive
  <1>2. ASSUME NEW r \in Requests, Step(r) PROVE EInv'
    <2>1. CASE Refuse(r) \/ LookupFails(r) \/ LookupRefuses(r) \/ PermissionsFail(r)
                 \/ Forbid(r)
      BY <2>1, EndsKeepsEInv
         DEF Refuse, LookupFails, LookupRefuses, PermissionsFail, Forbid, Reject
    <2>2. CASE Succeed(r) \/ Fail(r)
      BY <2>2, EndsKeepsEInv DEF Succeed, Fail
    <2>3. CASE Parse(r) \/ Lookup(r) \/ Permissions(r) \/ Admit(r)
      BY <2>3, GoesKeepsEInv
    <2> QED  BY <1>2, <2>1, <2>2, <2>3 DEF Step
  <1>3. ASSUME NEW d \in Devices, LogIn(d) \/ LogInOld(d) PROVE EInv'
    <2> DEFINE login(kind) == [device |-> d, at |-> now, kind |-> kind]
    <2>1. /\ Generate(User, now) = TokenOf(login("framework"))
          /\ GenerateOld(User, Expiry(now)) = TokenOf(login("old"))
          /\ GenerateOld(User, Absent) = TokenOf(login("lasting"))
      BY DEF TokenOf
    <2> QED  BY <1>3, <2>1, LogInKeepsEInv DEF LogIn, LogInOld, Kinds
  <1>4. CASE ChangeAccount \/ ChangePermissions \/ Tick
    BY <1>4, ChangeKeepsEInv
  <1>5. CASE UNCHANGED vars
    BY <1>5 DEF vars, request, table, EInv, Columns, Clock, SessionsGiven, RowGiven,
       RequestsGiven, FactsNow, FactsFound, InFlight, FactsOf, Holds, Alive, Fresh,
       Standing, Current, AsGoodAs, Given
  <1> QED
    BY <1>1, <1>2, <1>3, <1>4, <1>5 DEF Next

(* A handler runs only for a login that was within its lifetime, or whose  *)
(* token carries no expiry, and of a user who was standing, at some moment *)
(* of the request (Parse, then the validator of jwt.NewAccountStrategy).   *)
THEOREM EntitledOnly == Spec => []ServedWhileEntitled
  <1>1. EInv => ServedWhileEntitled
    BY DEF EInv, FactsFound, ServedWhileEntitled
  <1> QED  BY <1>1, InitEInv, NextEInv, PTL DEF Spec

----------------------------------------------------------------------------
(* The other side: whoever gets a 401 had a cause coming.                  *)

(* A second is not over before the next one begins. *)
LEMMA UnixCeiling ==
    ASSUME NEW t \in Nat
    PROVE  t < Time(Unix(t)) + Rate
  BY TokensAssumption, SMTT(30) DEF Unix, Time

(* A token is good for at least its lifetime less a second, and for ever   *)
(* if it carries no expiry. *)
LEMMA FreshAuthenticates ==
    ASSUME NEW t, NEW login, Clock, Given(t, login), Fresh(login, now)
    PROVE  Authenticates(t)
  <1>1. PastLogin(login) /\ t = TokenOf(login)
    BY DEF Given, Fresh
  <1>2. t.signed /\ Subject(t) # None /\ t.iss = Issuer /\ t # NoToken
    BY <1>1, AuthenticationAssumption
       DEF PastLogin, Kinds, TokenOf, Generate, GenerateOld, Subject, NoToken
  <1>3. CASE login.kind = "lasting"
    <2>1. t.exp = Absent /\ ExpiresAt(t) = Absent
      BY <1>1, <1>3 DEF TokenOf, GenerateOld, ExpiresAt
    <2> QED  BY <1>2, <2>1 DEF Authenticates, Parses, Verified
  <1>4. CASE login.kind # "lasting"
    <2> DEFINE exp == Expiry(login.at)
    <2>1. exp \in Nat
      BY <1>1, ExpiryWithinLifetime DEF PastLogin
    <2>2. now < Time(exp)
      <3>1. login.at + Time(TTL) \in Nat
        BY <1>1, TokensAssumption DEF Time, PastLogin
      <3>2. login.at + Time(TTL) < Time(exp) + Rate
        BY <3>1, UnixCeiling DEF Expiry
      <3>3. Time(exp) \in Int
        BY <2>1, TokensAssumption DEF Time
      <3>4. now + Rate <= login.at + Time(TTL)
        BY <1>4 DEF Fresh
      <3> QED  BY <3>1, <3>2, <3>3, <3>4, TokensAssumption DEF Clock
    <2>3. t.exp \in {exp, Absent} /\ ExpiresAt(t) = exp
      BY <1>1, <1>4, <2>1
         DEF PastLogin, Kinds, TokenOf, Generate, GenerateOld, ExpiresAt, Absent
    <2>4. now <= Time(exp)
      BY <2>1, <2>2, TokensAssumption DEF Clock, Time
    <2> HIDE DEF exp
    <2> QED  BY <1>2, <2>2, <2>3, <2>4 DEF Authenticates, Parses, Verified
  <1> QED  BY <1>3, <1>4

(* The validator turns nobody away who is standing with the latest login. *)
LEMMA StandingIsAccepted ==
    ASSUME NEW t, NEW login, RowGiven, PastLogin(login), t = TokenOf(login),
           Standing(login = latest)
    PROVE  row.present /\ Accepts(row, t)
  <1>1. ASSUME row.role \in SingleDeviceRoles PROVE row.token = t
    <2>1. login = latest
      BY <1>1 DEF Standing
    <2> QED  BY <2>1 DEF RowGiven, Given, PastLogin
  <1> QED  BY <1>1 DEF Standing, Accepts

Caused(r) == answers[r] = <<401>> => facts[r] \cap {"stale", "barred"} # {}

(* An answer that is no 401 needs no cause. *)
LEMMA EndsKeepsCaused ==
    ASSUME EInv, IInv, \A q \in Requests : Caused(q),
           NEW r \in Requests, NEW status, NEW err,
           InFlight(r), Ends(r, status, err),
           status = 401 => facts[r] \cap {"stale", "barred"} # {}
    PROVE  \A q \in Requests : Caused(q)'
  <1>1. answers[r] = <<>>
    BY DEF IInv, AnsweredAtEnd
  <1>2. answers' = [answers EXCEPT ![r] = <<status>>]
    BY <1>1 DEF Ends, Answer
  <1>3. answers'[r] = <<status>> /\ \A q \in Requests \ {r} : answers'[q] = answers[q]
    BY <1>2 DEF IInv, Shape
  <1>4. Caused(r)'
    <2>1. <<status>> = <<401>> => status = 401
      OBVIOUS
    <2> QED  BY <1>3, <2>1 DEF Caused, Ends
  <1>5. ASSUME NEW q \in Requests \ {r} PROVE Caused(q)'
    BY <1>3 DEF Caused, Ends
  <1> QED  BY <1>4, <1>5

LEMMA NextCaused ==
    IInv /\ EInv /\ NoFalseLogout /\ [Next]_vars => NoFalseLogout'
  <1> SUFFICES ASSUME IInv, EInv, NoFalseLogout, [Next]_vars
               PROVE  \A q \in Requests : Caused(q)'
    BY DEF NoFalseLogout, Caused
  <1>0. \A q \in Requests : Caused(q)
    BY DEF NoFalseLogout, Caused
  <1>1. ASSUME NEW r \in Requests, Receive(r) PROVE \A q \in Requests : Caused(q)'
    <2>1. answers' = [answers EXCEPT ![r] = <<>>]
          /\ \A q \in Requests \ {r} : facts'[q] = facts[q]
      BY <1>1 DEF Receive, Arrives, EInv, Columns
    <2>2. Caused(r)'
      BY <2>1 DEF Caused, IInv, Shape
    <2>3. ASSUME NEW q \in Requests \ {r} PROVE Caused(q)'
      BY <1>0, <2>1 DEF Caused, IInv, Shape
    <2> QED  BY <2>2, <2>3
  <1>2. ASSUME NEW r \in Requests, Step(r) PROVE \A q \in Requests : Caused(q)'
    <2>0. InFlight(r) /\ Given(token[r], origin[r]) /\ FactsOf(origin[r]) \subseteq facts[r]
      <3>1. InFlight(r)
        BY <1>2 DEF Step, Refuse, Parse, LookupFails, LookupRefuses, Lookup,
           PermissionsFail, Permissions, Forbid, Admit, Succeed, Fail, InFlight
      <3> QED  BY <3>1 DEF EInv, RequestsGiven, FactsNow
    <2>1. CASE Refuse(r)
      <3>1. ~Fresh(origin[r], now)
        BY <2>0, <2>1, FreshAuthenticates DEF Refuse, EInv
      <3>2. "stale" \in facts[r]
        BY <2>0, <3>1 DEF FactsOf, Facts, Holds
      <3> QED  BY <1>0, <2>0, <2>1, <3>2, EndsKeepsCaused DEF Refuse, Reject
    <2>2. CASE LookupRefuses(r)
      <3>1. PastLogin(origin[r]) /\ token[r] = TokenOf(origin[r])
        BY <2>0, <2>2 DEF LookupRefuses, EInv, FactsFound, Given
      <3>2. ~Standing(origin[r] = latest)
        BY <2>2, <3>1, StandingIsAccepted DEF LookupRefuses, EInv
      <3>3. "barred" \in facts[r]
        BY <2>0, <3>2 DEF FactsOf, Facts, Holds
      <3> QED  BY <1>0, <2>0, <2>2, <3>3, EndsKeepsCaused DEF LookupRefuses, Reject
    <2>3. CASE LookupFails(r) \/ PermissionsFail(r) \/ Forbid(r)
      <3>1. /\ Error(NormalizeDBError(Unexpected)) # 401
            /\ Error(Unexpected) # 401
            /\ Forbidden # 401
        <4>1. CodeOf(Unexpected) = "INTERNAL_SERVER_ERROR" /\ ~IsDBConstraintError(Unexpected)
          BY DEF CodeOf, Unexpected, IsDBConstraintError, IsDuplicateError,
                 IsForeignKeyError, IsNotNullError, IsCheckConstraintError, IsPostgres,
                 DuplicatedKey
        <4>2. Error(Unexpected) = 500
          BY <4>1 DEF Error, HttpStatus, Unexpected
        <4> QED  BY <4>1, <4>2, AppStatus DEF NormalizeDBError, HttpStatus, App, Forbidden
      <3> QED  BY <1>0, <2>0, <2>3, <3>1, EndsKeepsCaused
               DEF LookupFails, PermissionsFail, Forbid, Reject
    <2>4. CASE Succeed(r) \/ Fail(r)
      BY <1>0, <2>0, <2>4, EndsKeepsCaused, HandlersAssumption DEF Succeed, Fail
    <2>5. CASE Parse(r) \/ Lookup(r) \/ Permissions(r) \/ Admit(r)
      BY <1>0, <2>5 DEF Parse, Lookup, Permissions, Admit, Goes, history, Caused
    <2> QED  BY <1>2, <2>1, <2>2, <2>3, <2>4, <2>5 DEF Step
  <1>3. ASSUME Witness, UNCHANGED request PROVE \A q \in Requests : Caused(q)'
    <2>1. answers' = answers
      BY <1>3 DEF request
    <2>2. \A q \in Requests : facts[q] \subseteq facts'[q]
      BY <1>3 DEF Witness
    <2> QED  BY <1>0, <2>1, <2>2 DEF Caused
  <1>4. CASE \/ \E d \in Devices : LogIn(d) \/ LogInOld(d)
             \/ ChangeAccount \/ ChangePermissions \/ Tick
    BY <1>3, <1>4 DEF LogIn, LogInOld, LogInWith, ChangeAccount, ChangePermissions, Tick
  <1>5. CASE UNCHANGED vars
    BY <1>0, <1>5 DEF vars, request, Caused
  <1> QED  BY <1>1, <1>2, <1>4, <1>5 DEF Next

(* A 401 goes only to a request whose login was, at some moment of it,     *)
(* within a second of its end or past it, or that was not entitled.  A     *)
(* token without an expiry has no end: its age is never the cause.         *)
THEOREM LogoutsHaveCauses == Spec => []NoFalseLogout
  <1>1. Init => NoFalseLogout
    <2>1. <<>> # <<401>>
      OBVIOUS
    <2> QED  BY <2>1 DEF Init, NoFalseLogout
  <1> QED  BY <1>1, InitIInv, NextIInv, InitEInv, NextEInv, NextCaused, PTL DEF Spec

----------------------------------------------------------------------------
(* Types, and what a client is told of an error.                           *)

(* A later moment has no earlier second. *)
LEMMA UnixMonotone ==
    ASSUME NEW t \in Nat, NEW u \in Nat, t <= u
    PROVE  Unix(t) <= Unix(u)
  BY TokensAssumption, SMTT(30) DEF Unix

(* Every second a token may hold is among those the type knows.            *)
LEMMA TokenSeconds ==
    ASSUME NEW t \in 0..MaxTime
    PROVE  Unix(t) \in Seconds /\ Expiry(t) \in Seconds
  <1>1. t \in Nat /\ MaxTime \in Nat /\ t <= MaxTime
    BY AuthenticationAssumption
  <1>2. Time(TTL) \in Nat
    BY TokensAssumption, SMT DEF Time
  <1>3. Expiry(t) = Unix(t) + TTL /\ Unix(t) \in Nat /\ Expiry(t) \in Nat
    BY <1>1, ExpirySeconds, UnixFloor, TokensAssumption
  <1>4. Expiry(MaxTime) = Unix(MaxTime) + TTL /\ Unix(MaxTime) \in Nat
    BY <1>1, ExpirySeconds, UnixFloor
  <1>5. Unix(t) <= Unix(MaxTime)
    BY <1>1, UnixMonotone
  <1> QED  BY <1>3, <1>4, <1>5, TokensAssumption DEF Seconds

(* The tokens that are given, and those that are not, are well formed.     *)
LEMMA TokenTypes ==
    ASSUME NEW t \in 0..MaxTime
    PROVE  /\ Generate(User, t) \in Claims
           /\ GenerateOld(User, Expiry(t)) \in Claims
           /\ GenerateOld(User, Absent) \in Claims
  <1>1. Unix(t) \in Seconds /\ Expiry(t) \in Seconds /\ Absent \in Seconds
    BY TokenSeconds DEF Seconds
  <1> QED  BY <1>1 DEF Generate, GenerateOld, Claims

(* The values of what is not there are of the types too. *)
LEMMA BlankTypes ==
    /\ NoToken \in Claims
    /\ NoAccount \in Accounts
    /\ NoLogin \in Logins
  <1>1. NoToken \in Claims
    BY DEF NoToken, Claims, Seconds
  <1> QED  BY <1>1 DEF NoAccount, Accounts, Logins

LEMMA StrayTypes ==
    ASSUME now \in 0..MaxTime
    PROVE  Stray \subseteq Claims
  <1> DEFINE ours == Generate(User, now)
  <1>1. ours \in Claims
    BY TokenTypes
  <1>2. NoToken \in Claims
    BY BlankTypes
  <1>3. /\ [ours EXCEPT !.sub = None] \in Claims
        /\ [ours EXCEPT !.signed = FALSE] \in Claims
        /\ [ours EXCEPT !.iss = None] \in Claims
    BY <1>1 DEF Claims
  <1> QED  BY <1>2, <1>3 DEF Stray

LEMMA TypeInit == Init => TypeOK
  <1> SUFFICES ASSUME Init PROVE TypeOK
    OBVIOUS
  <1>1. row \in Accounts
    BY BlankTypes DEF Init, Accounts
  <1>2. <<>> \in Seq(Nat)
    OBVIOUS
  <1> QED
    BY <1>1, <1>2, BlankTypes, AuthenticationAssumption DEF Init, TypeOK

LEMMA TypeWitness ==
    ASSUME TypeOK, Witness, UNCHANGED request, row'.role \in Roles \cup {""},
           granted' \subseteq Roles
    PROVE  /\ facts' \in [Requests -> SUBSET Facts]
           /\ roles' \in [Requests -> SUBSET (Roles \cup {""})]
           /\ grants' \in [Requests -> SUBSET Roles]
           /\ pc' = pc /\ token' = token /\ route' = route /\ account' = account
           /\ codes' = codes /\ answers' = answers /\ origin' = origin
           /\ fault' = fault
  <1>1. \A login : FactsOf(login)' \subseteq Facts
    BY DEF FactsOf
  <1> QED  BY <1>1 DEF Witness, TypeOK, request

LEMMA TypeTable ==
    ASSUME TypeOK,
           \/ \E d \in Devices : LogIn(d) \/ LogInOld(d)
           \/ ChangeAccount \/ ChangePermissions \/ Tick
    PROVE  TypeOK'
  <1>1. /\ now \in 0..MaxTime /\ row \in Accounts /\ granted \subseteq Roles
        /\ latest \in Logins /\ changes \in 0..MaxChanges
        /\ session \in [Devices -> [token : Claims, login : Logins]]
    BY DEF TypeOK
  <1>2. Witness /\ UNCHANGED request
    BY DEF LogIn, LogInOld, LogInWith, ChangeAccount, ChangePermissions, Tick
  <1>3. /\ now' \in 0..MaxTime /\ row' \in Accounts /\ granted' \subseteq Roles
        /\ latest' \in Logins /\ changes' \in 0..MaxChanges
        /\ session' \in [Devices -> [token : Claims, login : Logins]]
    <2>1. ASSUME NEW d \in Devices, NEW t \in Claims, NEW kind \in Kinds,
                 LogInWith(d, t, kind)
          PROVE  /\ now' \in 0..MaxTime /\ row' \in Accounts /\ granted' \subseteq Roles
                 /\ latest' \in Logins /\ changes' \in 0..MaxChanges
                 /\ session' \in [Devices -> [token : Claims, login : Logins]]
      <3>1. latest' \in Logins
        BY <1>1, <2>1 DEF LogInWith, Logins
      <3>2. [token |-> t, login |-> latest'] \in [token : Claims, login : Logins]
        BY <3>1
      <3>3. session' \in [Devices -> [token : Claims, login : Logins]]
        BY <1>1, <2>1, <3>2 DEF LogInWith
      <3>4. row' \in Accounts
        BY <1>1, <2>1 DEF LogInWith, Accounts
      <3> QED
        BY <1>1, <2>1, <3>1, <3>3, <3>4, AuthenticationAssumption DEF LogInWith
    <2>2. CASE ChangeAccount
      <3>1. NoToken \in Claims /\ NoLogin \in Logins
        BY BlankTypes
      <3>2. row' \in Accounts
        BY <1>1, <2>2, <3>1 DEF ChangeAccount, Accounts
      <3> QED
        BY <1>1, <2>2, <3>1, <3>2, AuthenticationAssumption DEF ChangeAccount
    <2>3. CASE ChangePermissions
      BY <1>1, <2>3, AuthenticationAssumption DEF ChangePermissions
    <2>4. CASE Tick
      BY <1>1, <2>4, AuthenticationAssumption DEF Tick, table
    <2> QED
      BY <1>1, <2>1, <2>2, <2>3, <2>4, TokenTypes DEF LogIn, LogInOld, Kinds
  <1>4. row'.role \in Roles \cup {""}
    BY <1>3 DEF Accounts
  <1> QED  BY <1>2, <1>3, <1>4, TypeWitness DEF TypeOK

LEMMA TypeArrives ==
    ASSUME TypeOK, NEW r \in Requests, NEW ro \in Routes, NEW t \in Claims,
           NEW login \in Logins, Arrives(r, ro, t, login)
    PROVE  TypeOK'
  <1>1. NoAccount \in Accounts
    BY BlankTypes
  <1>2. FactsOf(login) \subseteq Facts
    BY DEF FactsOf
  <1>3. row.role \in Roles \cup {""} /\ granted \subseteq Roles
    BY DEF TypeOK, Accounts
  <1>4. answers' \in [Requests -> Seq(Nat)]
    <2>1. answers \in [Requests -> Seq(Nat)] /\ answers' = [answers EXCEPT ![r] = <<>>]
      BY DEF TypeOK, Arrives
    <2> QED  BY <2>1
  <1> QED  BY <1>1, <1>2, <1>3, <1>4 DEF TypeOK, Arrives, table

LEMMA TypeEnds ==
    ASSUME TypeOK, NEW r \in Requests, NEW status \in Nat,
           NEW err \in HandlerErrors \cup {NoFault}, Ends(r, status, err)
    PROVE  TypeOK'
  <1>1. answers' \in [Requests -> Seq(Nat)]
    <2>1. answers \in [Requests -> Seq(Nat)]
            /\ answers' = [answers EXCEPT ![r] = Append(@, status)]
      BY DEF TypeOK, Ends, Answer
    <2> QED  BY <2>1
  <1> QED  BY <1>1, BlankTypes DEF TypeOK, Ends, table

LEMMA TypeGoes ==
    ASSUME TypeOK, NEW r \in Requests,
           Parse(r) \/ Lookup(r) \/ Permissions(r) \/ Admit(r)
    PROVE  TypeOK'
  <1>1. /\ UNCHANGED <<now, table, session, token, route, origin, answers, fault, history>>
        /\ \E next \in {"lookup", "permissions", "guard", "handle"} :
              pc' = [pc EXCEPT ![r] = next]
        /\ account' = account \/ account' = [account EXCEPT ![r] = row]
        /\ \E b \in BOOLEAN : codes' = codes \/ codes' = [codes EXCEPT ![r] = b]
    BY DEF Parse, Lookup, Permissions, Admit, Goes
  <1>2. /\ pc \in [Requests -> {"idle", "parse", "lookup", "permissions", "guard", "handle"}]
        /\ account \in [Requests -> Accounts] /\ row \in Accounts
        /\ codes \in [Requests -> BOOLEAN]
    BY DEF TypeOK
  <1>3. pc' \in [Requests -> {"idle", "parse", "lookup", "permissions", "guard", "handle"}]
    BY <1>1, <1>2
  <1>4. account' \in [Requests -> Accounts]
    BY <1>1, <1>2
  <1>5. codes' \in [Requests -> BOOLEAN]
    BY <1>1, <1>2
  <1> QED  BY <1>1, <1>3, <1>4, <1>5 DEF TypeOK, table, history

LEMMA TypeStep == TypeOK /\ [Next]_vars => TypeOK'
  <1> SUFFICES ASSUME TypeOK, [Next]_vars PROVE TypeOK'
    OBVIOUS
  <1>1. ASSUME NEW r \in Requests, Receive(r) PROVE TypeOK'
    <2>1. \A d \in Devices : session[d].token \in Claims /\ session[d].login \in Logins
      BY DEF TypeOK
    <2>2. Stray \subseteq Claims
      BY StrayTypes DEF TypeOK
    <2>3. NoLogin \in Logins
      BY DEF Logins
    <2> QED  BY <1>1, <2>1, <2>2, <2>3, TypeArrives DEF Receive
  <1>2. ASSUME NEW r \in Requests, Step(r) PROVE TypeOK'
    <2>1. CASE Refuse(r) \/ LookupFails(r) \/ LookupRefuses(r) \/ PermissionsFail(r)
                 \/ Forbid(r)
      BY <2>1, TypeEnds, StatusIsNat
         DEF Refuse, LookupFails, LookupRefuses, PermissionsFail, Forbid, Reject,
             Unauthorized, Forbidden
    <2>2. CASE Succeed(r) \/ Fail(r)
      BY <2>2, TypeEnds, StatusIsNat DEF Succeed, Fail
    <2>3. CASE Parse(r) \/ Lookup(r) \/ Permissions(r) \/ Admit(r)
      BY <2>3, TypeGoes
    <2> QED  BY <1>2, <2>1, <2>2, <2>3 DEF Step
  <1>3. CASE UNCHANGED vars
    BY <1>3 DEF vars, request, table, TypeOK
  <1> QED
    BY <1>1, <1>2, <1>3, TypeTable DEF Next

(* Every variable keeps its type, for any clock rate, lifetime, requests,  *)
(* devices and roles. *)
THEOREM TypeCorrect == Spec => []TypeOK
  BY TypeInit, TypeStep, PTL DEF Spec

(* The errors there are: of this framework's codes, of Postgres, of gorm,  *)
(* or unexpected.  A message is registered only for a constraint the       *)
(* framework knows how to take (not for an exclusion, 23P01). *)
KnownErrors ==
    {App(code) : code \in Codes}
      \cup {Postgres(state, FALSE) : state \in STRING}
      \cup {Postgres(state, TRUE) : state \in Violations}
      \cup {DuplicatedKey, Unexpected}

(* The fault of a request is what it has been answered for. *)
FaultIsAnswered ==
    \A r \in Requests :
        /\ InFlight(r) => fault[r] = NoFault
        /\ fault[r] # NoFault =>
              /\ fault[r] \in HandlerErrors
              /\ answers[r] \in {<<Error(fault[r])>>,
                                 <<Error(NormalizeDBError(fault[r]))>>}

(* The table of statuses: raw and normalised are of one class, and it is   *)
(* the right one.                                                          *)
LEMMA ClassOfStatus ==
    ASSUME NEW err \in KnownErrors
    PROVE  /\ Error(err) < 500 <=> Mendable(err)
           /\ Error(NormalizeDBError(err)) < 500 <=> Mendable(err)
  <1>2. ASSUME NEW code \in Codes
        PROVE  HttpStatus(App(code)) < 500
                 <=> code \notin {"INTERNAL_SERVER_ERROR", "SERVICE_UNAVAILABLE"}
    BY DEF Codes, HttpStatus, App
  <1>3. Error(NormalizeDBError(err)) = HttpStatus(App(CodeOf(err)))
    BY AppStatus DEF NormalizeDBError
  <1>4. ASSUME NEW code \in Codes, err = App(code)
        PROVE  /\ Error(err) < 500 <=> Mendable(err)
               /\ Error(NormalizeDBError(err)) < 500 <=> Mendable(err)
    <2>1. CodeOf(err) = code
      BY <1>4 DEF CodeOf, App, IsDuplicateError, IsForeignKeyError, IsNotNullError,
                  IsCheckConstraintError, IsPostgres, DuplicatedKey
    <2>2. Mendable(err)
            <=> code \notin {"INTERNAL_SERVER_ERROR", "SERVICE_UNAVAILABLE"}
      BY <1>4 DEF Mendable, App, DuplicatedKey
    <2> QED  BY AppStatus, <1>2, <1>3, <1>4, <2>1, <2>2
  <1>5. ASSUME IsDBConstraintError(err), Mendable(err),
               CodeOf(err) \in {"CONFLICT", "BAD_REQUEST"}
        PROVE  /\ Error(err) < 500 <=> Mendable(err)
               /\ Error(NormalizeDBError(err)) < 500 <=> Mendable(err)
    <2>1. Error(err) = HttpStatus(App(CodeOf(err)))
      BY <1>5 DEF Error, NormalizeDBError
    <2> QED  BY <1>2, <1>3, <1>5, <2>1 DEF Codes
  <1>6. ASSUME ~IsDBConstraintError(err), ~Mendable(err), err.kind # "app",
               CodeOf(err) = "INTERNAL_SERVER_ERROR"
        PROVE  /\ Error(err) < 500 <=> Mendable(err)
               /\ Error(NormalizeDBError(err)) < 500 <=> Mendable(err)
    <2>1. Error(err) = 500
      BY <1>6 DEF Error, HttpStatus
    <2> QED  BY <1>2, <1>3, <1>6, <2>1 DEF Codes
  <1> USE DEF IsDBConstraintError, IsDuplicateError, IsForeignKeyError, IsNotNullError,
              IsCheckConstraintError, IsPostgres, Mendable, CodeOf
  <1>7. ASSUME NEW state \in Violations, NEW named \in BOOLEAN,
               err = Postgres(state, named)
        PROVE  /\ IsDBConstraintError(err) /\ Mendable(err)
               /\ CodeOf(err) \in {"CONFLICT", "BAD_REQUEST"}
    BY <1>7 DEF Postgres, Violations
  <1>8. ASSUME NEW state, state \notin Violations, err = Postgres(state, FALSE)
        PROVE  /\ ~IsDBConstraintError(err) /\ ~Mendable(err) /\ err.kind # "app"
               /\ CodeOf(err) = "INTERNAL_SERVER_ERROR"
    BY <1>8 DEF Postgres, Violations, DuplicatedKey
  <1>9. CASE err = DuplicatedKey
    BY <1>5, <1>9 DEF DuplicatedKey
  <1>10. CASE err = Unexpected
    BY <1>6, <1>10 DEF Unexpected, DuplicatedKey
  <1> HIDE DEF IsDBConstraintError, IsDuplicateError, IsForeignKeyError, IsNotNullError,
               IsCheckConstraintError, IsPostgres, Mendable, CodeOf
  <1>11. ASSUME NEW state, NEW named \in BOOLEAN, err = Postgres(state, named),
                named => state \in Violations
         PROVE  /\ Error(err) < 500 <=> Mendable(err)
                /\ Error(NormalizeDBError(err)) < 500 <=> Mendable(err)
    <2>1. CASE state \in Violations
      BY <1>5, <1>7, <1>11, <2>1
    <2>2. CASE state \notin Violations
      BY <1>6, <1>8, <1>11, <2>2
    <2> QED  BY <2>1, <2>2
  <1> QED  BY <1>4, <1>9, <1>10, <1>11 DEF KnownErrors

LEMMA FaultStep ==
    ASSUME IInv, TypeOK, FaultIsAnswered, [Next]_vars
    PROVE  FaultIsAnswered'
  <1>1. ASSUME NEW r \in Requests, NEW status \in Nat, NEW err, InFlight(r),
               Ends(r, status, err),
               \/ err = NoFault
               \/ err \in HandlerErrors
                    /\ status \in {Error(err), Error(NormalizeDBError(err))}
        PROVE  FaultIsAnswered'
    <2>1. answers[r] = <<>>
      BY <1>1 DEF IInv, AnsweredAtEnd
    <2>2. /\ pc' = [pc EXCEPT ![r] = "idle"]
          /\ fault' = [fault EXCEPT ![r] = err]
          /\ answers' = [answers EXCEPT ![r] = Append(@, status)]
          /\ answers \in [Requests -> Seq(Nat)]
      BY <1>1 DEF Ends, Answer, TypeOK
    <2>3. /\ answers'[r] = <<status>>
          /\ \A q \in Requests \ {r} : answers'[q] = answers[q]
      BY <2>1, <2>2
    <2> SUFFICES ASSUME NEW q \in Requests
                 PROVE  /\ InFlight(q)' => fault'[q] = NoFault
                        /\ fault'[q] # NoFault =>
                              /\ fault'[q] \in HandlerErrors
                              /\ answers'[q] \in {<<Error(fault'[q])>>,
                                                  <<Error(NormalizeDBError(fault'[q]))>>}
      BY DEF FaultIsAnswered
    <2>4. CASE q = r
      BY <1>1, <2>2, <2>3, <2>4 DEF InFlight, TypeOK
    <2>5. CASE q # r
      BY <2>2, <2>3, <2>5 DEF InFlight, TypeOK, FaultIsAnswered
    <2> QED  BY <2>4, <2>5
  <1>2. ASSUME NEW r \in Requests, NEW ro, NEW t, NEW login, Arrives(r, ro, t, login)
        PROVE  FaultIsAnswered'
    <2>1. /\ pc' = [pc EXCEPT ![r] = "parse"]
          /\ fault' = [fault EXCEPT ![r] = NoFault]
          /\ answers' = [answers EXCEPT ![r] = <<>>]
      BY <1>2 DEF Arrives
    <2>2. fault'[r] = NoFault
      BY <2>1 DEF TypeOK
    <2>3. \A q \in Requests \ {r} :
            pc'[q] = pc[q] /\ fault'[q] = fault[q] /\ answers'[q] = answers[q]
      BY <2>1 DEF TypeOK
    <2> QED  BY <2>2, <2>3 DEF FaultIsAnswered, InFlight
  <1>3. ASSUME NEW r \in Requests,
               Parse(r) \/ Lookup(r) \/ Permissions(r) \/ Admit(r)
        PROVE  FaultIsAnswered'
    <2>1. /\ InFlight(r) /\ UNCHANGED <<answers, fault>>
          /\ \A q \in Requests : InFlight(q)' => InFlight(q)
      BY <1>3 DEF Parse, Lookup, Permissions, Admit, Goes, InFlight, TypeOK
    <2> QED  BY <2>1 DEF FaultIsAnswered
  <1>4. CASE UNCHANGED request
    BY <1>4 DEF request, FaultIsAnswered, InFlight
  <1>5. ASSUME NEW r \in Requests, Step(r) PROVE FaultIsAnswered'
    <2>1. CASE Refuse(r) \/ LookupFails(r) \/ LookupRefuses(r) \/ PermissionsFail(r)
                 \/ Forbid(r) \/ Succeed(r)
      <3>1. InFlight(r) /\ \E status \in Nat : Ends(r, status, NoFault)
        <4>1. CASE Refuse(r) \/ LookupRefuses(r)
          BY <4>1, StatusIsNat DEF Refuse, LookupRefuses, Reject, Unauthorized, InFlight
        <4>2. CASE LookupFails(r) \/ PermissionsFail(r)
          BY <4>2, StatusIsNat DEF LookupFails, PermissionsFail, Reject, InFlight
        <4>3. CASE Forbid(r)
          BY <4>3, StatusIsNat DEF Forbid, Reject, Forbidden, InFlight
        <4>4. CASE Succeed(r)
          BY <4>4 DEF Succeed, InFlight
        <4> QED  BY <2>1, <4>1, <4>2, <4>3, <4>4
      <3> QED  BY <1>1, <3>1
    <2>2. CASE Fail(r)
      BY <1>1, <2>2, StatusIsNat DEF Fail, InFlight
    <2> QED  BY <1>3, <1>5, <2>1, <2>2 DEF Step
  <1>6. CASE \/ \E d \in Devices : LogIn(d) \/ LogInOld(d)
             \/ ChangeAccount \/ ChangePermissions \/ Tick
    BY <1>4, <1>6 DEF LogIn, LogInOld, LogInWith, ChangeAccount, ChangePermissions, Tick
  <1> QED
    BY <1>2, <1>4, <1>5, <1>6 DEF Next, Receive, vars

(* What the client can mend reaches it as a 4xx and the rest as a 5xx, raw *)
(* or through NormalizeDBError, for all the errors the framework knows.    *)
THEOREM ErrorsKeepTheirClass ==
    ASSUME HandlerErrors \subseteq KnownErrors
    PROVE  Spec => []FaultsKeepTheirClass
  <1>1. Init => FaultIsAnswered
    BY DEF Init, FaultIsAnswered, InFlight
  <1>2. IInv /\ TypeOK /\ FaultIsAnswered /\ [Next]_vars => FaultIsAnswered'
    BY FaultStep
  <1>3. FaultIsAnswered => FaultsKeepTheirClass
    <2> SUFFICES ASSUME FaultIsAnswered, NEW r \in Requests, fault[r] # NoFault,
                        NEW n \in DOMAIN answers[r]
                 PROVE  (answers[r][n] < 500) <=> Mendable(fault[r])
      BY DEF FaultsKeepTheirClass
    <2>1. /\ fault[r] \in KnownErrors
          /\ \/ answers[r] = <<Error(fault[r])>>
             \/ answers[r] = <<Error(NormalizeDBError(fault[r]))>>
      BY DEF FaultIsAnswered
    <2>2. answers[r][n] \in {Error(fault[r]), Error(NormalizeDBError(fault[r]))}
      BY <2>1
    <2> QED  BY <2>1, <2>2, ClassOfStatus
  <1> QED  BY <1>1, <1>2, <1>3, Invariance, TypeCorrect, PTL DEF Spec
=============================================================================
