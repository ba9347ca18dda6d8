------------------------------- MODULE Tokens -------------------------------
(***************************************************************************)
(* authentication/jwt/jwt.go: the tokens of a Manager.  A token is its     *)
(* payload and whether it carries the Manager's signature: two tokens with *)
(* the same payload are the same string.  Moments are counted in ticks,    *)
(* Rate of them a second; a payload holds whole seconds.  The checks of    *)
(* golang-jwt (signature and exp) are external.                          *)
(***************************************************************************)
EXTENDS Integers

CONSTANTS
    Rate,    \* ticks of the clock in a second
    TTL,     \* Config.DefaultTTL, in seconds
    Issuer   \* Config.Issuer

Absent == -1

None == "none"

ASSUME TokensAssumption ==
    /\ Rate \in Nat \ {0}
    /\ TTL \in Nat \ {0}

Unix(t) == t \div Rate

(* unixToTime: the moment of a claim. *)
Time(seconds) == seconds * Rate

(* The Manager's default expiry for a token made now. *)
Expiry(now) == Unix(now + Time(TTL))

----------------------------------------------------------------------------
(* Variant: the lifetime is added in ticks, not in seconds. *)
GenerateRounded(sub, now) ==
    [signed |-> TRUE, sub |-> sub, user_uuid |-> None, exp |-> Unix(now) + Time(TTL),
     expired |-> Absent, iat |-> Unix(now), iss |-> Issuer]

(* Generate with no claims but the subject: nothing in the payload tells   *)
(* two tokens of one second apart.  Claims that no login of this framework *)
(* gives (an expiry of its own, nbf, Extra) are left out. *)
Generate(sub, now) ==
    [signed |-> TRUE, sub |-> sub, user_uuid |-> None, exp |-> Expiry(now),
     expired |-> Absent, iat |-> Unix(now), iss |-> Issuer]

(* What the library checks, for the claims that are there. *)
Verified(token, now) ==
    /\ token.signed
    /\ token.exp # Absent => now < Time(token.exp)

(* Claims.ExpiresAt: older tokens have `expired` where others have `exp`. *)
ExpiresAt(token) == IF token.exp # Absent THEN token.exp ELSE token.expired

(* Claims.SubjectUUID: `user_uuid` comes before `sub`. *)
Subject(token) == IF token.user_uuid # None THEN token.user_uuid ELSE token.sub

(* Variant: without the check of lines 190-200. *)
ParsesExpOnly(token, now) ==
    /\ Verified(token, now)
    /\ Issuer # None => token.iss = Issuer

(* Parse returns the claims and no error. *)
Parses(token, now) ==
    /\ Verified(token, now)
    /\ ExpiresAt(token) # Absent => now <= Time(ExpiresAt(token))
    /\ Issuer # None => token.iss = Issuer
=============================================================================
