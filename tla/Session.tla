-------------------------------- MODULE Session --------------------------------
(***************************************************************************)
(* auth and auth/httpauth: logging in, refreshing, logging out and the     *)
(* check of every request, with one user, the cookies of one client and    *)
(* the tokens that were ever issued, any of which may come as a bearer     *)
(* token.  Tokens are signed: one that was not issued is not accepted.     *)
(***************************************************************************)
EXTENDS Naturals

CONSTANTS
  AccessLife, RefreshLife, \* AccessTokenLifeTime and RefreshTokenLifeTime
  Roles, UserRoles,        \* the bits of a TRole, and those the user has
  MaxSessionTime           \* bounds the time

ASSUME SessionAssumption ==
  /\ AccessLife \in Nat /\ RefreshLife \in Nat /\ MaxSessionTime \in Nat
  /\ UserRoles \subseteq Roles

VARIABLES
  seTime,
  seTokens,   \* tokens issued: kind, login they go back to, expiry
  seCookie,   \* the cookies: a token of each kind, or NoToken
  seArchived  \* since when ValidateActiveUser and CredentialChecker refuse the user

sessionVars == <<seTime, seTokens, seCookie, seArchived>>

Kinds == {"access", "refresh"}
Never == MaxSessionTime + 1
NoToken == [kind |-> "none", login |-> 0, expiry |-> 0]
Token(kind, login) ==
  [kind |-> kind, login |-> login,
   expiry |-> seTime + IF kind = "access" THEN AccessLife ELSE RefreshLife]

\* A route and the roles one of which it demands (RequireRole).  Public, which is
\* no role, puts its path among the routes to ignore; the configuration may put
\* there the path of any other.
Routes == {r \in [roles : SUBSET Roles, ignored : BOOLEAN] : r.roles = {} => r.ignored}

\* What APITokenChecker makes of a token: it refuses (or there is none), or it
\* knows a user with these roles.
Checks == [known : BOOLEAN, roles : SUBSET Roles]

SessionInit ==
  /\ seTime = 0 /\ seTokens = {} /\ seArchived = Never
  /\ seCookie = [k \in Kinds |-> NoToken]

SetCookies(tokens) ==
  seCookie' = [k \in Kinds |-> IF \E t \in tokens : t.kind = k
                               THEN CHOOSE t \in tokens : t.kind = k ELSE seCookie[k]]

\* The login, register and OAuth handlers: a user that is accepted gets both
\* tokens (setupSession).  A login that is limited or fails changes nothing
\* here.
Login ==
  /\ seArchived = Never
  /\ LET tokens == {Token(k, seTime) : k \in Kinds} IN
     SetCookies(tokens) /\ seTokens' = seTokens \cup tokens
  /\ UNCHANGED <<seTime, seArchived>>

\* cookieOrBearerToken: the cookie wins over the header.
Presented(kind) == IF seCookie[kind] # NoToken THEN {seCookie[kind]} ELSE seTokens

\* Mutant: parseJwt without the check of the token type.
AcceptsAnyKind(t, kind) == t \in seTokens /\ seTime < t.expiry

\* parseJwt: signature, expiry and type.
Accepts(t, kind) == t \in seTokens /\ seTime < t.expiry /\ t.kind = kind

\* refreshHandler.
RefreshSession ==
  \E t \in Presented("refresh") :
    /\ Accepts(t, "refresh")
    /\ IF seArchived = Never
       THEN LET new == Token("access", t.login) IN
            SetCookies({new}) /\ seTokens' = seTokens \cup {new}
       ELSE /\ seCookie' = [k \in Kinds |-> NoToken] \* removeCookies
            /\ UNCHANGED seTokens
    /\ UNCHANGED <<seTime, seArchived>>

Logout ==
  /\ seCookie' = [k \in Kinds |-> NoToken]
  /\ UNCHANGED <<seTime, seTokens, seArchived>>

\* authHandler: who a request comes from, by an access token or else, if there is
\* any token at all, by what APITokenChecker says of it.
Nobody == [by |-> "nobody", roles |-> {}]
Caller(t, check) ==
  IF Accepts(t, "access") THEN [by |-> "session", roles |-> UserRoles]
  ELSE IF t = NoToken \/ ~ check.known THEN Nobody
  ELSE [by |-> "checker", roles |-> check.roles]

\* server.ServeHTTP with RequireRole, which change no state: a route that is
\* ignored needs no user and is not filtered, but keeps its demand of a role.
AnswerRoute(route, caller, filterAccepts) ==
  CASE ~ route.ignored /\ (caller = Nobody \/ ~ filterAccepts) -> "notAuthenticated"
    [] /\ route.ignored \/ (caller # Nobody /\ filterAccepts)
       /\ route.roles # {} /\ caller.roles \cap route.roles = {} -> "noRole"
    [] OTHER -> "served"

Archive ==
  /\ seArchived = Never /\ seArchived' = seTime
  /\ UNCHANGED <<seTime, seTokens, seCookie>>

\* A browser drops the cookies that have expired.
SessionTick ==
  /\ seTime < MaxSessionTime /\ seTime' = seTime + 1
  /\ seCookie' = [k \in Kinds |-> IF seCookie[k].expiry > seTime' THEN seCookie[k]
                                  ELSE NoToken]
  /\ UNCHANGED <<seTokens, seArchived>>

SessionNext == Login \/ RefreshSession \/ Logout \/ Archive \/ SessionTick
SessionSpec == SessionInit /\ [][SessionNext]_sessionVars

\* The session t goes back to is young enough, and its user not archived too long.
Alive(t) ==
  /\ seTime < t.login + RefreshLife + AccessLife
  /\ seArchived # Never => seTime < seArchived + AccessLife

\* A user is known to a handler by its session for no longer than RefreshLife +
\* AccessLife after the login, however often the session is refreshed and
\* whatever token is put forward, and for less than AccessLife after being
\* archived.  A handler behind a role, on an ignored path too, is reached only by
\* such a user that has the role, or by one that APITokenChecker, asked about a
\* token that is no access token or no longer one, says has it; the session is
\* then not looked at (parseJwt's types, authHandler, refreshHandler, RequireRole).
SessionEnds ==
  \A t \in seTokens \cup {NoToken}, check \in Checks :
    LET caller == Caller(t, check) IN
    /\ caller.by = "session" => Alive(t)
    /\ \A route \in Routes, f \in BOOLEAN :
         AnswerRoute(route, caller, f) = "served" /\ route.roles # {} =>
           /\ route.ignored \/ f
           /\ \/ Alive(t) /\ UserRoles \cap route.roles # {}
              \/ /\ t # NoToken /\ ~ Accepts(t, "access")
                 /\ check.known /\ check.roles \cap route.roles # {}
=============================================================================
