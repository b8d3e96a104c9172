------------------------------ MODULE Sessions ------------------------------
(***************************************************************************)
(* Login sessions: internal/core/auth/service.go, the session scripts of   *)
(* infrastructure/redisclient, and the account changes of core/user that   *)
(* end sessions.                                                           *)
(*                                                                         *)
(* A session lives in Redis, the account in MySQL. A login and a refresh   *)
(* read the account first and write the session later; each Redis script   *)
(* is atomic. Revocation is two things: session_version is raised with the *)
(* account, and the sessions are deleted after the commit, by a callback   *)
(* that can be lost. A token's own expiry is left out: it is never later   *)
(* than that of its session when the token was stored, so a token is only  *)
(* accepted for longer here than in the code.                              *)
(***************************************************************************)
EXTENDS Naturals, FiniteSets

CONSTANTS
    Accounts,          \* users
    SessionIds,        \* session ids, random in the code and taken in order here
    Callers,           \* requests in progress at the same time
    MaxActiveSessions, \* sessions an account may have (20 in the code)
    RefreshTTL,        \* lifetime of a refresh token and of a session
    MaxSessionVersion, \* bound: session_version
    MaxGeneration,     \* bound: tokens of a family
    MaxAuthClock       \* bound: the clock

ASSUME SessionsAssumption ==
    /\ SessionIds \subseteq Nat /\ IsFiniteSet(SessionIds)
    /\ MaxActiveSessions \in Nat \ {0} /\ RefreshTTL \in Nat \ {0}
    /\ {MaxSessionVersion, MaxGeneration, MaxAuthClock} \subseteq Nat

VARIABLES
    account,      \* account[u]: status, session_version, and a number for the password
    session,      \* the session:* keys, a function on the live ids
    index,        \* index[u]: the sorted set sessions:v2:user:u, a function from ids to scores
    handedOut,    \* token pairs clients have received
    reused,       \* families whose reuse was answered
    authCall,     \* authCall[c]: what request c has read and not yet acted on
    revocation,   \* accounts whose sessions a callback is still to delete
    authClock

authVars == <<account, session, index, handedOut, reused, authCall, revocation, authClock>>

\* The part of a token pair the service looks at. `parent` is the token it was
\* refreshed from, `password` the account's when its family was opened.
TokenPairs == [sid : SessionIds, user : Accounts, sv : Nat, gen : Nat, parent : Nat, password : Nat]

NoAuthCall == [kind |-> "none"]

\* What a request keeps between its reads and its script.
AuthCalls ==
    {NoAuthCall} \cup [kind : {"login"}, user : Accounts, sv : Nat, password : Nat]
    \cup [kind : {"refresh"}, token : TokenPairs] \cup [kind : {"reuse"}, sid : SessionIds]

AuthInit ==
    /\ account = [u \in Accounts |-> [status |-> "active", sv |-> 1, password |-> 1]]
    /\ session = [sid \in {} |-> [gen |-> 1]]
    /\ index = [u \in Accounts |-> [sid \in {} |-> 0]]
    /\ handedOut = {} /\ reused = {}
    /\ authCall = [c \in Callers |-> NoAuthCall]
    /\ revocation = {}
    /\ authClock = 0

-----------------------------------------------------------------------------
Only(f, S) == [x \in DOMAIN f \cap S |-> f[x]]
Reading(c, call) == authCall' = [authCall EXCEPT ![c] = call]

\* What the scripts make of the index: expired entries go, the session's is renewed.
IndexEntered(u, sid) ==
    LET kept == Only(index[u], {s \in DOMAIN index[u] : index[u][s] > authClock}) IN
    [s \in DOMAIN kept \cup {sid} |-> IF s = sid THEN authClock + RefreshTTL ELSE kept[s]]

\* The entries beyond the limit, the oldest first.
Excess(ix) ==
    LET newer(s) == {t \in DOMAIN ix : ix[t] > ix[s] \/ (ix[t] = ix[s] /\ t > s)}
    IN  {s \in DOMAIN ix : Cardinality(newer(s)) >= MaxActiveSessions}

\* createSessionScript, and rotateScript after its checks.
StoreSession(u, sid, gen) ==
    LET expired == {s \in DOMAIN index[u] : index[u][s] <= authClock}
        entered == IndexEntered(u, sid)
        excess == Excess(entered)
        row == [user |-> u, gen |-> gen, expires |-> authClock + RefreshTTL]
    IN  /\ session' = [s \in (DOMAIN session \cup {sid}) \ (expired \cup excess) |->
                          IF s = sid THEN row ELSE session[s]]
        /\ index' = [index EXCEPT ![u] = Only(entered, DOMAIN entered \ excess)]

\* deleteSessionScript.
DeleteSession(sid) ==
    /\ session' = Only(session, DOMAIN session \ {sid})
    /\ index' = IF sid \notin DOMAIN session THEN index
                ELSE [index EXCEPT ![session[sid].user] = Only(@, DOMAIN @ \ {sid})]

\* Login and LoginByWeChat: the account is read and its password is right, or the
\* code2session call has named the account.
ReadForLogin(c, u) ==
    /\ authCall[c] = NoAuthCall
    /\ account[u].status = "active"
    /\ Reading(c, [kind |-> "login", user |-> u, sv |-> account[u].sv, password |-> account[u].password])
    /\ UNCHANGED <<account, session, index, handedOut, reused, revocation, authClock>>

\* Mutant: the token carries the session version of the moment it is handed out.
LoginIssuesLatest(c, sid) ==
    LET call == authCall[c] IN
    /\ call.kind = "login"
    /\ StoreSession(call.user, sid, 1)
    /\ handedOut' = handedOut \cup {[sid |-> sid, user |-> call.user, sv |-> account[call.user].sv,
                                     gen |-> 1, parent |-> 0, password |-> call.password]}
    /\ Reading(c, NoAuthCall)
    /\ UNCHANGED <<account, reused, revocation, authClock>>

\* ... and the session is created under a new id.
CreateSession(c, sid) ==
    LET call == authCall[c] IN
    /\ call.kind = "login"
    /\ StoreSession(call.user, sid, 1)
    /\ handedOut' = handedOut \cup {[sid |-> sid, user |-> call.user, sv |-> call.sv, gen |-> 1,
                                     parent |-> 0, password |-> call.password]}
    /\ Reading(c, NoAuthCall)
    /\ UNCHANGED <<account, reused, revocation, authClock>>

\* Refresh: the token parses, and its account is active and at its version.
ReadForRefresh(c, token) ==
    /\ authCall[c] = NoAuthCall
    /\ account[token.user].status = "active" /\ account[token.user].sv = token.sv
    /\ Reading(c, [kind |-> "refresh", token |-> token])
    /\ UNCHANGED <<account, session, index, handedOut, reused, revocation, authClock>>

\* Mutant: the rotation does not compare the hash.
MayRotateAnything(token) == token.sid \in DOMAIN session

\* The checks of rotateScript.
MayRotate(token) == token.sid \in DOMAIN session /\ session[token.sid].gen = token.gen

\* ... and the session is rotated, or the token was used before.
Rotate(c) ==
    LET token == authCall[c].token IN
    /\ authCall[c].kind = "refresh"
    /\ IF MayRotate(token)
       THEN LET gen == session[token.sid].gen + 1 IN
            /\ gen <= MaxGeneration
            /\ StoreSession(session[token.sid].user, token.sid, gen)
            /\ handedOut' = handedOut \cup {[token EXCEPT !.gen = gen, !.parent = token.gen]}
            /\ Reading(c, NoAuthCall)
       ELSE /\ Reading(c, [kind |-> "reuse", sid |-> token.sid])
            /\ UNCHANGED <<session, index, handedOut>>
    /\ UNCHANGED <<account, reused, revocation, authClock>>

\* A token that came second ends its family.
RevokeFamily(c) ==
    /\ authCall[c].kind = "reuse"
    /\ DeleteSession(authCall[c].sid)
    /\ reused' = reused \cup {authCall[c].sid}
    /\ Reading(c, NoAuthCall)
    /\ UNCHANGED <<account, handedOut, revocation, authClock>>

Logout(sid) ==
    /\ DeleteSession(sid)
    /\ UNCHANGED <<account, handedOut, reused, authCall, revocation, authClock>>

\* Update with a password: UpdateFields, session_version included, and the callback.
\* ChangePassword calls it once the current password has proved right, which is not
\* looked at again: it changes nothing else.
UpdatePassword(u) ==
    /\ account[u].sv < MaxSessionVersion
    /\ account' = [account EXCEPT ![u].password = @ + 1, ![u].sv = @ + 1]
    /\ revocation' = revocation \cup {u}
    /\ UNCHANGED <<session, index, handedOut, reused, authCall, authClock>>

\* SetStatus raises session_version either way and revokes on disabling.
SetStatus(u, status) ==
    /\ account[u].sv < MaxSessionVersion
    /\ account' = [account EXCEPT ![u].status = status, ![u].sv = @ + 1]
    /\ revocation' = IF status = "disabled" THEN revocation \cup {u} ELSE revocation
    /\ UNCHANGED <<session, index, handedOut, reused, authCall, authClock>>

\* RevokeUser: deleteUserSessionsScript deletes what the index names.
RevokeUser(u) ==
    /\ u \in revocation
    /\ session' = Only(session, DOMAIN session \ DOMAIN index[u])
    /\ index' = [index EXCEPT ![u] = Only(@, {})]
    /\ revocation' = revocation \ {u}
    /\ UNCHANGED <<account, handedOut, reused, authCall, authClock>>

\* The process stops after the commit: the callback never runs.
LoseRevocation(u) ==
    /\ u \in revocation
    /\ revocation' = revocation \ {u}
    /\ UNCHANGED <<account, session, index, handedOut, reused, authCall, authClock>>

\* Redis drops the sessions whose time has come, and an index with its last entry's.
AuthTick ==
    /\ authClock < MaxAuthClock
    /\ authClock' = authClock + 1
    /\ session' = Only(session, {s \in DOMAIN session : session[s].expires > authClock'})
    /\ index' = [u \in Accounts |-> IF \E s \in DOMAIN index[u] : index[u][s] > authClock'
                                    THEN index[u] ELSE Only(index[u], {})]
    /\ UNCHANGED <<account, handedOut, reused, authCall, revocation>>

UnusedIds == SessionIds \ {t.sid : t \in handedOut}

AuthNext ==
    \/ \E c \in Callers :
          \/ \E u \in Accounts : ReadForLogin(c, u)
          \/ \E sid \in UnusedIds : (\A s \in UnusedIds : sid <= s) /\ CreateSession(c, sid)
          \/ \E token \in handedOut : ReadForRefresh(c, token)
          \/ Rotate(c)
          \/ RevokeFamily(c)
    \/ \E sid \in DOMAIN session : Logout(sid)
    \/ \E u \in Accounts :
          \/ UpdatePassword(u)
          \/ \E status \in {"active", "disabled"} : SetStatus(u, status)
          \/ RevokeUser(u)
          \/ LoseRevocation(u)
    \/ AuthTick

AuthSpec == AuthInit /\ [][AuthNext]_authVars

-----------------------------------------------------------------------------
\* Authenticate, as one look at both stores: the access token of this pair passes.
Authenticate(token) ==
    /\ token.sid \in DOMAIN session
    /\ account[token.user].status = "active" /\ account[token.user].sv = token.sv

AuthTypeOK ==
    /\ account \in [Accounts -> [status : {"active", "disabled"}, sv : Nat, password : Nat]]
    /\ \A s \in DOMAIN session : s \in SessionIds /\ session[s] \in [user : Accounts, gen : Nat, expires : Nat]
    /\ DOMAIN index = Accounts
    /\ \A u \in Accounts : DOMAIN index[u] \subseteq SessionIds
    /\ handedOut \subseteq TokenPairs
    /\ authCall \in [Callers -> AuthCalls]
    /\ reused \subseteq SessionIds /\ revocation \subseteq Accounts
    /\ authClock \in 0 .. MaxAuthClock

\* Changing the password locks out whoever knows only the old one: no token family
\* opened with an earlier password passes, although a login may check the old
\* password before the change and create its session after it, a refresh may
\* straddle it, and the callback that deletes the sessions may be lost.
OldPasswordLocksOut ==
    \A token \in handedOut :
        Authenticate(token) => token.password = account[token.user].password

\* A refresh token buys one pair: no two pairs have the same parent, whatever the
\* order of two refreshes with one token; and a family whose reuse was answered
\* never comes back, because no script creates a session it does not find.
RefreshedOnce ==
    /\ \A t1, t2 \in handedOut : t1.sid = t2.sid /\ t1.parent = t2.parent => t1 = t2
    /\ reused \cap DOMAIN session = {}
=============================================================================
