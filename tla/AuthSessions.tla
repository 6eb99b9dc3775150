----------------------------- MODULE AuthSessions -----------------------------
(***************************************************************************)
(* Sessions of one user and the tokens issued for them: login, refresh with *)
(* rotation, and every way of revoking them.                               *)
(*                                                                         *)
(* A login makes a session row and issues an access and a refresh token    *)
(* that carry the version of the session and of the user.  A refresh reads *)
(* the user, then the session, then rotates the session's version by an    *)
(* UPDATE that names only its id, reads the row again and issues tokens of *)
(* the version it finds.  Each statement is a step of its own.  The access *)
(* middleware reads the clock twice, for the validator and for the policies, *)
(* and is two steps as well.                                               *)
(***************************************************************************)
EXTENDS Integers, FiniteSets

CONSTANTS
    Sessions,      \* identifiers newAuthSessionID may draw
    NoSession,
    Requests,      \* concurrent requests
    RevokeFamily,  \* refresh_reuse_policy = "revoke_family"
    AccessTTL,     \* seconds an access token lives
    MaxVersion,    \* bound: version of a session
    MaxUserVersion,\* bound: version of the user
    MaxTokens,     \* bound: pairs issued
    MaxListed,     \* bound: access tokens listed
    MaxTime        \* bound: the clock, in seconds

ASSUME AuthAssumption ==
    /\ NoSession \notin Sessions
    /\ RevokeFamily \in BOOLEAN
    /\ AccessTTL \in Nat \ {0} /\ MaxTime \in Nat
    /\ MaxVersion \in Nat /\ MaxUserVersion \in Nat /\ MaxTokens \in Nat /\ MaxListed \in Nat

VARIABLES
    now,      \* time.Now().Unix()
    user,     \* row of users: active, version, validAfter
    sess,     \* table user_auth_sessions: status ("none": no row), version
    tokens,   \* issued pairs of an access and a refresh token, by their claims
    revoked,  \* table revoked_tokens: the pairs whose access token is listed
    req,      \* [Requests -> program counter and locals]
    spent,    \* history: <<session, version>> of refresh tokens rotated
    ended,    \* history: pairs issued before their session or user was revoked
    denied,   \* history: pairs whose access token was ever listed
    served    \* history: pairs let through although listed when they came

vars == <<now, user, sess, tokens, revoked, req, spent, ended, denied, served>>

Token == [session : Sessions, stv : Nat, uv : Nat, iat : Nat]

\* Where a request goes by a session; a login comes to "issue" only, an access
\* to "policies" only.
BySession == {"check", "rotate", "family", "reread", "issue", "policies"}

\* What a request keeps: the session and the version it goes by, the user's
\* version it read, the sessions RevokeAllSessions has listed, the time
\* BatchRevokeTokens took or its token was issued at, and whether its token had
\* been spent, or listed, when it came.
Call(pc, s, stv, uv) == [pc |-> pc, session |-> s, stv |-> stv, uv |-> uv,
                         ids |-> {}, at |-> 0, late |-> FALSE]
Idle == Call("idle", NoSession, 0, 0)
Become(r, x) == req' = [req EXCEPT ![r] = x]
Goto(r, pc) == req' = [req EXCEPT ![r].pc = pc]
Done(r) == Become(r, Idle)

Init ==
    /\ now = 0
    /\ user = [active |-> TRUE, version |-> 0, validAfter |-> 0]
    /\ sess = [s \in Sessions |-> [status |-> "none", version |-> 0]]
    /\ tokens = {} /\ revoked = {}
    /\ req = [r \in Requests |-> Idle]
    /\ spent = {} /\ ended = {} /\ denied = {} /\ served = {}

----------------------------------------------------------------------------
(* What the checks accept *)

\* Mutants: a session check that looks at the status only; a policy that
\* forgets a listed token a second before it expires.
SessionAcceptsAnyVersion(t) == sess[t.session].status = "active"
ListedTooShort(t) == t \in revoked /\ now < t.iat + AccessTTL - 1

UserAccepts(t) ==
    user.active /\ t.iat >= user.validAfter /\ t.uv >= user.version

SessionAccepts(t) ==
    sess[t.session].status = "active" /\ t.stv >= sess[t.session].version

Listed(t) == t \in revoked /\ now < t.iat + AccessTTL

\* The two policies of the middleware, on one reading of the clock.
PoliciesAccept(t) == ~Listed(t) /\ UserAccepts(t) /\ SessionAccepts(t)

\* The access token of a request between the validator and the policies.
Claims(x) == [session |-> x.session, stv |-> x.stv, uv |-> x.uv, iat |-> x.at]

----------------------------------------------------------------------------
(* The middleware on an access token *)

WasListed(t) == t \in denied

\* The validator reads the clock and refuses what has expired ...
ValidateToken(r, t) ==
    /\ req[r].pc = "idle" /\ now < t.iat + AccessTTL
    /\ Become(r, [pc |-> "policies", session |-> t.session, stv |-> t.stv, uv |-> t.uv,
                  ids |-> {}, at |-> t.iat, late |-> WasListed(t)])
    /\ UNCHANGED <<now, user, sess, tokens, revoked, spent, ended, denied, served>>

\* ... and the policies read it again, after the payload has been taken apart.
ApplyPolicies(r) ==
    /\ req[r].pc = "policies"
    /\ LET t == Claims(req[r])
           through == PoliciesAccept(t)
       IN served' = IF through /\ req[r].late THEN served \cup {t} ELSE served
    /\ Done(r)
    /\ UNCHANGED <<now, user, sess, tokens, revoked, spent, ended, denied>>

----------------------------------------------------------------------------
(* Login and refresh *)

\* Register, Login, VerifyTwoFactorLogin and LoginWithOIDC, once the
\* credentials are good, have the user in hand ...
Authenticate(r) ==
    /\ req[r].pc = "idle" /\ user.active
    /\ Become(r, Call("login", NoSession, 0, user.version))
    /\ UNCHANGED <<now, user, sess, tokens, revoked, spent, ended, denied, served>>

\* ... and make a session.
CreateAuthSession(r, s) ==
    /\ req[r].pc = "login" /\ sess[s].status = "none"
    /\ sess' = [sess EXCEPT ![s].status = "active"]
    /\ Become(r, Call("issue", s, 0, req[r].uv))
    /\ UNCHANGED <<now, user, tokens, revoked, spent, ended, denied, served>>

Spent(t) == <<t.session, t.stv>> \in spent

\* RefreshToken: the claims against the user's row.
RefreshToken(r, t) ==
    /\ req[r].pc = "idle" /\ UserAccepts(t)
    /\ Become(r, [Call("check", t.session, t.stv, user.version) EXCEPT !.late = Spent(t)])
    /\ UNCHANGED <<now, user, sess, tokens, revoked, spent, ended, denied, served>>

\* rotateRefreshSession reads the session and compares the versions.
CheckSession(r) ==
    LET row == sess[req[r].session]
        current == row.status = "active" /\ row.version = req[r].stv
        reused == row.status = "active" /\ req[r].stv < row.version /\ RevokeFamily
    IN /\ req[r].pc = "check"
       /\ \/ current /\ Goto(r, "rotate")
          \/ reused /\ Goto(r, "family")
          \/ ~current /\ ~reused /\ Done(r)
       /\ UNCHANGED <<now, user, sess, tokens, revoked, spent, ended, denied, served>>

\* Mutant: a rotation that keeps the version.
RotateWithoutVersion(r) ==
    LET s == req[r].session
    IN /\ req[r].pc = "rotate" /\ sess[s].version < MaxVersion
       /\ sess' = [sess EXCEPT ![s].status = "active"]
       /\ spent' = spent \cup {<<s, req[r].stv>>}
       /\ Goto(r, "reread")
       /\ UNCHANGED <<now, user, tokens, revoked, ended, denied, served>>

\* Mutant: the rotation takes the version back.
RotateBack(r) ==
    LET s == req[r].session
    IN /\ req[r].pc = "rotate"
       /\ sess' = [sess EXCEPT ![s] = [status |-> "active", version |-> @.version - 1]]
       /\ spent' = spent \cup {<<s, req[r].stv>>}
       /\ Goto(r, "reread")
       /\ UNCHANGED <<now, user, tokens, revoked, ended, denied, served>>

\* RotateAuthSession names the row by its id: it also takes back a revocation
\* that came after the check, and follows on a rotation that did.
Rotate(r) ==
    LET s == req[r].session
    IN /\ req[r].pc = "rotate" /\ sess[s].version < MaxVersion
       /\ sess' = [sess EXCEPT ![s] = [status |-> "active", version |-> @.version + 1]]
       /\ spent' = spent \cup {<<s, req[r].stv>>}
       /\ Goto(r, "reread")
       /\ UNCHANGED <<now, user, tokens, revoked, ended, denied, served>>

Reread(r) ==
    /\ req[r].pc = "reread"
    /\ LET s == req[r].session IN Become(r, Call("issue", s, sess[s].version, req[r].uv))
    /\ UNCHANGED <<now, user, sess, tokens, revoked, spent, ended, denied, served>>

\* buildAuthResult signs what the request has in hand.
Issue(r) ==
    /\ req[r].pc = "issue" /\ Cardinality(tokens) < MaxTokens
    /\ tokens' = tokens \cup {[session |-> req[r].session, stv |-> req[r].stv,
                               uv |-> req[r].uv, iat |-> now]}
    /\ Done(r)
    /\ UNCHANGED <<now, user, sess, revoked, spent, ended, denied, served>>

----------------------------------------------------------------------------
(* Revocation *)

\* UPDATE ... SET status = 'revoked', token_version = token_version + 1, and
\* the history of what was issued for these sessions until now.
RevokeSessions(S) ==
    /\ \A s \in S : sess[s].version < MaxVersion
    /\ sess' = [s \in Sessions |-> IF s \in S
                  THEN [status |-> "revoked", version |-> sess[s].version + 1]
                  ELSE sess[s]]
    /\ ended' = ended \cup {t \in tokens : t.session \in S}
    /\ UNCHANGED <<now, user, tokens, revoked, spent, denied, served>>

Active == {s \in Sessions : sess[s].status = "active"}

\* A refresh token that was rotated before is presented again.
RevokeActiveAuthSession(r) ==
    /\ req[r].pc = "family"
    /\ RevokeSessions(Active \cap {req[r].session})
    /\ Done(r)

\* RevokeCurrentSession, and an operator's RevokeSession.
RevokeSession(s) ==
    /\ sess[s].status # "none"
    /\ RevokeSessions({s})
    /\ UNCHANGED req

RevokeOtherSessions(s) ==
    /\ Active \ {s} # {}
    /\ RevokeSessions(Active \ {s})
    /\ UNCHANGED req

\* RevokeAllSessions lists the active sessions, perhaps all but one, ...
ListSessions(r, except) ==
    /\ req[r].pc = "idle" /\ Active \ except # {}
    /\ Become(r, [Call("revokeAll", NoSession, 0, 0) EXCEPT !.ids = Active \ except])
    /\ UNCHANGED <<now, user, sess, tokens, revoked, spent, ended, denied, served>>

\* ... and revokes those by id.
RevokeListed(r) ==
    /\ req[r].pc = "revokeAll"
    /\ RevokeSessions(req[r].ids)
    /\ Done(r)

\* RevokeTokens and BatchRevokeTokens take the time first ...
TakeTime(r) ==
    /\ req[r].pc = "idle"
    /\ Become(r, [Call("revokeUser", NoSession, 0, 0) EXCEPT !.at = now])
    /\ UNCHANGED <<now, user, sess, tokens, revoked, spent, ended, denied, served>>

\* ... and write it later, in a batch perhaps over a newer one.
RevokeUserTokens(r) ==
    /\ req[r].pc = "revokeUser" /\ user.version < MaxUserVersion
    /\ user' = [active |-> user.active, version |-> user.version + 1, validAfter |-> req[r].at]
    /\ ended' = ended \cup tokens
    /\ Done(r)
    /\ UNCHANGED <<now, sess, tokens, revoked, spent, denied, served>>

\* EnableTwoFactor and DisableTwoFactor only move token_valid_after.
ChangeTwoFactor ==
    /\ user' = [user EXCEPT !.validAfter = now]
    /\ UNCHANGED <<now, sess, tokens, revoked, req, spent, ended, denied, served>>

\* RevokeJWT lists one access token by its jti, while it is still valid.
RevokeJWT(t) ==
    /\ now < t.iat + AccessTTL /\ t \notin revoked
    /\ t \notin denied => Cardinality(denied) < MaxListed
    /\ revoked' = revoked \cup {t}
    /\ denied' = denied \cup {t}
    /\ UNCHANGED <<now, user, sess, tokens, req, spent, ended, served>>

\* The retention job deletes the rows of tokens that have expired.
Cleanup ==
    /\ \E t \in revoked : t.iat + AccessTTL < now
    /\ revoked' = {t \in revoked : t.iat + AccessTTL >= now}
    /\ UNCHANGED <<now, user, sess, tokens, req, spent, ended, denied, served>>

----------------------------------------------------------------------------
(* An operator changes users.status; the clock *)

SetStatus(active) ==
    /\ user' = [user EXCEPT !.active = active]
    /\ UNCHANGED <<now, sess, tokens, revoked, req, spent, ended, denied, served>>

Tick ==
    /\ now < MaxTime
    /\ now' = now + 1
    /\ UNCHANGED <<user, sess, tokens, revoked, req, spent, ended, denied, served>>

Next ==
    \/ \E r \in Requests :
         \/ Authenticate(r) \/ CheckSession(r) \/ Rotate(r) \/ Reread(r) \/ Issue(r)
         \/ \E s \in Sessions : CreateAuthSession(r, s)
         \/ \E t \in tokens : RefreshToken(r, t) \/ ValidateToken(r, t)
         \/ ApplyPolicies(r)
         \/ RevokeActiveAuthSession(r)
         \/ \E except \in {{}} \cup {{s} : s \in Sessions} : ListSessions(r, except)
         \/ RevokeListed(r)
         \/ TakeTime(r) \/ RevokeUserTokens(r)
    \/ \E s \in Sessions : RevokeSession(s) \/ RevokeOtherSessions(s)
    \/ \E t \in tokens : RevokeJWT(t)
    \/ ChangeTwoFactor
    \/ Cleanup
    \/ \E active \in BOOLEAN : SetStatus(active)
    \/ Tick

Spec == Init /\ [][Next]_vars

----------------------------------------------------------------------------
(* Properties *)

\* Types of the tables, of the tokens and of the requests' locals: a request
\* past its first read of a session has one.
TablesOK ==
    /\ now \in Nat
    /\ user \in [active : BOOLEAN, version : Nat, validAfter : Nat]
    /\ sess \in [Sessions -> [status : {"none", "active", "revoked"}, version : Nat]]
    /\ tokens \subseteq Token /\ revoked \subseteq tokens
    /\ spent \subseteq Sessions \X Nat
    /\ ended \subseteq tokens /\ denied \subseteq tokens /\ served \subseteq denied
Local == [pc : {"idle", "login", "revokeAll", "revokeUser"} \cup BySession,
          session : Sessions \cup {NoSession}, stv : Nat, uv : Nat,
          ids : SUBSET Sessions, at : Nat, late : BOOLEAN]
TypeOK ==
    /\ TablesOK
    /\ req \in [Requests -> Local]
    /\ \A r \in Requests : req[r].pc \in BySession => req[r].session \in Sessions

\* What was issued before its session or its user was revoked is never accepted
\* again, neither by the middleware nor for a refresh: not when a refresh that
\* was under way makes the session active again, not when the user is enabled
\* again, and not when an older time of revocation is written over a newer one.
EndedStaysEnded ==
    \A t \in ended : ~(UserAccepts(t) /\ SessionAccepts(t))

\* An access token that was already listed when its request came is not let
\* through, also after the retention job has deleted its row: unless the token
\* itself ran out between the validator and the policies, which then no longer
\* heed the row and let that one request through.
DeniedStaysDenied == \A t \in served : now >= t.iat + AccessTTL

\* A refresh token that had been rotated when a refresh began is refused: two
\* refreshes with one token both succeed only when they overlap.
SpentStaysSpent ==
    \A r \in Requests : req[r].late => req[r].pc \notin {"rotate", "reread", "issue"}
=============================================================================
