------------------------- MODULE AuthSessionsProofs -------------------------
(***************************************************************************)
(* Proofs about AuthSessions, for any number of sessions and requests and   *)
(* with either reuse policy.                                               *)
(***************************************************************************)
EXTENDS AuthSessions, TLAPS

\* No token is ahead of its session or of the user.
TokensBehind ==
    \A t \in tokens : t.stv <= sess[t.session].version /\ t.uv <= user.version

\* A revocation has left what was issued before it behind one of the versions.
EndedBehind ==
    \A t \in ended : t.stv < sess[t.session].version \/ t.uv < user.version

\* A rotation has left the version it was for behind.
SpentBehind == \A p \in spent : p[2] < sess[p[1]].version

\* A listed token is still listed, or has expired.
DeniedOK == \A t \in denied : t \in revoked \/ now >= t.iat + AccessTTL

\* What was let through although listed when it came had run out by then.
ServedOK == \A t \in served : now >= t.iat + AccessTTL

TablesInv == TablesOK /\ TokensBehind /\ EndedBehind /\ SpentBehind /\ DeniedOK /\ ServedOK

\* A request is not ahead of the rows either; one that came with a rotated token
\* is before its check, or about to revoke the family, and one that came with a
\* listed access token holds one that was listed.
Fits(x, S, u, D) ==
    /\ x \in Local
    /\ x.pc \in BySession => x.session \in Sessions
    /\ x.uv <= u.version
    /\ x.pc \in {"rotate", "reread", "issue"} => x.stv <= S[x.session].version
    /\ x.late => x.pc \in {"check", "family", "policies"}
    /\ x.late /\ x.pc \in {"check", "family"} => x.stv < S[x.session].version
    /\ x.late /\ x.pc = "policies" => Claims(x) \in D

RequestsInv == /\ req = [r \in Requests |-> req[r]]
               /\ \A r \in Requests : Fits(req[r], sess, user, denied)

AuthInv == TablesInv /\ RequestsInv

LEMMA IdleFits ==
    ASSUME NEW S, NEW u, NEW D, u.version \in Nat PROVE Fits(Idle, S, u, D)
BY AuthAssumption, SMT DEF Fits, Local, Idle, Call, BySession

LEMMA InitEstablishes == Init => AuthInv
<1> SUFFICES ASSUME Init PROVE AuthInv
  OBVIOUS
<1>1. TablesInv
  BY AuthAssumption, SMT DEF Init, TablesInv, TablesOK, TokensBehind, EndedBehind, SpentBehind, DeniedOK, ServedOK
<1>2. user.version \in Nat
  BY SMT DEF Init
<1>3. req = [r \in Requests |-> Idle]
  BY DEF Init
<1> QED BY <1>1, <1>2, <1>3, IdleFits, Zenon DEF AuthInv, RequestsInv

----------------------------------------------------------------------------
(* Steps *)

\* What a step does to the rows: versions only grow.
RowsGrow ==
    /\ sess' \in [Sessions -> [status : {"none", "active", "revoked"}, version : Nat]]
    /\ \A s \in Sessions : sess'[s].version >= sess[s].version
    /\ user' \in [active : BOOLEAN, version : Nat, validAfter : Nat]
    /\ user'.version >= user.version
    /\ denied \subseteq denied'

LEMMA FitsStill ==
    ASSUME TablesOK, RowsGrow, NEW x, Fits(x, sess, user, denied) PROVE Fits(x, sess', user', denied')
BY SMT DEF TablesOK, RowsGrow, Fits, Local, BySession

\* One request moves, to locals that fit, and the others keep theirs.
LEMMA RequestMoves ==
    ASSUME AuthInv, RowsGrow, NEW r \in Requests, NEW x,
           req' = [req EXCEPT ![r] = x], Fits(x, sess', user', denied')
    PROVE  RequestsInv'
<1>1. req' = [q \in Requests |-> IF q = r THEN x ELSE req[q]]
  BY Zenon DEF AuthInv, RequestsInv
<1>2. ASSUME NEW q \in Requests PROVE Fits(req'[q], sess', user', denied')
  <2>1. CASE q = r
    BY <1>1, <2>1, Zenon
  <2>2. CASE q # r
    <3>1. req'[q] = req[q]
      BY <1>1, <2>2, Zenon
    <3>2. Fits(req[q], sess, user, denied)
      BY Zenon DEF AuthInv, RequestsInv
    <3>3. TablesOK
      BY DEF AuthInv, TablesInv
    <3>4. Fits(req[q], sess', user', denied')
      BY <3>2, <3>3, FitsStill
    <3> QED BY <3>1, <3>4, Zenon
  <2> QED BY <2>1, <2>2
<1>3. req' = [q \in Requests |-> req'[q]]
  BY <1>1, Zenon
<1> QED BY <1>2, <1>3, Zenon DEF RequestsInv

LEMMA RequestsStay ==
    ASSUME AuthInv, RowsGrow, UNCHANGED req PROVE RequestsInv'
<1>1. TablesOK
  BY DEF AuthInv, TablesInv
<1>2. ASSUME NEW q \in Requests PROVE Fits(req'[q], sess', user', denied')
  <2>1. Fits(req[q], sess, user, denied)
    BY Zenon DEF AuthInv, RequestsInv
  <2>2. Fits(req[q], sess', user', denied')
    BY <1>1, <2>1, FitsStill
  <2> QED BY <2>2, Zenon
<1> QED BY <1>2, Zenon DEF AuthInv, RequestsInv

LEMMA TablesStay ==
    ASSUME TablesInv, UNCHANGED <<now, user, sess, tokens, revoked, spent, ended, denied, served>>
    PROVE  TablesInv' /\ RowsGrow
BY SMT DEF TablesInv, TablesOK, TokensBehind, EndedBehind, SpentBehind, DeniedOK, ServedOK, RowsGrow

\* A request that only reads moves to locals that fit the rows.
LEMMA ReadKeeps ==
    ASSUME AuthInv, NEW r \in Requests, NEW x, Fits(x, sess, user, denied),
           req' = [req EXCEPT ![r] = x],
           UNCHANGED <<now, user, sess, tokens, revoked, spent, ended, denied, served>>
    PROVE  AuthInv'
<1>1. TablesInv' /\ RowsGrow
  BY TablesStay DEF AuthInv
<1>2. Fits(x, sess', user', denied')
  BY Zenon
<1> QED BY <1>1, <1>2, RequestMoves, Zenon DEF AuthInv

LEMMA AuthenticateKeeps ==
    ASSUME AuthInv, NEW r \in Requests, Authenticate(r) PROVE AuthInv'
<1>1. Fits(Call("login", NoSession, 0, user.version), sess, user, denied)
  <2>1. user.version \in Nat
    BY DEF AuthInv, TablesInv, TablesOK
  <2> QED BY <2>1, SMT DEF Fits, Local, BySession, Call
<1> QED BY <1>1, ReadKeeps, Zenon DEF Authenticate, Become

LEMMA RefreshTokenKeeps ==
    ASSUME AuthInv, NEW r \in Requests, NEW t \in tokens, RefreshToken(r, t) PROVE AuthInv'
<1> DEFINE x == [Call("check", t.session, t.stv, user.version) EXCEPT !.late = Spent(t)]
<1>1. Fits(x, sess, user, denied)
  <2>1. x = [pc |-> "check", session |-> t.session, stv |-> t.stv, uv |-> user.version,
             ids |-> {}, at |-> 0, late |-> Spent(t)]
    BY DEF Call
  <2>2. t.session \in Sessions /\ t.stv \in Nat /\ user.version \in Nat
    BY DEF AuthInv, TablesInv, TablesOK, Token
  <2>3. Spent(t) \in BOOLEAN
    BY DEF Spent
  <2>4. Spent(t) => t.stv < sess[t.session].version
    BY SMT DEF Spent, AuthInv, TablesInv, SpentBehind
  <2> QED BY <2>1, <2>2, <2>3, <2>4, SMT DEF Fits, Local, BySession
<1> QED BY <1>1, ReadKeeps, Zenon DEF RefreshToken, Become

LEMMA ValidateTokenKeeps ==
    ASSUME AuthInv, NEW r \in Requests, NEW t \in tokens, ValidateToken(r, t) PROVE AuthInv'
<1> DEFINE x == [pc |-> "policies", session |-> t.session, stv |-> t.stv, uv |-> t.uv,
                 ids |-> {}, at |-> t.iat, late |-> WasListed(t)]
<1>1. Fits(x, sess, user, denied)
  <2>2. t \in Token /\ t.uv <= user.version
    BY DEF AuthInv, TablesInv, TablesOK, TokensBehind
  <2>3. Claims(x) = t
    BY <2>2 DEF Claims, Token
  <2>4. WasListed(t) \in BOOLEAN /\ (WasListed(t) => t \in denied)
    BY DEF WasListed
  <2>5. x.late => Claims(x) \in denied
    BY <2>3, <2>4
  <2>6. x \in Local
    BY <2>2, <2>4 DEF Local, BySession, Token
  <2> QED BY <2>2, <2>5, <2>6, SMT DEF Fits, Token
<1> QED BY <1>1, ReadKeeps, Zenon DEF ValidateToken, Become

LEMMA CheckSessionKeeps ==
    ASSUME AuthInv, NEW r \in Requests, CheckSession(r) PROVE AuthInv'
<1>1. Fits(req[r], sess, user, denied) /\ req[r].pc = "check"
  BY DEF CheckSession, AuthInv, RequestsInv
<1>2. user.version \in Nat /\ \A s \in Sessions : sess[s].version \in Nat
  BY DEF AuthInv, TablesInv, TablesOK
<1>3. CASE sess[req[r].session].version = req[r].stv /\ Goto(r, "rotate")
  <2> DEFINE x == [req[r] EXCEPT !.pc = "rotate"]
  <2>1. req' = [req EXCEPT ![r] = x]
    BY <1>3 DEF Goto
  <2>2. Fits(x, sess, user, denied)
    BY <1>1, <1>2, <1>3, SMT DEF Fits, Local, BySession
  <2> QED BY <2>1, <2>2, ReadKeeps, Zenon DEF CheckSession
<1>4. CASE Goto(r, "family")
  <2> DEFINE x == [req[r] EXCEPT !.pc = "family"]
  <2>1. req' = [req EXCEPT ![r] = x]
    BY <1>4 DEF Goto
  <2>2. Fits(x, sess, user, denied)
    BY <1>1, <1>2, SMT DEF Fits, Local, BySession
  <2> QED BY <2>1, <2>2, ReadKeeps, Zenon DEF CheckSession
<1>5. CASE Done(r)
  <2>1. Fits(Idle, sess, user, denied)
    BY <1>2, IdleFits
  <2> QED BY <1>5, <2>1, ReadKeeps, Zenon DEF CheckSession, Done, Become
<1> QED BY <1>3, <1>4, <1>5, Zenon DEF CheckSession

LEMMA RereadKeeps ==
    ASSUME AuthInv, NEW r \in Requests, Reread(r) PROVE AuthInv'
<1> DEFINE s == req[r].session
           x == Call("issue", s, sess[s].version, req[r].uv)
<1>1. Fits(x, sess, user, denied)
  <2>1. Fits(req[r], sess, user, denied) /\ req[r].pc = "reread"
    BY DEF Reread, AuthInv, RequestsInv
  <2>2. \A q \in Sessions : sess[q].version \in Nat
    BY DEF AuthInv, TablesInv, TablesOK
  <2> QED BY <2>1, <2>2, SMT DEF Fits, Local, BySession, Call
<1> QED BY <1>1, ReadKeeps, Zenon DEF Reread, Become

LEMMA ListSessionsKeeps ==
    ASSUME AuthInv, NEW r \in Requests, NEW except, ListSessions(r, except) PROVE AuthInv'
<1> DEFINE x == [Call("revokeAll", NoSession, 0, 0) EXCEPT !.ids = Active \ except]
<1>1. Fits(x, sess, user, denied)
  <2>1. user.version \in Nat
    BY DEF AuthInv, TablesInv, TablesOK
  <2> DEFINE y == Call("revokeAll", NoSession, 0, 0)
  <2>2. y \in Local /\ y.pc = "revokeAll" /\ y.uv = 0 /\ y.late = FALSE
    BY SMT DEF Local, Call
  <2> HIDE DEF y
  <2>3. Fits([y EXCEPT !.ids = Active \ except], sess, user, denied)
    BY <2>1, <2>2, SMT DEF Fits, Local, BySession, Active
  <2> QED BY <2>3 DEF y
<1> QED BY <1>1, ReadKeeps, Zenon DEF ListSessions, Become

LEMMA TakeTimeKeeps ==
    ASSUME AuthInv, NEW r \in Requests, TakeTime(r) PROVE AuthInv'
<1> DEFINE x == [Call("revokeUser", NoSession, 0, 0) EXCEPT !.at = now]
<1>1. Fits(x, sess, user, denied)
  <2>1. user.version \in Nat /\ now \in Nat
    BY DEF AuthInv, TablesInv, TablesOK
  <2> DEFINE y == Call("revokeUser", NoSession, 0, 0)
  <2>2. y \in Local /\ y.pc = "revokeUser" /\ y.uv = 0 /\ y.late = FALSE
    BY SMT DEF Local, Call
  <2> HIDE DEF y
  <2>3. Fits([y EXCEPT !.at = now], sess, user, denied)
    BY <2>1, <2>2, SMT DEF Fits, Local, BySession
  <2> QED BY <2>3 DEF y
<1> QED BY <1>1, ReadKeeps, Zenon DEF TakeTime, Become

----------------------------------------------------------------------------
(* Steps that write the tables *)

LEMMA CreateAuthSessionKeeps ==
    ASSUME AuthInv, NEW r \in Requests, NEW s \in Sessions, CreateAuthSession(r, s)
    PROVE  AuthInv'
<1>1. TablesInv' /\ RowsGrow
  BY SMT DEF CreateAuthSession, AuthInv, TablesInv, TablesOK, TokensBehind, EndedBehind,
             SpentBehind, DeniedOK, ServedOK, RowsGrow
<1>2. Fits(Call("issue", s, 0, req[r].uv), sess', user', denied')
  <2>1. Fits(req[r], sess, user, denied) /\ TablesOK
    BY DEF AuthInv, RequestsInv, TablesInv
  <2> QED BY <1>1, <2>1, SMT DEF RowsGrow, TablesOK, Fits, Local, BySession, Call
<1> QED BY <1>1, <1>2, RequestMoves, Zenon DEF CreateAuthSession, Become, AuthInv

LEMMA RotateKeeps ==
    ASSUME AuthInv, NEW r \in Requests, Rotate(r) PROVE AuthInv'
<1> DEFINE x == [req[r] EXCEPT !.pc = "reread"]
<1>1. Fits(req[r], sess, user, denied) /\ req[r].pc = "rotate" /\ req[r].session \in Sessions
  BY DEF Rotate, AuthInv, RequestsInv, Fits, BySession
<1>2. TablesOK' /\ RowsGrow
  BY <1>1, SMT DEF Rotate, AuthInv, TablesInv, TablesOK, RowsGrow, Fits, Local
<1>3. TokensBehind' /\ EndedBehind' /\ DeniedOK' /\ ServedOK'
  BY <1>1, <1>2, SMT DEF Rotate, AuthInv, TablesInv, TablesOK, TokensBehind, EndedBehind,
             DeniedOK, ServedOK, RowsGrow, Token
<1>4. SpentBehind'
  BY <1>1, <1>2, SMT DEF Rotate, AuthInv, TablesInv, TablesOK, SpentBehind, RowsGrow, Fits, Local
<1>5. Fits(x, sess', user', denied')
  BY <1>1, <1>2, SMT DEF AuthInv, TablesInv, TablesOK, RowsGrow, Fits, Local, BySession
<1>6. req' = [req EXCEPT ![r] = x]
  BY DEF Rotate, Goto
<1> QED BY <1>2, <1>3, <1>4, <1>5, <1>6, RequestMoves, Zenon DEF AuthInv, TablesInv

LEMMA IssueKeeps ==
    ASSUME AuthInv, NEW r \in Requests, Issue(r) PROVE AuthInv'
<1>1. Fits(req[r], sess, user, denied) /\ req[r].pc = "issue" /\ now \in Nat
  BY DEF Issue, AuthInv, TablesInv, TablesOK, RequestsInv
<1> DEFINE t == [session |-> req[r].session, stv |-> req[r].stv, uv |-> req[r].uv, iat |-> now]
<1>2. /\ t \in Token /\ t.stv <= sess[t.session].version /\ t.uv <= user.version
      /\ tokens' = tokens \cup {t}
  BY <1>1, SMT DEF Issue, Fits, Local, BySession, Token
<1>3. TablesInv' /\ RowsGrow
  <2> HIDE DEF t
  <2> QED BY <1>2, SMT DEF Issue, AuthInv, TablesInv, TablesOK, TokensBehind, EndedBehind,
             SpentBehind, DeniedOK, ServedOK, RowsGrow
<1>4. Fits(Idle, sess', user', denied')
  BY <1>3, IdleFits DEF RowsGrow
<1> QED BY <1>3, <1>4, RequestMoves, Zenon DEF Issue, Done, Become, AuthInv

\* The policies let a listed token through only when its row no longer counts.
LEMMA ApplyPoliciesKeeps ==
    ASSUME AuthInv, NEW r \in Requests, ApplyPolicies(r) PROVE AuthInv'
<1> DEFINE t == Claims(req[r])
<1>1. Fits(req[r], sess, user, denied) /\ req[r].pc = "policies"
  BY DEF ApplyPolicies, AuthInv, RequestsInv
<1>2. ASSUME PoliciesAccept(t), req[r].late PROVE t \in denied /\ now >= t.iat + AccessTTL
  <2>1. t \in denied /\ t \in Token
    BY <1>1, <1>2 DEF Fits, AuthInv, TablesInv, TablesOK
  <2>2. t \in revoked \/ now >= t.iat + AccessTTL
    BY <2>1 DEF AuthInv, TablesInv, DeniedOK
  <2> HIDE DEF t
  <2> QED BY <1>2, <2>1, <2>2, AuthAssumption, SMT
        DEF PoliciesAccept, Listed, Token, AuthInv, TablesInv, TablesOK
<1>3. served' \subseteq denied /\ \A x \in served' : now >= x.iat + AccessTTL
  <2> HIDE DEF t
  <2>1. \/ served' = served
        \/ (PoliciesAccept(t) /\ req[r].late) /\ served' = served \cup {t}
    BY Zenon DEF ApplyPolicies, t
  <2>2. served \subseteq denied /\ \A x \in served : now >= x.iat + AccessTTL
    BY Zenon DEF AuthInv, TablesInv, TablesOK, ServedOK
  <2> QED BY <1>2, <2>1, <2>2, Zenon
<1>4. TablesInv' /\ RowsGrow
  BY <1>3, SMT DEF ApplyPolicies, AuthInv, TablesInv, TablesOK, TokensBehind, EndedBehind,
             SpentBehind, DeniedOK, ServedOK, RowsGrow
<1>5. Fits(Idle, sess', user', denied')
  BY <1>4, IdleFits DEF RowsGrow
<1> QED BY <1>4, <1>5, RequestMoves, Zenon DEF ApplyPolicies, Done, Become, AuthInv

\* A revocation moves its sessions past everything issued for them.
LEMMA RevokeSessionsKeeps ==
    ASSUME TablesInv, NEW S \in SUBSET Sessions, RevokeSessions(S)
    PROVE  TablesInv' /\ RowsGrow
<1>1. TablesOK' /\ RowsGrow
  BY SMT DEF RevokeSessions, TablesInv, TablesOK, RowsGrow
<1>2. TokensBehind' /\ SpentBehind' /\ DeniedOK' /\ ServedOK'
  BY <1>1, SMT DEF RevokeSessions, TablesInv, TablesOK, TokensBehind, SpentBehind, DeniedOK, ServedOK,
             RowsGrow, Token
<1>3. EndedBehind'
  BY <1>1, SMT DEF RevokeSessions, TablesInv, TablesOK, TokensBehind, EndedBehind, RowsGrow, Token
<1> QED BY <1>1, <1>2, <1>3 DEF TablesInv

LEMMA RevocationKeeps ==
    ASSUME AuthInv, NEW S \in SUBSET Sessions, RevokeSessions(S),
           UNCHANGED req \/ \E r \in Requests : Done(r)
    PROVE  AuthInv'
<1>1. TablesInv' /\ RowsGrow
  BY RevokeSessionsKeeps DEF AuthInv
<1>2. CASE UNCHANGED req
  BY <1>1, <1>2, RequestsStay DEF AuthInv
<1>3. ASSUME NEW r \in Requests, Done(r) PROVE AuthInv'
  <2>1. Fits(Idle, sess', user', denied')
    BY <1>1, IdleFits DEF RowsGrow
  <2> QED BY <1>1, <1>3, <2>1, RequestMoves, Zenon DEF Done, Become, AuthInv
<1> QED BY <1>2, <1>3

LEMMA RevokeUserTokensKeeps ==
    ASSUME AuthInv, NEW r \in Requests, RevokeUserTokens(r) PROVE AuthInv'
<1>1. req[r].at \in Nat
  BY DEF AuthInv, RequestsInv, Fits, Local
<1>2. user' \in [active : BOOLEAN, version : Nat, validAfter : Nat]
      /\ user'.version = user.version + 1
  BY <1>1, SMT DEF RevokeUserTokens, AuthInv, TablesInv, TablesOK
<1>3. TablesInv' /\ RowsGrow
  BY <1>2, SMT DEF RevokeUserTokens, AuthInv, TablesInv, TablesOK, TokensBehind, EndedBehind,
             SpentBehind, DeniedOK, ServedOK, RowsGrow, Token
<1>4. Fits(Idle, sess', user', denied')
  BY <1>3, IdleFits DEF RowsGrow
<1> QED BY <1>3, <1>4, RequestMoves, Zenon DEF RevokeUserTokens, Done, Become, AuthInv

LEMMA OtherStepsKeep ==
    ASSUME AuthInv,
           \/ \E t \in tokens : RevokeJWT(t)
           \/ ChangeTwoFactor \/ Cleanup \/ Tick
           \/ \E active \in BOOLEAN : SetStatus(active)
    PROVE  AuthInv'
<1>1. TablesInv' /\ RowsGrow /\ UNCHANGED req
  <2>1. CASE \E t \in tokens : RevokeJWT(t)
    BY <2>1, SMT DEF RevokeJWT, AuthInv, TablesInv, TablesOK, TokensBehind, EndedBehind,
             SpentBehind, DeniedOK, ServedOK, RowsGrow
  <2>2. CASE ChangeTwoFactor
    BY <2>2, SMT DEF ChangeTwoFactor, AuthInv, TablesInv, TablesOK, TokensBehind, EndedBehind,
             SpentBehind, DeniedOK, ServedOK, RowsGrow
  <2>3. CASE Cleanup
    BY <2>3, AuthAssumption, SMT DEF Cleanup, AuthInv, TablesInv, TablesOK, TokensBehind, EndedBehind,
             SpentBehind, DeniedOK, ServedOK, RowsGrow, Token
  <2>4. CASE Tick
    BY <2>4, AuthAssumption, SMT DEF Tick, AuthInv, TablesInv, TablesOK, TokensBehind, EndedBehind,
             SpentBehind, DeniedOK, ServedOK, RowsGrow, Token
  <2>5. CASE \E active \in BOOLEAN : SetStatus(active)
    BY <2>5, SMT DEF SetStatus, AuthInv, TablesInv, TablesOK, TokensBehind, EndedBehind,
             SpentBehind, DeniedOK, ServedOK, RowsGrow
  <2> QED BY <2>1, <2>2, <2>3, <2>4, <2>5
<1> QED BY <1>1, RequestsStay DEF AuthInv

LEMMA StepKeeps == AuthInv /\ [Next]_vars => AuthInv'
<1> SUFFICES ASSUME AuthInv, [Next]_vars PROVE AuthInv'
  OBVIOUS
<1>1. ASSUME NEW r \in Requests,
             \/ Authenticate(r) \/ CheckSession(r) \/ Rotate(r) \/ Reread(r) \/ Issue(r)
             \/ TakeTime(r) \/ RevokeUserTokens(r) \/ ApplyPolicies(r)
      PROVE  AuthInv'
  BY <1>1, AuthenticateKeeps, CheckSessionKeeps, RotateKeeps, RereadKeeps, IssueKeeps,
     TakeTimeKeeps, RevokeUserTokensKeeps, ApplyPoliciesKeeps
<1>2. ASSUME NEW r \in Requests, NEW s \in Sessions, CreateAuthSession(r, s) PROVE AuthInv'
  BY <1>2, CreateAuthSessionKeeps
<1>3. ASSUME NEW r \in Requests, NEW t \in tokens, RefreshToken(r, t) \/ ValidateToken(r, t)
      PROVE  AuthInv'
  BY <1>3, RefreshTokenKeeps, ValidateTokenKeeps
<1>4. ASSUME NEW r \in Requests, NEW except, ListSessions(r, except) PROVE AuthInv'
  BY <1>4, ListSessionsKeeps
<1>5. ASSUME NEW r \in Requests, RevokeActiveAuthSession(r) \/ RevokeListed(r) PROVE AuthInv'
  <2>1. Active \cap {req[r].session} \in SUBSET Sessions /\ req[r].ids \in SUBSET Sessions
    BY SMT DEF Active, AuthInv, RequestsInv, Fits, Local
  <2>2. Done(r) /\ \E S \in SUBSET Sessions : RevokeSessions(S)
    BY <1>5, <2>1 DEF RevokeActiveAuthSession, RevokeListed
  <2> QED BY <2>2, RevocationKeeps
<1>6. ASSUME NEW s \in Sessions, RevokeSession(s) \/ RevokeOtherSessions(s) PROVE AuthInv'
  <2>1. {s} \in SUBSET Sessions /\ Active \ {s} \in SUBSET Sessions
    BY DEF Active
  <2>2. UNCHANGED req /\ \E S \in SUBSET Sessions : RevokeSessions(S)
    BY <1>6, <2>1 DEF RevokeSession, RevokeOtherSessions
  <2> QED BY <2>2, RevocationKeeps
<1>7. CASE UNCHANGED vars
  <2>1. TablesInv' /\ RowsGrow /\ UNCHANGED req
    BY <1>7, TablesStay DEF vars, AuthInv
  <2> QED BY <2>1, RequestsStay DEF AuthInv
<1> QED BY <1>1, <1>2, <1>3, <1>4, <1>5, <1>6, <1>7, OtherStepsKeep DEF Next

LEMMA Always == Spec => []AuthInv
<1>1. AuthInv /\ [Next]_vars => AuthInv'
  BY StepKeeps
<1> QED BY <1>1, InitEstablishes, PTL DEF Spec

----------------------------------------------------------------------------
(* Theorems *)

\* The tables, the tokens and the requests are well typed.
THEOREM TypesHold == Spec => []TypeOK
<1>1. AuthInv => TypeOK
  <2> SUFFICES ASSUME AuthInv PROVE TypeOK
    OBVIOUS
  <2>1. req \in [Requests -> Local]
    BY Zenon DEF AuthInv, RequestsInv, Fits
  <2> QED BY <2>1 DEF AuthInv, TablesInv, RequestsInv, Fits, TypeOK
<1> QED BY <1>1, Always, PTL

\* Whatever refreshes, revocations and administrators do in whatever order, what
\* was issued before its session or its user was revoked stays refused.
THEOREM RevocationsLast == Spec => []EndedStaysEnded
<1>1. AuthInv => EndedStaysEnded
  BY SMT DEF AuthInv, TablesInv, TablesOK, EndedBehind, EndedStaysEnded, UserAccepts,
             SessionAccepts, Token
<1> QED BY <1>1, Always, PTL

\* A request that comes with a listed access token is refused, through every
\* retention run, unless the token itself runs out before the policies look.
THEOREM ListingsLast == Spec => []DeniedStaysDenied
<1>1. AuthInv => DeniedStaysDenied
  BY DEF AuthInv, TablesInv, ServedOK, DeniedStaysDenied
<1> QED BY <1>1, Always, PTL

\* A refresh token that has been rotated is refused to every refresh that begins
\* afterwards, with any number of requests.
THEOREM RefreshTokensWorkOnce == Spec => []SpentStaysSpent
<1>1. AuthInv => SpentStaysSpent
  BY DEF AuthInv, RequestsInv, Fits, SpentStaysSpent
<1> QED BY <1>1, Always, PTL
=============================================================================
