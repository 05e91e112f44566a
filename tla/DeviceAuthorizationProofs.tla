---------------------- MODULE DeviceAuthorizationProofs ----------------------
(***************************************************************************)
(* Proofs about DeviceAuthorization for any devices, any number of         *)
(* authorizations and any number of refreshes: a session has one active    *)
(* refresh token, the stored bundle works, only old tokens are replays,    *)
(* and no session outlives the password its approval was made under.       *)
(*                                                                         *)
(* The heart of the invariant is that the rows of one authorization agree  *)
(* with each other and with what its client received.  All operations but  *)
(* the user-wide ones touch the rows of one authorization.  The user-wide  *)
(* revocation of three statements needs one thing more: the sessions that  *)
(* its second statement locked include those whose tokens its first saw.   *)
(*                                                                         *)
(* The same invariant carries the refinement of GrantedSessions: a client  *)
(* is never ahead of its session, and of a live session the token of its   *)
(* generation, and no other, works.                                        *)
(***************************************************************************)
EXTENDS DeviceAuthorization, TLAPS

(* The authorization x, its session s and tokens t, the client c; old: a   *)
(* password change has superseded the approval.                            *)
Agree(x, s, t, c, old) ==
    /\ x.status = "CONSUMED" <=> s.state # "none"
    /\ x.bundle => x.status = "CONSUMED"
    /\ x.bundle /\ x.handoff = "open" => s.state = "live" /\ s.generation = 0
    /\ \A g \in Generation : t[g] # "none" => s.state # "none"
    /\ \A g \in Generation : t[g] = "ACTIVE" => g = s.generation
    /\ s.state = "live" => t[s.generation] = "ACTIVE"
    /\ s.state = "live" => \A g \in Generation : g < s.generation => t[g] = "ROTATED"
    /\ c.newest # -1 => s.state # "none"
    /\ c.newest <= s.generation
    /\ s.state # "none" /\ ~c.lost => c.newest = s.generation
    /\ old => x.status \in {"DENIED", "CONSUMED"} /\ s.state # "live"

RowsAgree ==
    \A a \in Auth : Agree(auth[a], session[a], token[a], client[a], a \in superseded)

(* A revocation has seen only what exists, and locks the sessions of the   *)
(* tokens it has seen.                                                     *)
RevocationSeesSessions ==
    /\ \A a \in revocation.sessions : session[a].state # "none"
    /\ \A p \in revocation.tokens : session[p[1]].state # "none"
    /\ revocation.at = "sessions" =>
          \A p \in revocation.tokens : p[1] \in revocation.sessions

(* The inductive invariant.                                                *)
DInv == TypeOK /\ RowsAgree /\ RevocationSeesSessions

TokenRow == [Generation -> TokenStatus]

-----------------------------------------------------------------------------
(* The rows of one authorization, by type.                                 *)
LEMMA RowTypes ==
    ASSUME TypeOK, NEW a \in Auth
    PROVE  /\ auth[a] \in AuthRow /\ session[a] \in SessionRow
           /\ token[a] \in TokenRow /\ client[a] \in Client
BY DEF TypeOK, TokenRow

LEMMA Zero == 0 \in Generation /\ -1 \notin Generation
BY DeviceAssumption DEF Generation

(* A step on the rows of one authorization after which they agree again    *)
(* preserves the invariant.                                                *)
LEMMA OneRow ==
    ASSUME DInv, NEW a \in Auth,
           NEW x \in AuthRow, NEW s \in SessionRow, NEW t \in TokenRow, NEW c \in Client,
           auth' = [auth EXCEPT ![a] = x],
           session' = [session EXCEPT ![a] = s],
           token' = [token EXCEPT ![a] = t],
           client' = [client EXCEPT ![a] = c],
           UNCHANGED Rest,
           session[a].state # "none" => s.state # "none",
           Agree(x, s, t, c, a \in superseded)
    PROVE  DInv'
<1>1. TypeOK /\ RowsAgree /\ RevocationSeesSessions /\ UNCHANGED <<member, revocation, superseded>>
  BY DEF DInv, Rest
<1>2. /\ auth' \in [Auth -> AuthRow] /\ session' \in [Auth -> SessionRow]
      /\ token' \in [Auth -> TokenRow] /\ client' \in [Auth -> Client]
  BY <1>1 DEF TypeOK, TokenRow
<1>3. /\ auth'[a] = x /\ session'[a] = s /\ token'[a] = t /\ client'[a] = c
      /\ \A b \in Auth : b # a => /\ auth'[b] = auth[b] /\ session'[b] = session[b]
                                  /\ token'[b] = token[b] /\ client'[b] = client[b]
  BY <1>1 DEF TypeOK
<1>4. RowsAgree'
  BY <1>1, <1>3 DEF RowsAgree
<1>5. \A b \in Auth : auth'[b].status = "CONSUMED" <=> session'[b].state # "none"
  BY <1>3, <1>4 DEF RowsAgree, Agree
<1>6. TypeOK'
  BY <1>1, <1>2, <1>5 DEF TypeOK, TokenRow
<1>7. \A b \in Auth : session[b].state # "none" => session'[b].state # "none"
  BY <1>3
<1>8. revocation.sessions \subseteq Auth /\ revocation.tokens \subseteq Auth \X Generation
  BY <1>1 DEF TypeOK, Revocation
<1>9. RevocationSeesSessions'
  BY <1>1, <1>7, <1>8 DEF RevocationSeesSessions
<1> QED
  BY <1>4, <1>6, <1>9 DEF DInv

(* Such a step on the authorization alone.                                 *)
LEMMA OneAuth ==
    ASSUME DInv, NEW a \in Auth, NEW x \in AuthRow,
           auth' = [auth EXCEPT ![a] = x],
           UNCHANGED <<session, token, client, Rest>>,
           Agree(x, session[a], token[a], client[a], a \in superseded)
    PROVE  DInv'
<1>1. TypeOK
  BY DEF DInv
<1>2. /\ session' = [session EXCEPT ![a] = session[a]]
      /\ token' = [token EXCEPT ![a] = token[a]]
      /\ client' = [client EXCEPT ![a] = client[a]]
  BY <1>1 DEF TypeOK
<1>3. UNCHANGED Rest
  BY DEF Rest
<1>4. /\ session[a] \in SessionRow /\ token[a] \in TokenRow /\ client[a] \in Client
  BY <1>1, RowTypes
<1> QED
  BY <1>2, <1>3, <1>4, OneRow

-----------------------------------------------------------------------------
LEMMA InitDInv == Init => DInv
<1> SUFFICES ASSUME Init PROVE DInv
  OBVIOUS
<1>1. NoAuth \in AuthRow /\ NoSession \in SessionRow
  BY Zero DEF NoAuth, AuthRow, NoSession, SessionRow, Status
<1>2. [newest |-> -1, lost |-> FALSE] \in Client /\ NoRevocation \in Revocation
  BY DEF Client, NoRevocation, Revocation
<1>3. TypeOK
  BY <1>1, <1>2 DEF Init, TypeOK, TokenStatus, NoAuth, NoSession
<1>4. RowsAgree
  BY DEF Init, RowsAgree, Agree, NoAuth, NoSession
<1>5. RevocationSeesSessions
  BY DEF Init, RevocationSeesSessions, NoRevocation
<1> QED
  BY <1>3, <1>4, <1>5 DEF DInv

-----------------------------------------------------------------------------
(* A new authorization has neither session nor tokens; those of its device *)
(* that expire have none either.                                           *)
LEMMA StartStep == ASSUME DInv, NEW d \in Device, Start(d) PROVE DInv'
<1>1. TypeOK /\ RowsAgree /\ RevocationSeesSessions
  BY DEF DInv
<1>2. UNCHANGED <<session, token, client, member, revocation, superseded>>
  BY DEF Start, Rest
<1>3. PICK a \in Auth :
        /\ Created(a)
        /\ auth' = [b \in Auth |->
              IF b = a THEN [NoAuth EXCEPT !.status = "PENDING", !.device = d]
              ELSE IF auth[b].device = d /\ auth[b].status = "PENDING"
              THEN [auth[b] EXCEPT !.status = "EXPIRED"] ELSE auth[b]]
  BY DEF Start
<1>4. ASSUME NEW b \in Auth
      PROVE  /\ auth'[b] \in AuthRow
             /\ Agree(auth'[b], session[b], token[b], client[b], b \in superseded)
  <2>1. /\ auth[b] \in AuthRow
        /\ Agree(auth[b], session[b], token[b], client[b], b \in superseded)
    BY <1>1, RowTypes DEF RowsAgree
  <2>2. CASE b = a
    <3>1. auth'[b] = [NoAuth EXCEPT !.status = "PENDING", !.device = d]
      BY <1>3, <2>2
    <3>2. auth[b].status = "absent"
      BY <1>3, <2>2 DEF Created
    <3> QED
      BY <2>1, <3>1, <3>2 DEF Agree, AuthRow, Status, NoAuth
  <2>3. CASE b # a /\ auth[b].device = d /\ auth[b].status = "PENDING"
    <3>1. auth'[b] = [auth[b] EXCEPT !.status = "EXPIRED"]
      BY <1>3, <2>3
    <3> QED
      BY <2>1, <2>3, <3>1 DEF Agree, AuthRow, Status
  <2>4. CASE b # a /\ ~(auth[b].device = d /\ auth[b].status = "PENDING")
    BY <1>3, <2>1, <2>4
  <2> QED
    BY <2>2, <2>3, <2>4
<1>5. RowsAgree'
  BY <1>2, <1>4 DEF RowsAgree
<1>6. \A b \in Auth : auth'[b].status = "CONSUMED" <=> session[b].state # "none"
  BY <1>4 DEF Agree
<1>7. auth' \in [Auth -> AuthRow]
  BY <1>3, <1>4
<1>8. TypeOK'
  BY <1>1, <1>2, <1>6, <1>7 DEF TypeOK
<1>9. RevocationSeesSessions'
  BY <1>1, <1>2 DEF RevocationSeesSessions
<1> QED
  BY <1>5, <1>8, <1>9 DEF DInv

(* The rows of an authorization agree as they are.                         *)
LEMMA Agreeing ==
    ASSUME DInv, NEW a \in Auth
    PROVE  /\ auth[a] \in AuthRow /\ session[a] \in SessionRow
           /\ token[a] \in TokenRow /\ client[a] \in Client
           /\ Agree(auth[a], session[a], token[a], client[a], a \in superseded)
BY RowTypes DEF DInv, RowsAgree

(* A handoff is born approved, without session or tokens.                  *)
LEMMA IssueHandoffStep == ASSUME DInv, NEW d \in Device, IssueHandoff(d) PROVE DInv'
<1> DEFINE x == [NoAuth EXCEPT !.status = "APPROVED", !.device = d]
<1>1. PICK a \in Auth : Created(a) /\ auth' = [auth EXCEPT ![a] = x]
  BY DEF IssueHandoff
<1>2. UNCHANGED <<session, token, client, Rest>>
  BY DEF IssueHandoff
<1>3. x \in AuthRow
  BY DEF NoAuth, AuthRow, Status
<1>4. Agree(x, session[a], token[a], client[a], a \in superseded)
  BY <1>1, Agreeing DEF Created, Agree, NoAuth, AuthRow
<1> HIDE DEF x
<1> QED
  BY <1>1, <1>2, <1>3, <1>4, OneAuth

(* Until it is consumed, an authorization has neither session nor tokens,  *)
(* so its status may change freely.                                        *)
LEMMA StatusStep ==
    ASSUME DInv, NEW a \in Auth, NEW status \in {"APPROVED", "DENIED", "EXPIRED"},
           auth[a].status \in {"PENDING", "APPROVED"},
           \/ auth' = [auth EXCEPT ![a].status = status]
           \/ auth' = [auth EXCEPT ![a] = [@ EXCEPT !.status = status, !.bundle = FALSE]],
           UNCHANGED <<session, token, client, Rest>>
    PROVE  DInv'
<1> DEFINE x == [auth[a] EXCEPT !.status = status]
           y == [auth[a] EXCEPT !.status = status, !.bundle = FALSE]
<1>1. /\ auth[a] \in AuthRow
      /\ Agree(auth[a], session[a], token[a], client[a], a \in superseded)
  BY Agreeing
<1>2. x \in AuthRow /\ Agree(x, session[a], token[a], client[a], a \in superseded)
  BY <1>1 DEF AuthRow, Status, Agree
<1>3. y \in AuthRow /\ Agree(y, session[a], token[a], client[a], a \in superseded)
  BY <1>1 DEF AuthRow, Status, Agree
<1>4. auth' = [auth EXCEPT ![a] = x] \/ auth' = [auth EXCEPT ![a] = y]
  OBVIOUS
<1> HIDE DEF x, y
<1> QED
  BY <1>2, <1>3, <1>4, OneAuth

LEMMA ApproveStep == ASSUME DInv, NEW a \in Auth, Approve(a) PROVE DInv'
BY StatusStep DEF Approve

LEMMA PollExpiresStep == ASSUME DInv, NEW a \in Auth, PollExpires(a) PROVE DInv'
BY StatusStep DEF PollExpires

LEMMA PollDeniesStep == ASSUME DInv, NEW a \in Auth, PollDenies(a) PROVE DInv'
BY StatusStep DEF PollDenies

LEMMA CancelStep == ASSUME DInv, NEW a \in Auth, Cancel(a) PROVE DInv'
BY StatusStep DEF Cancel, Cancellable

(* The ten minutes of an authorization.                                    *)
LEMMA AuthFallsDueStep == ASSUME DInv, NEW a \in Auth, AuthFallsDue(a) PROVE DInv'
<1> DEFINE x == [auth[a] EXCEPT !.due = TRUE]
<1>1. /\ auth[a] \in AuthRow
      /\ Agree(auth[a], session[a], token[a], client[a], a \in superseded)
  BY Agreeing
<1>2. x \in AuthRow /\ Agree(x, session[a], token[a], client[a], a \in superseded)
  BY <1>1 DEF AuthRow, Agree
<1>3. auth' = [auth EXCEPT ![a] = x] /\ UNCHANGED <<session, token, client, Rest>>
  BY DEF AuthFallsDue
<1> HIDE DEF x
<1> QED
  BY <1>2, <1>3, OneAuth

(* The bundle goes out of reach: by time, or because the client has it.    *)
LEMMA HandoffEnds ==
    ASSUME DInv, NEW a \in Auth, NEW x \in AuthRow,
           x.status = auth[a].status,
           x.bundle => auth[a].bundle,
           ~x.bundle \/ x.handoff = "over" \/ x.handoff = auth[a].handoff
    PROVE  Agree(x, session[a], token[a], client[a], a \in superseded)
<1>1. Agree(auth[a], session[a], token[a], client[a], a \in superseded)
  BY Agreeing
<1> QED
  BY <1>1 DEF Agree

LEMMA HandoffFallsDueStep == ASSUME DInv, NEW a \in Auth, HandoffFallsDue(a) PROVE DInv'
<1> DEFINE x == [auth[a] EXCEPT !.handoff = "over"]
<1>1. auth[a] \in AuthRow
  BY Agreeing
<1>2. /\ x \in AuthRow /\ x.status = auth[a].status
      /\ x.bundle = auth[a].bundle /\ x.handoff = "over"
  BY <1>1 DEF AuthRow
<1>3. auth' = [auth EXCEPT ![a] = x] /\ UNCHANGED <<session, token, client, Rest>>
  BY DEF HandoffFallsDue
<1> HIDE DEF x
<1> QED
  BY <1>2, <1>3, OneAuth, HandoffEnds

(* What HandoffOver leaves.                                                *)
LEMMA HandoffOverShape ==
    ASSUME NEW x \in AuthRow
    PROVE  /\ HandoffOver(x) \in AuthRow
           /\ HandoffOver(x).status = x.status
           /\ ~HandoffOver(x).bundle
           /\ HandoffOver(x).handoff = "over"
BY DEF HandoffOver, AuthRow

LEMMA AcknowledgeStep ==
    ASSUME DInv, NEW a \in Auth, NEW g \in Generation, Acknowledge(a, g) PROVE DInv'
<1>1. auth[a] \in AuthRow
  BY Agreeing
<1>2. auth' = [auth EXCEPT ![a] = HandoffOver(auth[a])]
      /\ UNCHANGED <<session, token, client, Rest>>
  BY DEF Acknowledge, EndsHandoff
<1> QED
  BY <1>1, <1>2, HandoffOverShape, HandoffEnds, OneAuth

(* What a client knows after an answer, and after a lost one.              *)
LEMMA ClientShape ==
    ASSUME NEW c \in Client, NEW g \in Generation
    PROVE  /\ [c EXCEPT !.newest = g] \in Client
           /\ [c EXCEPT !.newest = g].newest = g
           /\ [c EXCEPT !.newest = g].lost = c.lost
           /\ [c EXCEPT !.lost = TRUE] \in Client
           /\ [c EXCEPT !.lost = TRUE].newest = c.newest
           /\ [c EXCEPT !.lost = TRUE].lost
BY DEF Client

(* A bundle that is handed out again is of generation 0, the session's.    *)
LEMMA PollAgainStep == ASSUME DInv, NEW a \in Auth, PollAgain(a) PROVE DInv'
<1>1. /\ auth[a] \in AuthRow /\ client[a] \in Client
      /\ session[a] \in SessionRow /\ token[a] \in TokenRow
      /\ Agree(auth[a], session[a], token[a], client[a], a \in superseded)
      /\ TypeOK
  BY Agreeing DEF DInv
<1>2. UNCHANGED <<session, token, Rest>>
  BY DEF PollAgain
<1>3. CASE auth[a].handoff = "open" /\ (Answer(a, 0) \/ Lose(a)) /\ UNCHANGED auth
  <2>1. PICK c : /\ client' = [client EXCEPT ![a] = c]
                 /\ \/ c = [client[a] EXCEPT !.newest = 0]
                    \/ c = [client[a] EXCEPT !.lost = TRUE]
    BY <1>3 DEF Answer, Lose
  <2>2. /\ c \in Client
        /\ \/ c.newest = 0 /\ c.lost = client[a].lost
           \/ c.newest = client[a].newest /\ c.lost
    <3>1. CASE c = [client[a] EXCEPT !.newest = 0]
      BY <1>1, <3>1, ClientShape, Zero
    <3>2. CASE c = [client[a] EXCEPT !.lost = TRUE]
      BY <1>1, <3>2, ClientShape, Zero
    <3> QED
      BY <2>1, <3>1, <3>2
  <2>3. session[a].state = "live" /\ session[a].generation = 0
    BY <1>1, <1>3 DEF Agree, PollAgain
  <2>4. Agree(auth[a], session[a], token[a], c, a \in superseded)
    BY <1>1, <2>2, <2>3 DEF Agree
  <2>5. /\ auth' = [auth EXCEPT ![a] = auth[a]]
        /\ session' = [session EXCEPT ![a] = session[a]]
        /\ token' = [token EXCEPT ![a] = token[a]]
    BY <1>1, <1>2, <1>3 DEF TypeOK
  <2>6. UNCHANGED Rest
    BY <1>2 DEF Rest
  <2> QED
    BY <1>1, <2>1, <2>2, <2>4, <2>5, <2>6, OneRow
<1>4. CASE auth' = [auth EXCEPT ![a].bundle = FALSE] /\ UNCHANGED client
  <2> DEFINE x == [auth[a] EXCEPT !.bundle = FALSE]
  <2>1. x \in AuthRow /\ x.status = auth[a].status /\ ~x.bundle
    BY <1>1 DEF AuthRow
  <2>2. auth' = [auth EXCEPT ![a] = x]
    BY <1>4
  <2>3. UNCHANGED <<session, token, client, Rest>>
    BY <1>2, <1>4
  <2> HIDE DEF x
  <2> QED
    BY <2>1, <2>2, <2>3, HandoffEnds, OneAuth
<1> QED
  BY <1>3, <1>4 DEF PollAgain

(* The consuming poll makes the session with its first pair.               *)
LEMMA PollConsumesStep == ASSUME DInv, NEW a \in Auth, PollConsumes(a) PROVE DInv'
<1>1. /\ auth[a] \in AuthRow /\ client[a] \in Client
      /\ session[a] \in SessionRow /\ token[a] \in TokenRow
      /\ Agree(auth[a], session[a], token[a], client[a], a \in superseded)
      /\ TypeOK
  BY Agreeing DEF DInv
<1> DEFINE x == [auth[a] EXCEPT !.status = "CONSUMED", !.handoff = "open", !.bundle = TRUE]
           s == [NoSession EXCEPT !.state = "live"]
           t == [token[a] EXCEPT ![0] = "ACTIVE"]
<1>2. PICK c : /\ client' = [client EXCEPT ![a] = c]
               /\ \/ c = [client[a] EXCEPT !.newest = 0]
                  \/ c = [client[a] EXCEPT !.lost = TRUE]
  BY DEF PollConsumes, Answer, Lose
<1>3. c \in Client /\ (c.newest = 0 \/ (c.lost /\ c.newest = client[a].newest))
  <2>1. CASE c = [client[a] EXCEPT !.newest = 0]
    BY <1>1, <2>1, ClientShape, Zero
  <2>2. CASE c = [client[a] EXCEPT !.lost = TRUE]
    BY <1>1, <2>2, ClientShape, Zero
  <2> QED
    BY <1>2, <2>1, <2>2
<1>4. /\ auth' = [auth EXCEPT ![a] = x] /\ session' = [session EXCEPT ![a] = s]
      /\ token' = [token EXCEPT ![a] = t] /\ UNCHANGED Rest
  BY DEF PollConsumes
<1>5. /\ x \in AuthRow /\ x.status = "CONSUMED"
  BY <1>1 DEF AuthRow, Status
<1>6. s \in SessionRow /\ s.state = "live" /\ s.generation = 0
  BY Zero DEF NoSession, SessionRow
<1>7. /\ t \in TokenRow /\ t[0] = "ACTIVE"
      /\ \A g \in Generation : g # 0 => t[g] = token[a][g]
  BY <1>1, Zero DEF TokenRow, TokenStatus
<1>8. /\ session[a].state = "none" /\ a \notin superseded
      /\ \A g \in Generation : token[a][g] = "none"
  BY <1>1 DEF Agree, PollConsumes
<1>a. c.newest <= 0 /\ (c.newest = 0 \/ c.lost)
  <2>1. client[a].newest = -1
    BY <1>1, <1>8 DEF Agree
  <2> QED
    BY <1>3, <2>1
<1>b. \A g \in Generation : ~(g < 0)
  BY DeviceAssumption DEF Generation
<1> HIDE DEF x, s, t
<1>9. Agree(x, s, t, c, a \in superseded)
  BY <1>a, <1>b, <1>5, <1>6, <1>7, <1>8 DEF Agree
<1> QED
  BY <1>2, <1>3, <1>4, <1>5, <1>6, <1>7, <1>9, OneRow

(* Who holds a pair has a session.                                         *)
LEMMA HolderHasSession ==
    ASSUME DInv, NEW a \in Auth, NEW g \in Generation, Holds(a, g)
    PROVE  session[a].state # "none"
<1>1. client[a] \in Client /\ Agree(auth[a], session[a], token[a], client[a], a \in superseded)
  BY Agreeing
<1>2. client[a].newest # -1
  BY <1>1, DeviceAssumption DEF Holds, Client, Generation
<1> QED
  BY <1>1, <1>2 DEF Agree

LEMMA RevokedTokensShape ==
    ASSUME NEW t \in TokenRow
    PROVE  /\ RevokedTokens(t) \in TokenRow
           /\ \A g \in Generation : /\ RevokedTokens(t)[g] # "ACTIVE"
                                    /\ RevokedTokens(t)[g] = "none" <=> t[g] = "none"
BY DEF RevokedTokens, TokenRow, TokenStatus

(* A family that is revoked leaves nothing that works.                     *)
LEMMA RevokeFamilyStep ==
    ASSUME DInv, NEW a \in Auth, session[a].state # "none", RevokeFamily(a)
    PROVE  DInv'
<1>1. /\ auth[a] \in AuthRow /\ client[a] \in Client
      /\ session[a] \in SessionRow /\ token[a] \in TokenRow
      /\ Agree(auth[a], session[a], token[a], client[a], a \in superseded)
      /\ TypeOK
  BY Agreeing DEF DInv
<1> DEFINE s == [session[a] EXCEPT !.state = "revoked"]
<1>2. /\ auth' = [auth EXCEPT ![a] = HandoffOver(auth[a])]
      /\ session' = [session EXCEPT ![a] = s]
      /\ token' = [token EXCEPT ![a] = RevokedTokens(token[a])]
  BY DEF RevokeFamily
<1>3. client' = [client EXCEPT ![a] = client[a]] /\ UNCHANGED Rest
  BY <1>1 DEF RevokeFamily, TypeOK, Rest
<1>4. /\ s \in SessionRow /\ s.state = "revoked" /\ s.generation = session[a].generation
  BY <1>1 DEF SessionRow
<1> HIDE DEF s
<1>5. Agree(HandoffOver(auth[a]), s, RevokedTokens(token[a]), client[a], a \in superseded)
  BY <1>1, <1>4, HandoffOverShape, RevokedTokensShape DEF Agree
<1> QED
  BY <1>1, <1>2, <1>3, <1>4, <1>5, HandoffOverShape, RevokedTokensShape, OneRow

LEMMA RefreshRefusedStep ==
    ASSUME DInv, NEW a \in Auth, NEW g \in Generation, RefreshRefused(a, g) PROVE DInv'
BY HolderHasSession, RevokeFamilyStep DEF RefreshRefused

LEMMA AuthenticateRefusedStep ==
    ASSUME DInv, NEW a \in Auth, NEW g \in Generation, AuthenticateRefused(a, g) PROVE DInv'
BY HolderHasSession, RevokeFamilyStep DEF AuthenticateRefused, Accepted

LEMMA SignOutStep ==
    ASSUME DInv, NEW a \in Auth, NEW g \in Generation, SignOut(a, g) PROVE DInv'
BY HolderHasSession, RevokeFamilyStep DEF SignOut

(* The token presented is the active one, so it is of the session's        *)
(* generation, and the next one takes its place.                           *)
LEMMA RefreshRotatesStep ==
    ASSUME DInv, NEW a \in Auth, NEW g \in Generation, RefreshRotates(a, g) PROVE DInv'
<1>1. /\ auth[a] \in AuthRow /\ client[a] \in Client
      /\ session[a] \in SessionRow /\ token[a] \in TokenRow
      /\ Agree(auth[a], session[a], token[a], client[a], a \in superseded)
      /\ TypeOK
  BY Agreeing DEF DInv
<1> DEFINE n == session[a].generation + 1
           s == [session[a] EXCEPT !.generation = n, !.accessDue = FALSE]
           t == [token[a] EXCEPT ![g] = "ROTATED", ![n] = "ACTIVE"]
<1>2. session[a].generation \in Generation /\ session[a].generation < MaxGen
  BY <1>1 DEF SessionRow, RefreshRotates
<1>3. n \in Generation /\ n # session[a].generation /\ n # -1
  BY <1>2, DeviceAssumption DEF Generation
<1>4. /\ session[a].state # "none" /\ g = session[a].generation
      /\ session[a].state = "live"
  <2>1. token[a][g] = "ACTIVE" /\ session[a].state # "revoked"
    BY DEF RefreshRotates, Refreshable
  <2>2. session[a].state # "none" /\ g = session[a].generation
    BY <1>1, <2>1 DEF Agree
  <2> QED
    BY <1>1, <2>1, <2>2 DEF SessionRow
<1>5. PICK c : /\ client' = [client EXCEPT ![a] = c]
               /\ \/ c = [client[a] EXCEPT !.newest = n]
                  \/ c = [client[a] EXCEPT !.lost = TRUE]
  BY DEF RefreshRotates, Answer, Lose
<1>6. c \in Client /\ (c.newest = n \/ (c.lost /\ c.newest = client[a].newest))
  <2> HIDE DEF n
  <2>1. CASE c = [client[a] EXCEPT !.newest = n]
    BY <1>1, <1>3, <2>1, ClientShape
  <2>2. CASE c = [client[a] EXCEPT !.lost = TRUE]
    BY <1>1, <1>3, <2>2, ClientShape
  <2> QED
    BY <1>5, <2>1, <2>2
<1>7. /\ auth' = [auth EXCEPT ![a] = HandoffOver(auth[a])]
      /\ session' = [session EXCEPT ![a] = s] /\ UNCHANGED Rest
  <2>1. auth' = [auth EXCEPT ![a] = HandoffOver(auth[a])] /\ UNCHANGED Rest
    BY DEF RefreshRotates, EndsHandoff
  <2>2. session' = [session EXCEPT ![a] =
           [session[a] EXCEPT !.generation = session[a].generation + 1,
                              !.accessDue = FALSE]]
    BY DEF RefreshRotates
  <2> QED
    BY <2>1, <2>2
<1>8. token' = [token EXCEPT ![a] = t]
  BY <1>1 DEF RefreshRotates, Rotated, TypeOK, TokenRow
<1>9. s \in SessionRow /\ s.state = "live" /\ s.generation = n
  BY <1>1, <1>3, <1>4 DEF SessionRow
<1>10. /\ t \in TokenRow /\ t[n] = "ACTIVE"
       /\ \A h \in Generation : h # n => t[h] # "ACTIVE"
  <2>1. t \in TokenRow
    BY <1>1, <1>3 DEF TokenRow, TokenStatus
  <2>2. t[n] = "ACTIVE"
    BY <1>1, <1>3 DEF TokenRow
  <2>3. ASSUME NEW h \in Generation, h # n PROVE t[h] # "ACTIVE"
    <3>1. CASE h = g
      BY <1>1, <2>3, <3>1 DEF TokenRow
    <3>2. CASE h # g
      <4>1. token[a][h] # "ACTIVE"
        BY <1>1, <1>4, <3>2 DEF Agree
      <4>2. t[h] = token[a][h]
        BY <1>1, <2>3, <3>2 DEF TokenRow
      <4> QED
        BY <4>1, <4>2
    <3> QED
      BY <3>1, <3>2
  <2> QED
    BY <2>1, <2>2, <2>3
<1>a. c.newest <= n /\ (c.newest = n \/ c.lost)
  <2>1. client[a].newest <= session[a].generation /\ client[a].newest \in Int
    BY <1>1, DeviceAssumption DEF Agree, Client, Generation
  <2> QED
    BY <1>2, <1>3, <1>6, <2>1, DeviceAssumption DEF Generation
<1>b. \A h \in Generation : h < n => t[h] = "ROTATED"
  <2> SUFFICES ASSUME NEW h \in Generation, h < n PROVE t[h] = "ROTATED"
    OBVIOUS
  <2>1. h = g \/ h < g
    BY <1>2, <1>4, DeviceAssumption DEF Generation
  <2>2. h # n
    BY DeviceAssumption DEF Generation
  <2>3. CASE h = g
    BY <1>1, <2>2, <2>3 DEF TokenRow
  <2>4. CASE h # g
    <3>1. token[a][h] = "ROTATED"
      BY <1>1, <1>4, <2>1, <2>4 DEF Agree
    <3> QED
      BY <1>1, <2>2, <2>4, <3>1 DEF TokenRow
  <2> QED
    BY <2>3, <2>4
<1> HIDE DEF s, t, n
<1>11. Agree(HandoffOver(auth[a]), s, t, c, a \in superseded)
  BY <1>1, <1>4, <1>a, <1>b, <1>9, <1>10, HandoffOverShape DEF Agree
<1> QED
  BY <1>1, <1>4, <1>5, <1>6, <1>7, <1>8, <1>9, <1>10, <1>11, HandoffOverShape, OneRow

(* Time passes for a session.                                              *)
LEMMA SessionFallsDueStep == ASSUME DInv, NEW a \in Auth, SessionFallsDue(a) PROVE DInv'
<1>1. /\ auth[a] \in AuthRow /\ client[a] \in Client
      /\ session[a] \in SessionRow /\ token[a] \in TokenRow
      /\ Agree(auth[a], session[a], token[a], client[a], a \in superseded)
      /\ TypeOK
  BY Agreeing DEF DInv
<1>2. PICK s : /\ session' = [session EXCEPT ![a] = s]
               /\ \/ s = [session[a] EXCEPT !.accessDue = TRUE]
                  \/ s = [session[a] EXCEPT !.refreshDue = TRUE]
  BY DEF SessionFallsDue
<1>3. /\ s \in SessionRow /\ s.state = session[a].state
      /\ s.generation = session[a].generation
  BY <1>1, <1>2 DEF SessionRow
<1>4. Agree(auth[a], s, token[a], client[a], a \in superseded)
  BY <1>1, <1>3 DEF Agree
<1>5. /\ auth' = [auth EXCEPT ![a] = auth[a]]
      /\ token' = [token EXCEPT ![a] = token[a]]
      /\ client' = [client EXCEPT ![a] = client[a]] /\ UNCHANGED Rest
  BY <1>1 DEF SessionFallsDue, TypeOK, Rest
<1> QED
  BY <1>1, <1>2, <1>3, <1>4, <1>5, OneRow

-----------------------------------------------------------------------------
(* A user-wide step after which the rows of every authorization agree, and *)
(* that leaves no session's place empty, preserves the invariant.          *)
LEMMA EveryRow ==
    ASSUME DInv,
           auth' \in [Auth -> AuthRow], session' \in [Auth -> SessionRow],
           token' \in [Auth -> TokenRow],
           UNCHANGED <<member, client>>,
           superseded' \in SUBSET Auth,
           revocation' \in Revocation,
           RevocationSeesSessions',
           \A a \in Auth :
              Agree(auth'[a], session'[a], token'[a], client[a], a \in superseded')
    PROVE  DInv'
<1>1. RowsAgree'
  BY DEF RowsAgree
<1>2. \A a \in Auth : auth'[a].status = "CONSUMED" <=> session'[a].state # "none"
  BY DEF Agree
<1>3. TypeOK'
  BY <1>2 DEF DInv, TypeOK, TokenRow
<1> QED
  BY <1>1, <1>3 DEF DInv

(* What a revocation makes of a session and of an authorization.           *)
LEMMA RevokedShape ==
    ASSUME NEW s \in SessionRow
    PROVE  /\ Revoked(s) \in SessionRow
           /\ Revoked(s).state # "live"
           /\ Revoked(s).state = "none" <=> s.state = "none"
           /\ Revoked(s).generation = s.generation
BY DEF Revoked, SessionRow

LEMMA AgedShape ==
    ASSUME NEW s \in SessionRow
    PROVE  /\ Aged(s) \in SessionRow
           /\ Aged(s).state = s.state
           /\ Aged(s).generation = s.generation
BY DEF Aged, SessionRow

LEMMA DisownedShape ==
    ASSUME NEW x \in AuthRow
    PROVE  /\ Disowned(x) \in AuthRow
           /\ Disowned(x).status = IF x.status = "APPROVED" THEN "DENIED" ELSE x.status
           /\ x.status \in {"APPROVED", "CONSUMED"} => ~Disowned(x).bundle
           /\ x.status \notin {"APPROVED", "CONSUMED"} => Disowned(x) = x
<1>1. CASE x.status = "APPROVED"
  BY <1>1, HandoffOverShape DEF Disowned, AuthRow, Status
<1>2. CASE x.status # "APPROVED"
  BY <1>2, HandoffOverShape DEF Disowned
<1> QED
  BY <1>1, <1>2

(* The password change of an agent revokes what there is.                  *)
LEMMA ChangePasswordStep ==
    ASSUME DInv, NEW a \in Auth, NEW g \in Generation, ChangePasswordByAgent(a, g)
    PROVE  DInv'
<1>1. UNCHANGED <<member, client, revocation>> /\ TypeOK /\ RevocationSeesSessions
  BY DEF ChangePasswordByAgent, DInv
<1>2. ASSUME NEW b \in Auth
      PROVE  /\ auth'[b] \in AuthRow /\ session'[b] \in SessionRow /\ token'[b] \in TokenRow
             /\ session[b].state # "none" => session'[b].state # "none"
             /\ Agree(auth'[b], session'[b], token'[b], client[b], b \in superseded')
  <2>1. /\ auth[b] \in AuthRow /\ session[b] \in SessionRow
        /\ token[b] \in TokenRow /\ client[b] \in Client
        /\ Agree(auth[b], session[b], token[b], client[b], b \in superseded)
    BY Agreeing
  <2>2. /\ auth'[b] = Disowned(auth[b])
        /\ session'[b] = Revoked(Aged(session[b]))
        /\ token'[b] = RevokedTokens(token[b])
        /\ b \in superseded' =>
              b \in superseded \/ auth[b].status \in {"APPROVED", "CONSUMED"}
    BY DEF ChangePasswordByAgent
  <2>3. /\ session'[b] \in SessionRow /\ session'[b].state # "live"
        /\ session'[b].state = "none" <=> session[b].state = "none"
        /\ session'[b].generation = session[b].generation
    BY <2>1, <2>2, AgedShape, RevokedShape
  <2>4. /\ token'[b] \in TokenRow
        /\ \A h \in Generation : /\ token'[b][h] = "none" <=> token[b][h] = "none"
                                 /\ token'[b][h] = "ACTIVE" => token[b][h] = "ACTIVE"
    BY <2>1, <2>2, RevokedTokensShape
  <2>5. Agree(Disowned(auth[b]), session'[b], token'[b], client[b], b \in superseded')
    BY <2>1, <2>2, <2>3, <2>4, DisownedShape DEF Agree
  <2> QED
    BY <2>1, <2>2, <2>3, <2>4, <2>5, DisownedShape
<1>3. /\ auth' \in [Auth -> AuthRow] /\ session' \in [Auth -> SessionRow]
      /\ token' \in [Auth -> TokenRow]
  BY <1>2 DEF ChangePasswordByAgent
<1>4. superseded' \in SUBSET Auth
  BY <1>1 DEF ChangePasswordByAgent, TypeOK
<1>5. revocation' \in Revocation
  BY <1>1 DEF TypeOK
<1>6. RevocationSeesSessions'
  <2>1. revocation.sessions \subseteq Auth /\ revocation.tokens \subseteq Auth \X Generation
    BY <1>1 DEF TypeOK, Revocation
  <2> QED
    BY <1>1, <1>2, <2>1 DEF RevocationSeesSessions
<1> QED
  BY <1>1, <1>2, <1>3, <1>4, <1>5, <1>6, EveryRow

(* Every session ages.                                                     *)
LEMMA ChangeCredentialStep == ASSUME DInv, ChangeCredential PROVE DInv'
<1>1. /\ UNCHANGED <<auth, token, client, member, revocation, superseded>>
      /\ TypeOK /\ RevocationSeesSessions
  BY DEF ChangeCredential, Rest, DInv
<1>2. ASSUME NEW b \in Auth
      PROVE  /\ session'[b] \in SessionRow
             /\ session'[b].state = session[b].state
             /\ Agree(auth[b], session'[b], token[b], client[b], b \in superseded)
  <2>1. /\ session[b] \in SessionRow
        /\ Agree(auth[b], session[b], token[b], client[b], b \in superseded)
    BY Agreeing
  <2>2. session'[b] = Aged(session[b])
    BY DEF ChangeCredential
  <2> QED
    BY <2>1, <2>2, AgedShape DEF Agree
<1>3. session' \in [Auth -> SessionRow]
  BY <1>2 DEF ChangeCredential
<1>4. RevocationSeesSessions'
  <2>1. revocation.sessions \subseteq Auth /\ revocation.tokens \subseteq Auth \X Generation
    BY <1>1 DEF TypeOK, Revocation
  <2> QED
    BY <1>1, <1>2, <2>1 DEF RevocationSeesSessions
<1> QED
  BY <1>1, <1>2, <1>3, <1>4, EveryRow DEF TypeOK, TokenRow

(* A step of the revocation that only reads.                               *)
LEMMA RevocationReads ==
    ASSUME DInv, UNCHANGED <<auth, session, token, member, client, superseded>>,
           revocation' \in Revocation, RevocationSeesSessions'
    PROVE  DInv'
<1>1. \A b \in Auth :
         Agree(auth[b], session[b], token[b], client[b], b \in superseded)
  BY Agreeing
<1> QED
  BY <1>1, EveryRow DEF DInv, TypeOK, TokenRow

(* The first statement sees tokens of sessions that exist.                 *)
LEMMA RevokeTokensStep == ASSUME DInv, RevokeTokens PROVE DInv'
<1>1. /\ revocation'.at = "tokens" /\ revocation'.sessions = {}
      /\ revocation'.tokens = {t \in Auth \X Generation : token[t[1]][t[2]] # "none"}
      /\ UNCHANGED <<auth, session, token, member, client, superseded>>
  BY DEF RevokeTokens
<1>2. revocation' \in Revocation
  BY DEF RevokeTokens, Revocation
<1>3. \A p \in revocation'.tokens : session[p[1]].state # "none"
  <2> SUFFICES ASSUME NEW p \in Auth \X Generation, token[p[1]][p[2]] # "none"
               PROVE  session[p[1]].state # "none"
    BY <1>1
  <2>1. p[1] \in Auth /\ p[2] \in Generation
    OBVIOUS
  <2>2. Agree(auth[p[1]], session[p[1]], token[p[1]], client[p[1]], p[1] \in superseded)
    BY <2>1, Agreeing
  <2> QED
    BY <2>1, <2>2 DEF Agree
<1>4. RevocationSeesSessions'
  BY <1>1, <1>3 DEF RevocationSeesSessions
<1> QED
  BY <1>1, <1>2, <1>4, RevocationReads

(* The second locks all sessions that exist by then.                       *)
LEMMA RevokeSessionsStep == ASSUME DInv, RevokeSessions PROVE DInv'
<1>1. revocation \in Revocation /\ RevocationSeesSessions
  BY DEF DInv, TypeOK
<1> DEFINE S == {a \in Auth : session[a].state # "none"}
<1>2. /\ revocation' = [revocation EXCEPT !.at = "sessions", !.sessions = S]
      /\ UNCHANGED <<auth, session, token, member, client, superseded>>
  BY DEF RevokeSessions
<1>3. /\ revocation' \in Revocation /\ revocation'.at = "sessions"
      /\ revocation'.sessions = S /\ revocation'.tokens = revocation.tokens
  BY <1>1, <1>2 DEF Revocation
<1>4. revocation.tokens \subseteq Auth \X Generation
  BY <1>1 DEF Revocation
<1>5. RevocationSeesSessions'
  BY <1>1, <1>2, <1>3, <1>4 DEF RevocationSeesSessions
<1> QED
  BY <1>2, <1>3, <1>5, RevocationReads

(* The commit: the sessions of the tokens it revokes are revoked too, so   *)
(* those that live on keep their active token.                             *)
LEMMA RevokeAuthorizationsStep == ASSUME DInv, RevokeAuthorizations PROVE DInv'
<1>1. /\ UNCHANGED <<member, client, superseded>> /\ revocation' = NoRevocation
      /\ TypeOK /\ RevocationSeesSessions /\ revocation.at = "sessions"
  BY DEF RevokeAuthorizations, DInv
<1>2. ASSUME NEW b \in Auth
      PROVE  /\ auth'[b] \in AuthRow /\ session'[b] \in SessionRow /\ token'[b] \in TokenRow
             /\ Agree(auth'[b], session'[b], token'[b], client[b], b \in superseded)
  <2>1. /\ auth[b] \in AuthRow /\ session[b] \in SessionRow
        /\ token[b] \in TokenRow /\ client[b] \in Client
        /\ Agree(auth[b], session[b], token[b], client[b], b \in superseded)
    BY Agreeing
  <2>2. /\ auth'[b] = Disowned(auth[b])
        /\ session'[b] = IF b \in revocation.sessions THEN Revoked(session[b])
                         ELSE session[b]
        /\ token'[b] = [g \in Generation |->
              IF <<b, g>> \in revocation.tokens THEN "REVOKED" ELSE token[b][g]]
    BY DEF RevokeAuthorizations
  <2>3. token'[b] \in TokenRow
    BY <2>1, <2>2 DEF TokenRow, TokenStatus
  <2>4. \A g \in Generation : <<b, g>> \in revocation.tokens =>
           b \in revocation.sessions /\ session[b].state # "none"
    BY <1>1 DEF RevocationSeesSessions
  <2>5. CASE session[b].state = "live" /\ b \notin revocation.sessions
    <3>1. session'[b] = session[b]
      BY <2>2, <2>5
    <3>2. \A g \in Generation : token'[b][g] = token[b][g]
      BY <2>2, <2>4, <2>5
    <3>3. /\ auth[b].status = "CONSUMED" /\ session[b].generation \in Generation
      BY <2>1, <2>5 DEF Agree, SessionRow
    <3>4. Disowned(auth[b]).status = "CONSUMED" /\ ~Disowned(auth[b]).bundle
      BY <2>1, <3>3, DisownedShape
    <3>5. Agree(Disowned(auth[b]), session[b], token'[b], client[b], b \in superseded)
      BY <2>1, <3>2, <3>3, <3>4 DEF Agree
    <3> QED
      BY <2>1, <2>2, <2>3, <3>1, <3>5, DisownedShape
  <2>6. CASE session[b].state # "live" \/ b \in revocation.sessions
    <3>1. /\ session'[b] \in SessionRow /\ session'[b].state # "live"
          /\ session'[b].state = "none" <=> session[b].state = "none"
          /\ session'[b].generation = session[b].generation
      BY <2>1, <2>2, <2>6, RevokedShape
    <3>2. CASE session[b].state = "none"
      <4>1. \A g \in Generation : token'[b][g] = token[b][g]
        BY <2>2, <2>4, <3>2
      <4>2. Agree(Disowned(auth[b]), session'[b], token'[b], client[b], b \in superseded)
        BY <2>1, <3>1, <3>2, <4>1, DisownedShape DEF Agree
      <4> QED
        BY <2>1, <2>2, <2>3, <3>1, <4>2, DisownedShape
    <3>3. CASE session[b].state # "none"
      <4>1. \A g \in Generation : token'[b][g] = "ACTIVE" => token[b][g] = "ACTIVE"
        BY <2>2
      <4>2. auth[b].status = "CONSUMED"
        BY <2>1, <3>3 DEF Agree
      <4>3. Disowned(auth[b]).status = "CONSUMED" /\ ~Disowned(auth[b]).bundle
        BY <2>1, <4>2, DisownedShape
      <4>4. Agree(Disowned(auth[b]), session'[b], token'[b], client[b], b \in superseded)
        BY <2>1, <3>1, <3>3, <4>1, <4>3 DEF Agree
      <4> QED
        BY <2>1, <2>2, <2>3, <3>1, <4>4, DisownedShape
    <3> QED
      BY <3>2, <3>3
  <2> QED
    BY <2>1, <2>5, <2>6
<1>3. /\ auth' \in [Auth -> AuthRow] /\ session' \in [Auth -> SessionRow]
      /\ token' \in [Auth -> TokenRow]
  BY <1>2 DEF RevokeAuthorizations
<1>4. revocation' \in Revocation /\ RevocationSeesSessions'
  BY <1>1 DEF NoRevocation, Revocation, RevocationSeesSessions
<1>5. superseded' \in SUBSET Auth
  BY <1>1 DEF TypeOK
<1> QED
  BY <1>1, <1>2, <1>3, <1>4, <1>5, EveryRow

LEMMA ChangeStandingStep == ASSUME DInv, ChangeStanding PROVE DInv'
BY DEF DInv, TypeOK, RowsAgree, RevocationSeesSessions, ChangeStanding

-----------------------------------------------------------------------------
LEMMA Steps == DInv /\ [Next]_vars => DInv'
<1> SUFFICES ASSUME DInv, [Next]_vars PROVE DInv'
  OBVIOUS
<1>1. ASSUME NEW d \in Device, Start(d) \/ IssueHandoff(d) PROVE DInv'
  BY <1>1, StartStep, IssueHandoffStep
<1>2. ASSUME NEW a \in Auth, Approve(a) \/ Poll(a) \/ Cancel(a) PROVE DInv'
  BY <1>2, ApproveStep, PollExpiresStep, PollAgainStep, PollDeniesStep, PollConsumesStep,
     CancelStep DEF Poll
<1>3. ASSUME NEW a \in Auth, AuthFallsDue(a) \/ HandoffFallsDue(a) \/ SessionFallsDue(a)
      PROVE  DInv'
  BY <1>3, AuthFallsDueStep, HandoffFallsDueStep, SessionFallsDueStep
<1>4. ASSUME NEW a \in Auth, NEW g \in Generation,
             \/ Refresh(a, g) \/ AuthenticateRefused(a, g) \/ Acknowledge(a, g)
             \/ SignOut(a, g) \/ ChangePasswordByAgent(a, g)
      PROVE  DInv'
  BY <1>4, RefreshRefusedStep, RefreshRotatesStep, AuthenticateRefusedStep,
     AcknowledgeStep, SignOutStep, ChangePasswordStep DEF Refresh
<1>5. CASE ChangeCredential \/ ChangeStanding
  BY <1>5, ChangeCredentialStep, ChangeStandingStep
<1>6. CASE RevokeTokens \/ RevokeSessions \/ RevokeAuthorizations
  BY <1>6, RevokeTokensStep, RevokeSessionsStep, RevokeAuthorizationsStep
<1>7. CASE UNCHANGED vars
  BY <1>7 DEF vars, DInv, TypeOK, RowsAgree, RevocationSeesSessions
<1> QED
  BY <1>1, <1>2, <1>3, <1>4, <1>5, <1>6, <1>7 DEF Next

-----------------------------------------------------------------------------
(* The refinement of GrantedSessions                                       *)

(* The phase of an authorization, by its rows.                             *)
PhaseMap ==
    \A a \in Auth :
        /\ auth[a].status = "absent" => phase[a] = "none"
        /\ auth[a].status = "PENDING" => phase[a] = "asked"
        /\ auth[a].status = "APPROVED" => phase[a] = "granted"
        /\ auth[a].status \in {"DENIED", "EXPIRED"} => phase[a] = "closed"
        /\ auth[a].status = "CONSUMED" /\ session[a].state = "live" => phase[a] = "live"
        /\ auth[a].status = "CONSUMED" /\ session[a].state # "live" => phase[a] = "closed"

LEMMA Phases == PhaseMap /\ PhaseMap'
<1>1. PhaseMap BY DEF PhaseMap, phase, PhaseOf
<1>2. PhaseMap' BY DEF PhaseMap, phase, PhaseOf
<1> QED BY <1>1, <1>2

(* Of a live session the token of its generation works, and no other.      *)
KeyMap ==
    \A a \in Auth :
        /\ phase[a] = "live" => keys[a] = {session[a].generation}
        /\ phase[a] # "live" => keys[a] = {}

LEMMA Keys ==
    ASSUME DInv, DInv'
    PROVE  KeyMap /\ KeyMap'
<1>1. ASSUME NEW a \in Auth
      PROVE  /\ phase[a] = "live" => keys[a] = {session[a].generation}
             /\ phase[a] # "live" => keys[a] = {}
  <2>1. /\ session[a].generation \in Generation
        /\ Agree(auth[a], session[a], token[a], client[a], a \in superseded)
        /\ auth[a].status \in Status \cup {"absent"}
    BY Agreeing DEF SessionRow, AuthRow
  <2>2. phase[a] = "live" <=> session[a].state = "live"
    BY <2>1, Phases DEF PhaseMap, Status, Agree
  <2> QED BY <2>1, <2>2 DEF keys, Agree
<1>2. ASSUME NEW a \in Auth
      PROVE  /\ phase'[a] = "live" => keys'[a] = {session'[a].generation}
             /\ phase'[a] # "live" => keys'[a] = {}
  <2>0. TypeOK' /\ RowsAgree' BY DEF DInv
  <2>1. /\ session'[a].generation \in Generation
        /\ Agree(auth'[a], session'[a], token'[a], client'[a], a \in superseded')
        /\ auth'[a].status \in Status \cup {"absent"}
    BY <2>0 DEF TypeOK, RowsAgree, SessionRow, AuthRow
  <2>2. phase'[a] = "live" <=> session'[a].state = "live"
    BY <2>1, Phases DEF PhaseMap, Status, Agree
  <2> QED BY <2>1, <2>2 DEF keys, Agree
<1> QED BY <1>1, <1>2 DEF KeyMap

LEMMA MapFunctions ==
    /\ phase = [a \in Auth |-> phase[a]] /\ phase' = [a \in Auth |-> phase'[a]]
    /\ keys = [a \in Auth |-> keys[a]] /\ keys' = [a \in Auth |-> keys'[a]]
BY DEF phase, keys

(* The rows of a say the same.                                             *)
Same(a) ==
    /\ auth'[a].status = auth[a].status
    /\ session'[a].state = session[a].state
    /\ session'[a].generation = session[a].generation

LEMMA SameMaps ==
    ASSUME DInv, DInv', NEW a \in Auth, Same(a)
    PROVE  phase'[a] = phase[a] /\ keys'[a] = keys[a]
<1>1. phase'[a] = phase[a]
  <2>1. auth[a].status \in Status \cup {"absent"} BY Agreeing DEF AuthRow
  <2> QED BY <2>1, Phases DEF PhaseMap, Same, Status
<1>2. phase[a] = "live" => keys'[a] = keys[a]
  BY <1>1, Keys DEF KeyMap, Same
<1>3. phase[a] # "live" => keys'[a] = keys[a]
  BY <1>1, Keys DEF KeyMap
<1> QED BY <1>1, <1>2, <1>3

(* A step after which all rows say the same is none.                       *)
LEMMA AllSame ==
    ASSUME DInv, DInv', \A a \in Auth : Same(a), UNCHANGED <<client, superseded>>
    PROVE  UNCHANGED Sessions!vars
<1>1. \A a \in Auth : phase'[a] = phase[a] /\ keys'[a] = keys[a]
  BY SameMaps
<1>2. phase' = phase /\ keys' = keys
  BY <1>1, MapFunctions
<1> QED BY <1>2 DEF Sessions!vars

(* Steps that close what was asked, granted or live.                       *)
LEMMA Closes ==
    ASSUME DInv, DInv', UNCHANGED <<client, superseded>>,
           \A a \in Auth :
              \/ Same(a)
              \/ phase[a] \in {"asked", "granted", "live"} /\ phase'[a] = "closed"
    PROVE  Sessions!Next
<1> DEFINE A == {a \in Auth : phase'[a] # phase[a]}
<1>1. \A a \in A : phase[a] \in {"asked", "granted", "live"} /\ phase'[a] = "closed"
  BY SameMaps
<1>2. \A a \in A : keys'[a] = {}
  BY <1>1, Keys DEF KeyMap
<1>3. \A a \in Auth : a \notin A => keys'[a] = keys[a]
  BY SameMaps
<1>4. phase' = [a \in Auth |-> IF a \in A THEN "closed" ELSE phase[a]]
  BY <1>1, MapFunctions
<1>5. keys' = [a \in Auth |-> IF a \in A THEN {} ELSE keys[a]]
  BY <1>2, <1>3, MapFunctions
<1>6. A \in SUBSET Auth OBVIOUS
<1> HIDE DEF A
<1>7. Sessions!Closing(A)
  BY <1>4, <1>5 DEF Sessions!Closing
<1>8. Sessions!Close(A)
  BY <1>1, <1>7 DEF Sessions!Close
<1> QED BY <1>6, <1>8 DEF Sessions!Next

(* An authorization that comes to a final status.                          *)
LEMMA EndsOne ==
    ASSUME DInv, DInv', NEW a \in Auth, NEW x,
           auth' = [auth EXCEPT ![a] = x], x.status \in {"DENIED", "EXPIRED"},
           auth[a].status \in {"PENDING", "APPROVED"},
           UNCHANGED <<session, client, superseded>>
    PROVE  Sessions!Next
<1>1. auth'[a] = x /\ \A b \in Auth : b # a => auth'[b] = auth[b]
  BY DEF DInv, TypeOK
<1>2. phase[a] \in {"asked", "granted"} /\ phase'[a] = "closed"
  BY <1>1, Phases DEF PhaseMap
<1>3. \A b \in Auth : b # a => Same(b) BY <1>1 DEF Same
<1> QED BY <1>2, <1>3, Closes

LEMMA PollExpiresEnds ==
    ASSUME DInv, DInv', NEW a \in Auth, PollExpires(a) PROVE Sessions!Next
<1> DEFINE x == [auth[a] EXCEPT !.status = "EXPIRED", !.bundle = FALSE]
<1>1. auth' = [auth EXCEPT ![a] = x] BY DEF PollExpires
<1>2. x.status = "EXPIRED" BY Agreeing DEF AuthRow
<1> HIDE DEF x
<1> QED BY <1>1, <1>2, EndsOne DEF PollExpires, Rest

LEMMA PollDeniesEnds ==
    ASSUME DInv, DInv', NEW a \in Auth, PollDenies(a) PROVE Sessions!Next
<1> DEFINE x == [auth[a] EXCEPT !.status = "DENIED"]
<1>1. auth' = [auth EXCEPT ![a] = x] BY DEF PollDenies
<1>2. x.status = "DENIED" BY Agreeing DEF AuthRow
<1> HIDE DEF x
<1> QED BY <1>1, <1>2, EndsOne DEF PollDenies, Rest

LEMMA CancelEnds ==
    ASSUME DInv, DInv', NEW a \in Auth, Cancel(a) PROVE Sessions!Next
<1> DEFINE x == [auth[a] EXCEPT !.status = "DENIED", !.bundle = FALSE]
<1>1. auth' = [auth EXCEPT ![a] = x] BY DEF Cancel
<1>2. x.status = "DENIED" BY Agreeing DEF AuthRow
<1> HIDE DEF x
<1> QED BY <1>1, <1>2, EndsOne DEF Cancel, Cancellable, Rest

(* A grant changes the phase of its authorization only.                    *)
LEMMA GrantsOne ==
    ASSUME DInv, DInv', NEW a \in Auth, NEW x,
           auth' = [auth EXCEPT ![a] = x], x.status = "APPROVED",
           auth[a].status \in {"absent", "PENDING"},
           UNCHANGED <<session, client, superseded>>
    PROVE  Sessions!Next
<1>1. auth'[a] = x /\ \A b \in Auth : b # a => auth'[b] = auth[b]
  BY DEF DInv, TypeOK
<1>2. phase[a] \in {"none", "asked"} /\ phase'[a] = "granted"
  BY <1>1, Phases DEF PhaseMap
<1>3. \A b \in Auth : b # a => phase'[b] = phase[b] /\ keys'[b] = keys[b]
  BY <1>1, SameMaps DEF Same
<1>4. keys'[a] = keys[a] BY <1>2, Keys DEF KeyMap
<1>5. phase' = [phase EXCEPT ![a] = "granted"] /\ keys' = keys
  BY <1>2, <1>3, <1>4, MapFunctions
<1>6. Sessions!Grant(a) BY <1>2, <1>5 DEF Sessions!Grant
<1> QED BY <1>6 DEF Sessions!Next

LEMMA IssueHandoffGrants ==
    ASSUME DInv, DInv', NEW d \in Device, IssueHandoff(d) PROVE Sessions!Next
<1> DEFINE x == [NoAuth EXCEPT !.status = "APPROVED", !.device = d]
<1>1. PICK a \in Auth : Created(a) /\ auth' = [auth EXCEPT ![a] = x] BY DEF IssueHandoff
<1>2. x.status = "APPROVED" BY DEF NoAuth
<1> HIDE DEF x
<1> QED BY <1>1, <1>2, GrantsOne DEF IssueHandoff, Created, Rest

LEMMA ApproveGrants ==
    ASSUME DInv, DInv', NEW a \in Auth, Approve(a) PROVE Sessions!Next
<1>1. auth[a] \in AuthRow BY Agreeing
<1>2. CASE auth' = [auth EXCEPT ![a].status = "EXPIRED"]
  <2> DEFINE x == [auth[a] EXCEPT !.status = "EXPIRED"]
  <2>1. auth' = [auth EXCEPT ![a] = x] /\ x.status = "EXPIRED" BY <1>1, <1>2 DEF AuthRow
  <2> HIDE DEF x
  <2> QED BY <2>1, EndsOne DEF Approve, Rest
<1>3. CASE auth' = [auth EXCEPT ![a].status = "APPROVED"]
  <2> DEFINE x == [auth[a] EXCEPT !.status = "APPROVED"]
  <2>1. auth' = [auth EXCEPT ![a] = x] /\ x.status = "APPROVED" BY <1>1, <1>3 DEF AuthRow
  <2> HIDE DEF x
  <2> QED BY <2>1, GrantsOne DEF Approve, Rest
<1> QED BY <1>2, <1>3 DEF Approve

(* A new request closes what its device had asked for.                     *)
LEMMA StartAsks ==
    ASSUME DInv, DInv', NEW d \in Device, Start(d) PROVE Sessions!Next
<1>1. PICK a \in Auth :
        /\ Created(a)
        /\ auth' = [b \in Auth |->
              IF b = a THEN [NoAuth EXCEPT !.status = "PENDING", !.device = d]
              ELSE IF auth[b].device = d /\ auth[b].status = "PENDING"
              THEN [auth[b] EXCEPT !.status = "EXPIRED"] ELSE auth[b]]
  BY DEF Start
<1>2. UNCHANGED <<session, client, superseded>> BY DEF Start, Rest
<1> DEFINE A == {b \in Auth : b # a /\ auth[b].device = d /\ auth[b].status = "PENDING"}
<1>3. auth[a].status = "absent" /\ auth'[a].status = "PENDING"
  BY <1>1 DEF Created, NoAuth
<1>4. ASSUME NEW b \in A PROVE auth[b].status = "PENDING" /\ auth'[b].status = "EXPIRED"
  <2>1. auth[b] \in AuthRow /\ auth'[b] = [auth[b] EXCEPT !.status = "EXPIRED"]
    BY <1>1, Agreeing
  <2> QED BY <2>1 DEF AuthRow
<1>5. \A b \in Auth : b # a /\ b \notin A => auth'[b] = auth[b] BY <1>1
<1> HIDE DEF A
<1>6. A \subseteq Auth /\ a \notin A BY DEF A
<1>7. phase[a] = "none" /\ phase'[a] = "asked" BY <1>3, Phases DEF PhaseMap
<1>8. \A b \in A : phase[b] = "asked" /\ phase'[b] = "closed"
  BY <1>4, <1>6, Phases DEF PhaseMap
<1>9. \A b \in Auth : b # a /\ b \notin A => phase'[b] = phase[b] /\ keys'[b] = keys[b]
  BY <1>2, <1>5, SameMaps DEF Same
<1>10. keys' = keys
  <2>1. \A b \in Auth : keys'[b] = keys[b] BY <1>6, <1>7, <1>8, <1>9, Keys DEF KeyMap
  <2> QED BY <2>1, MapFunctions
<1>11. phase' = [b \in Auth |-> IF b = a THEN "asked"
                                ELSE IF b \in A THEN "closed" ELSE phase[b]]
  BY <1>7, <1>8, <1>9, MapFunctions
<1>12. A \in SUBSET {b \in Auth : phase[b] = "asked"} BY <1>6, <1>8
<1>13. Sessions!Ask(a) BY <1>2, <1>7, <1>10, <1>11, <1>12 DEF Sessions!Ask
<1> QED BY <1>13 DEF Sessions!Next

(* The client is told a key, or the answer is lost.                        *)
LEMMA Replies ==
    ASSUME DInv, NEW a \in Auth, NEW n \in Generation, Answer(a, n) \/ Lose(a)
    PROVE  Sessions!Reply(a, n)
<1>1. client \in [Auth -> Client] /\ client[a] \in Client BY DEF DInv, TypeOK
<1> DEFINE known == [b \in Auth |-> client[b].newest]
           lost == {b \in Auth : client[b].lost}
<1>2. CASE Answer(a, n)
  <2> DEFINE c == [client[a] EXCEPT !.newest = n]
  <2>1. client' = [client EXCEPT ![a] = c] BY <1>2 DEF Answer
  <2>2. c.newest = n /\ c.lost = client[a].lost BY <1>1, ClientShape
  <2> HIDE DEF c
  <2>3. client'[a] = c /\ \A b \in Auth : b # a => client'[b] = client[b] BY <1>1, <2>1
  <2>4. [b \in Auth |-> client'[b].newest] = [known EXCEPT ![a] = n] BY <2>2, <2>3
  <2>5. {b \in Auth : client'[b].lost} = lost BY <2>2, <2>3
  <2> QED BY <2>4, <2>5 DEF Sessions!Reply
<1>3. CASE Lose(a)
  <2> DEFINE c == [client[a] EXCEPT !.lost = TRUE]
  <2>1. client' = [client EXCEPT ![a] = c] BY <1>3 DEF Lose
  <2>2. c.newest = client[a].newest /\ c.lost BY <1>1, ClientShape
  <2> HIDE DEF c
  <2>3. client'[a] = c /\ \A b \in Auth : b # a => client'[b] = client[b] BY <1>1, <2>1
  <2>4. [b \in Auth |-> client'[b].newest] = known BY <2>2, <2>3
  <2>5. {b \in Auth : client'[b].lost} = lost \cup {a} BY <2>2, <2>3
  <2> QED BY <2>4, <2>5 DEF Sessions!Reply
<1> QED BY <1>2, <1>3

(* The consuming poll opens the session of its grant.                      *)
LEMMA PollOpens ==
    ASSUME DInv, DInv', NEW a \in Auth, PollConsumes(a) PROVE Sessions!Next
<1>1. TypeOK /\ auth[a] \in AuthRow BY Agreeing DEF DInv
<1>2. auth'[a].status = "CONSUMED"
  BY <1>1 DEF PollConsumes, TypeOK, AuthRow
<1>3. session'[a].state = "live" /\ session'[a].generation = 0
  BY <1>1 DEF PollConsumes, TypeOK, NoSession
<1>4. \A b \in Auth : b # a => auth'[b] = auth[b] /\ session'[b] = session[b]
  BY <1>1 DEF PollConsumes, TypeOK
<1>5. phase[a] = "granted" /\ phase'[a] = "live"
  BY <1>2, <1>3, Phases DEF PhaseMap, PollConsumes
<1>6. keys'[a] = {0} BY <1>3, <1>5, Keys DEF KeyMap
<1>7. \A b \in Auth : b # a => phase'[b] = phase[b] /\ keys'[b] = keys[b]
  BY <1>4, SameMaps DEF Same
<1>8. phase' = [phase EXCEPT ![a] = "live"] /\ keys' = [keys EXCEPT ![a] = {0}]
  BY <1>5, <1>6, <1>7, MapFunctions
<1>9. Sessions!Reply(a, 0) BY Replies, Zero DEF PollConsumes
<1>10. Sessions!Open(a)
  BY <1>5, <1>8, <1>9 DEF Sessions!Open, PollConsumes, Rest
<1> QED BY <1>10 DEF Sessions!Next

(* A repeated poll tells the first key of a session that has it still.     *)
LEMMA PollRepeats ==
    ASSUME DInv, DInv', NEW a \in Auth, PollAgain(a)
    PROVE  [Sessions!Next]_(Sessions!vars)
<1>1. /\ TypeOK /\ auth[a] \in AuthRow
      /\ Agree(auth[a], session[a], token[a], client[a], a \in superseded)
  BY Agreeing DEF DInv
<1>2. UNCHANGED <<session, superseded>> BY DEF PollAgain, Rest
<1>3. \A b \in Auth : Same(b)
  BY <1>1, <1>2 DEF PollAgain, TypeOK, AuthRow, Same
<1>4. CASE auth[a].handoff = "open" /\ (Answer(a, 0) \/ Lose(a))
  <2>1. session[a].state = "live" /\ session[a].generation = 0
    BY <1>1, <1>4 DEF Agree, PollAgain
  <2>2. phase[a] = "live" /\ keys[a] = {0}
    BY <2>1, Phases, Keys DEF PhaseMap, KeyMap, PollAgain
  <2>3. UNCHANGED <<phase, keys>> BY <1>3, SameMaps, MapFunctions
  <2>4. Sessions!Reply(a, 0) BY <1>4, Replies, Zero
  <2>5. Sessions!Repeat(a) BY <1>2, <2>2, <2>3, <2>4 DEF Sessions!Repeat
  <2> QED BY <2>5 DEF Sessions!Next
<1>5. CASE UNCHANGED client BY <1>2, <1>3, <1>5, AllSame
<1> QED BY <1>4, <1>5 DEF PollAgain

(* A rotation exchanges the key that the client was told.                  *)
LEMMA RefreshExchanges ==
    ASSUME DInv, DInv', NEW a \in Auth, NEW g \in Generation, RefreshRotates(a, g)
    PROVE  Sessions!Next
<1>1. /\ TypeOK /\ auth[a] \in AuthRow /\ session[a] \in SessionRow /\ client[a] \in Client
      /\ Agree(auth[a], session[a], token[a], client[a], a \in superseded)
  BY Agreeing DEF DInv
<1>2. session[a].state = "live" /\ g = session[a].generation /\ auth[a].status = "CONSUMED"
  <2>1. token[a][g] = "ACTIVE" /\ session[a].state # "revoked"
    BY DEF RefreshRotates, Refreshable
  <2>2. session[a].state # "none" /\ g = session[a].generation
    BY <1>1, <2>1 DEF Agree
  <2> QED BY <1>1, <2>1, <2>2 DEF SessionRow, Agree
<1>3. client[a].newest = session[a].generation /\ session[a].generation + 1 \in Generation
  BY <1>1, <1>2, DeviceAssumption
  DEF RefreshRotates, Holds, Agree, Client, SessionRow, Generation
<1>a. PICK n \in Generation : n = session[a].generation + 1
  BY <1>3
<1>4. auth'[a].status = "CONSUMED"
  BY <1>1, <1>2, HandoffOverShape DEF RefreshRotates, EndsHandoff, TypeOK
<1>5. session'[a].state = "live" /\ session'[a].generation = n
  BY <1>1, <1>2, <1>a DEF RefreshRotates, TypeOK, SessionRow
<1>6. \A b \in Auth : b # a => auth'[b] = auth[b] /\ session'[b] = session[b]
  BY <1>1 DEF RefreshRotates, EndsHandoff, TypeOK
<1>7. phase[a] = "live" /\ phase'[a] = "live"
  BY <1>2, <1>4, <1>5, Phases DEF PhaseMap
<1>8. keys[a] = {client[a].newest} /\ keys'[a] = {n}
  BY <1>3, <1>5, <1>7, Keys DEF KeyMap
<1>9. \A b \in Auth : b # a => phase'[b] = phase[b] /\ keys'[b] = keys[b]
  BY <1>6, SameMaps DEF Same
<1>10. phase' = phase /\ keys' = [keys EXCEPT ![a] = {n}]
  BY <1>7, <1>8, <1>9, MapFunctions
<1>11. n = client[a].newest + 1 BY <1>3, <1>a
<1>12. Sessions!Reply(a, n)
  <2>1. Answer(a, n) \/ Lose(a) BY <1>a DEF RefreshRotates, Answer
  <2> QED BY <2>1, Replies
<1>13. Sessions!Rotate(a)
  BY <1>7, <1>8, <1>10, <1>11, <1>12
  DEF Sessions!Rotate, Sessions!Reply, RefreshRotates, Rest
<1> QED BY <1>13 DEF Sessions!Next

(* A family that is revoked is closed, or was.                             *)
LEMMA FamilyCloses ==
    ASSUME DInv, DInv', NEW a \in Auth, session[a].state # "none", RevokeFamily(a)
    PROVE  Sessions!Next
<1>1. /\ TypeOK /\ auth[a] \in AuthRow /\ session[a] \in SessionRow
      /\ Agree(auth[a], session[a], token[a], client[a], a \in superseded)
  BY Agreeing DEF DInv
<1>2. auth[a].status = "CONSUMED" /\ auth'[a].status = "CONSUMED"
  BY <1>1, HandoffOverShape DEF RevokeFamily, TypeOK, Agree
<1>3. session'[a].state = "revoked" /\ session'[a].generation = session[a].generation
  BY <1>1 DEF RevokeFamily, TypeOK, SessionRow
<1>4. \A b \in Auth : b # a => Same(b)
  BY <1>1 DEF RevokeFamily, TypeOK, Same
<1>5. phase'[a] = "closed" BY <1>2, <1>3, Phases DEF PhaseMap
<1>6. CASE session[a].state = "live"
  <2>1. phase[a] = "live" BY <1>2, <1>6, Phases DEF PhaseMap
  <2> QED BY <1>4, <1>5, <2>1, Closes DEF RevokeFamily, Rest
<1>7. CASE session[a].state # "live"
  <2>1. Same(a) BY <1>1, <1>2, <1>3, <1>7 DEF Same, SessionRow
  <2> QED BY <1>4, <2>1, Closes DEF RevokeFamily, Rest
<1> QED BY <1>6, <1>7

(* What the user-wide operations do to the row of an authorization.        *)
LEMMA DisownedStatus ==
    ASSUME NEW x \in AuthRow
    PROVE  Disowned(x).status = IF x.status = "APPROVED" THEN "DENIED" ELSE x.status
<1>1. HandoffOver(x) \in AuthRow /\ HandoffOver(x).status = x.status BY HandoffOverShape
<1>2. [HandoffOver(x) EXCEPT !.status = "DENIED"].status = "DENIED" BY <1>1 DEF AuthRow
<1> QED BY <1>1, <1>2 DEF Disowned

LEMMA RevokedState ==
    ASSUME NEW s \in SessionRow
    PROVE  /\ Revoked(s).state = IF s.state = "none" THEN "none" ELSE "revoked"
           /\ Revoked(s).generation = s.generation
           /\ Aged(s) \in SessionRow
           /\ Aged(s).state = s.state /\ Aged(s).generation = s.generation
BY DEF Revoked, Aged, SessionRow

(* The change of the password closes all that was granted.                 *)
LEMMA PasswordSupersedes ==
    ASSUME DInv, DInv', NEW a \in Auth, NEW g \in Generation, ChangePasswordByAgent(a, g)
    PROVE  Sessions!Next
<1> DEFINE A == {b \in Auth : phase[b] \in {"granted", "live"}}
           old == {b \in Auth : auth[b].status = "CONSUMED" /\ session[b].state # "live"}
<1>1. ASSUME NEW b \in Auth
      PROVE  /\ b \in A => phase'[b] = "closed"
             /\ b \notin A => Same(b)
             /\ b \in A \/ b \in old <=> auth[b].status \in {"APPROVED", "CONSUMED"}
  <2>1. /\ auth[b] \in AuthRow /\ session[b] \in SessionRow
        /\ Agree(auth[b], session[b], token[b], client[b], b \in superseded)
    BY Agreeing
  <2>2. /\ auth'[b].status = IF auth[b].status = "APPROVED" THEN "DENIED" ELSE auth[b].status
        /\ session'[b].state = IF session[b].state = "none" THEN "none" ELSE "revoked"
        /\ session'[b].generation = session[b].generation
    BY <2>1, DisownedStatus, RevokedState DEF ChangePasswordByAgent
  <2>3. CASE auth[b].status = "APPROVED"
    BY <2>2, <2>3, Phases DEF PhaseMap
  <2>4. CASE auth[b].status = "CONSUMED" /\ session[b].state = "live"
    BY <2>2, <2>4, Phases DEF PhaseMap
  <2>5. CASE auth[b].status = "CONSUMED" /\ session[b].state # "live"
    <3>1. session[b].state = "revoked" BY <2>1, <2>5 DEF Agree, SessionRow
    <3> QED BY <2>2, <2>5, <3>1, Phases DEF PhaseMap, Same
  <2>6. CASE auth[b].status \in {"absent", "PENDING", "DENIED", "EXPIRED"}
    <3>1. session[b].state = "none" BY <2>1, <2>6 DEF Agree
    <3>2. phase[b] \in {"none", "asked", "closed"} BY <2>6, Phases DEF PhaseMap
    <3> QED BY <2>2, <2>6, <3>1, <3>2 DEF Same
  <2> QED BY <2>1, <2>3, <2>4, <2>5, <2>6 DEF AuthRow, Status
<1>2. old \in SUBSET {b \in Auth : phase[b] = "closed"} BY Phases DEF PhaseMap
<1>3. superseded' = superseded \cup {b \in Auth : auth[b].status \in {"APPROVED", "CONSUMED"}}
  BY DEF ChangePasswordByAgent
<1>4. superseded' = superseded \cup A \cup old BY <1>1, <1>3
<1>5. Sessions!Closing(A)
  <2> HIDE DEF A
  <2>1. A \subseteq Auth BY DEF A
  <2>2. \A b \in Auth : b \notin A => phase'[b] = phase[b] /\ keys'[b] = keys[b]
    BY <1>1, SameMaps
  <2>3. \A b \in A : phase'[b] = "closed" /\ keys'[b] = {}
    BY <1>1, <2>1, Keys DEF KeyMap
  <2>4. phase' = [b \in Auth |-> IF b \in A THEN "closed" ELSE phase[b]]
    BY <2>2, <2>3, MapFunctions
  <2>5. keys' = [b \in Auth |-> IF b \in A THEN {} ELSE keys[b]]
    BY <2>2, <2>3, MapFunctions
  <2> QED BY <2>4, <2>5 DEF Sessions!Closing, ChangePasswordByAgent
<1>6. Sessions!Supersede BY <1>2, <1>4, <1>5 DEF Sessions!Supersede
<1> QED BY <1>6 DEF Sessions!Next

(* The three statements close, at their commit, the sessions they locked   *)
(* and what was approved.                                                  *)
LEMMA RevocationCloses ==
    ASSUME DInv, DInv', RevokeAuthorizations PROVE Sessions!Next
<1>1. UNCHANGED <<client, superseded>> BY DEF RevokeAuthorizations
<1>2. ASSUME NEW b \in Auth
      PROVE  \/ Same(b)
             \/ phase[b] \in {"asked", "granted", "live"} /\ phase'[b] = "closed"
  <2>1. /\ auth[b] \in AuthRow /\ session[b] \in SessionRow
        /\ Agree(auth[b], session[b], token[b], client[b], b \in superseded)
    BY Agreeing
  <2>2. /\ auth'[b].status = IF auth[b].status = "APPROVED" THEN "DENIED" ELSE auth[b].status
        /\ session'[b].generation = session[b].generation
        /\ \/ session'[b].state = session[b].state
           \/ session'[b].state = IF session[b].state = "none" THEN "none" ELSE "revoked"
    BY <2>1, DisownedStatus, RevokedState DEF RevokeAuthorizations
  <2>3. CASE auth[b].status = "APPROVED"
    BY <2>2, <2>3, Phases DEF PhaseMap
  <2>4. CASE auth[b].status = "CONSUMED" /\ session[b].state = "live"
    BY <2>2, <2>4, Phases DEF PhaseMap, Same
  <2>5. CASE auth[b].status = "CONSUMED" /\ session[b].state # "live"
    <3>1. session[b].state = "revoked" BY <2>1, <2>5 DEF Agree, SessionRow
    <3> QED BY <2>2, <2>5, <3>1 DEF Same
  <2>6. CASE auth[b].status \in {"absent", "PENDING", "DENIED", "EXPIRED"}
    <3>1. session[b].state = "none" BY <2>1, <2>6 DEF Agree
    <3> QED BY <2>2, <2>6, <3>1 DEF Same
  <2> QED BY <2>1, <2>3, <2>4, <2>5, <2>6 DEF AuthRow, Status
<1> QED BY <1>1, <1>2, Closes

(* Steps that move nothing of an authorization's life.                     *)
LEMMA QuietSessions ==
    ASSUME DInv, DInv',
           \/ \E a \in Auth : \/ AuthFallsDue(a) \/ HandoffFallsDue(a) \/ SessionFallsDue(a)
                             \/ \E g \in Generation : Acknowledge(a, g)
           \/ ChangeCredential \/ ChangeStanding \/ RevokeTokens \/ RevokeSessions
           \/ UNCHANGED vars
    PROVE  UNCHANGED Sessions!vars
<1>1. TypeOK BY DEF DInv
<1>2. \A a \in Auth : auth[a] \in AuthRow /\ session[a] \in SessionRow BY Agreeing
<1>3. ASSUME NEW a \in Auth, AuthFallsDue(a) \/ HandoffFallsDue(a) \/ SessionFallsDue(a)
      PROVE  UNCHANGED Sessions!vars
  <2>1. \A b \in Auth : Same(b)
    BY <1>1, <1>2, <1>3
    DEF AuthFallsDue, HandoffFallsDue, SessionFallsDue, TypeOK, AuthRow, SessionRow, Same
  <2> QED
    BY <1>3, <2>1, AllSame DEF AuthFallsDue, HandoffFallsDue, SessionFallsDue, Rest
<1>4. ASSUME NEW a \in Auth, NEW g \in Generation, Acknowledge(a, g)
      PROVE  UNCHANGED Sessions!vars
  <2>1. \A b \in Auth : Same(b)
    BY <1>1, <1>2, <1>4, HandoffOverShape DEF Acknowledge, EndsHandoff, TypeOK, Same
  <2> QED BY <1>4, <2>1, AllSame DEF Acknowledge, Rest
<1>5. CASE ChangeCredential
  <2>1. \A b \in Auth : session'[b] = Aged(session[b]) BY <1>5 DEF ChangeCredential
  <2>2. \A b \in Auth : Same(b)
    BY <1>2, <1>5, <2>1, RevokedState DEF ChangeCredential, Same
  <2> QED BY <1>5, <2>2, AllSame DEF ChangeCredential, Rest
<1>6. CASE ChangeStanding \/ RevokeTokens \/ RevokeSessions \/ UNCHANGED vars
  <2>1. UNCHANGED <<auth, session, client, superseded>>
    BY <1>6 DEF ChangeStanding, RevokeTokens, RevokeSessions, vars
  <2> QED BY <2>1, AllSame DEF Same
<1> QED BY <1>3, <1>4, <1>5, <1>6

(* Every step is a step of the granted sessions, or none.                  *)
LEMMA StepGrants ==
    ASSUME DInv, [Next]_vars
    PROVE  [Sessions!Next]_(Sessions!vars)
<1>1. DInv' BY Steps
<1>2. ASSUME NEW d \in Device, Start(d) \/ IssueHandoff(d) PROVE Sessions!Next
  BY <1>1, <1>2, StartAsks, IssueHandoffGrants
<1>3. ASSUME NEW a \in Auth, Approve(a) \/ Poll(a) \/ Cancel(a)
      PROVE  [Sessions!Next]_(Sessions!vars)
  BY <1>1, <1>3, ApproveGrants, PollExpiresEnds, PollDeniesEnds, PollOpens, PollRepeats,
     CancelEnds DEF Poll
<1>4. ASSUME NEW a \in Auth, NEW g \in Generation,
             Refresh(a, g) \/ AuthenticateRefused(a, g) \/ SignOut(a, g)
      PROVE  Sessions!Next
  <2>1. CASE RefreshRotates(a, g) BY <1>1, <2>1, RefreshExchanges
  <2>2. CASE ~RefreshRotates(a, g)
    <3>1. Holds(a, g) /\ RevokeFamily(a)
      BY <1>4, <2>2 DEF Refresh, RefreshRefused, AuthenticateRefused, Accepted, SignOut
    <3> QED BY <1>1, <3>1, HolderHasSession, FamilyCloses
  <2> QED BY <2>1, <2>2
<1>5. ASSUME NEW a \in Auth, NEW g \in Generation, ChangePasswordByAgent(a, g)
      PROVE  Sessions!Next
  BY <1>1, <1>5, PasswordSupersedes
<1>6. CASE RevokeAuthorizations BY <1>1, <1>6, RevocationCloses
<1> QED
  BY <1>1, <1>2, <1>3, <1>4, <1>5, <1>6, QuietSessions DEF Next

LEMMA GrantsStart == Init => Sessions!Init
<1> SUFFICES ASSUME Init PROVE Sessions!Init OBVIOUS
<1>1. \A a \in Auth : /\ auth[a].status = "absent" /\ session[a].state = "none"
                      /\ client[a].newest = -1 /\ ~client[a].lost
  BY DEF Init, NoAuth, NoSession
<1>2. phase = [a \in Auth |-> "none"] BY <1>1, Phases, MapFunctions DEF PhaseMap
<1>3. keys = [a \in Auth |-> {}] BY <1>1 DEF keys
<1> QED BY <1>1, <1>2, <1>3 DEF Sessions!Init, Init

-----------------------------------------------------------------------------
(* The rows of every authorization agree in every reachable state, for any *)
(* number of authorizations, devices and refreshes.                        *)
THEOREM Invariant == Spec => []DInv
BY InitDInv, Steps, PTL DEF Spec

(* The types of all rows, and that a session belongs to exactly the        *)
(* authorizations that a poll has consumed.                                *)
THEOREM TypesHold == Spec => []TypeOK
<1>1. DInv => TypeOK
  BY DEF DInv
<1> QED
  BY <1>1, Invariant, PTL

(* A session has at most one active refresh token, its newest, however     *)
(* rotations, replays and the statements of a user-wide revocation         *)
(* interleave (refreshAgentSession, revokeNativeAgentSessionsForUser).     *)
THEOREM ActiveTokenIsUnique == Spec => []OneActiveToken
<1>1. DInv => OneActiveToken
  <2> SUFFICES ASSUME DInv, NEW a \in Auth, NEW g \in Generation, token[a][g] = "ACTIVE"
               PROVE  session[a].state # "none" /\ g = session[a].generation
    BY DEF OneActiveToken
  <2> QED
    BY Agreeing DEF Agree
<1> QED
  BY <1>1, Invariant, PTL

(* The bundle that a repeated poll hands out still works.                  *)
THEOREM BundlesLive == Spec => []HandedOutBundleIsLive
<1>1. DInv => HandedOutBundleIsLive
  <2> SUFFICES ASSUME DInv, NEW a \in Auth, auth[a].bundle, auth[a].handoff = "open"
               PROVE  session[a].state = "live" /\ token[a][0] = "ACTIVE"
    BY DEF HandedOutBundleIsLive
  <2> QED
    BY Agreeing DEF Agree
<1> QED
  BY <1>1, Invariant, PTL

(* As long as a session lives, its client is taken for a replay only with  *)
(* a token that was rotated away, and if it received every answer it then  *)
(* holds a newer one.                                                      *)
THEOREM ReplaysAreOldTokens == Spec => []OnlyOldTokensReplay
<1>1. DInv => OnlyOldTokensReplay
  <2> SUFFICES ASSUME DInv, NEW a \in Auth, NEW g \in Generation,
                      session[a].state = "live", Holds(a, g), token[a][g] # "ACTIVE"
               PROVE  /\ token[a][g] = "ROTATED" /\ g < session[a].generation
                      /\ g < client[a].newest \/ client[a].lost
    BY DEF OnlyOldTokensReplay
  <2>1. TypeOK /\ Agree(auth[a], session[a], token[a], client[a], a \in superseded)
    BY Agreeing DEF DInv
  <2>2. /\ session[a].generation \in Nat /\ client[a].newest \in Int /\ g \in Nat
    BY <2>1, RowTypes, DeviceAssumption DEF SessionRow, Client, Generation
  <2>3. g <= client[a].newest /\ client[a].newest <= session[a].generation
    BY <2>1, <2>2 DEF Agree, Holds
  <2>4. g # session[a].generation
    BY <2>1 DEF Agree
  <2>5. g < session[a].generation
    BY <2>2, <2>3, <2>4
  <2> QED
    BY <2>1, <2>5 DEF Agree
<1> QED
  BY <1>1, Invariant, PTL

(* After the agent's password change no session of an earlier approval     *)
(* lives on or is created.                                                 *)
THEOREM ApprovalsDie == Spec => []OldApprovalsAreDead
<1>1. DInv => OldApprovalsAreDead
  <2> SUFFICES ASSUME DInv, NEW a \in superseded
               PROVE  session[a].state # "live"
    BY DEF OldApprovalsAreDead
  <2>1. a \in Auth
    BY DEF DInv, TypeOK
  <2> QED
    BY <2>1, Agreeing DEF Agree
<1> QED
  BY <1>1, Invariant, PTL

(* The authorizations, sessions and tokens implement GrantedSessions: one  *)
(* grant opens at most one session, one key works, what is closed stays    *)
(* closed, for any devices, authorizations and refreshes.                  *)
THEOREM SessionsImplemented == Spec => ImplementsSessions
<1>1. Init => Sessions!Init BY GrantsStart
<1>2. DInv /\ [Next]_vars => [Sessions!Next]_(Sessions!vars) BY StepGrants
<1> QED
  BY <1>1, <1>2, Invariant, PTL DEF Spec, ImplementsSessions, Sessions!Spec
=============================================================================
