------------------------- MODULE DeviceAuthorization -------------------------
(***************************************************************************)
(* Device authorizations, agent sessions and refresh-token rotation:       *)
(* apps/web/agent-sessions/device-authorization.ts and native-handoff.ts,  *)
(* for one user and one account.                                           *)
(*                                                                         *)
(* A poll creates at most one session per authorization, so a session is   *)
(* named by its authorization and a token pair by its generation.  The     *)
(* routes run each operation in one Serializable transaction: one action.  *)
(* Only the user-wide revocation behind the MFA routes runs at the default *)
(* isolation, statement by statement; its writes appear at its commit and  *)
(* the rows a statement has updated stay locked until then.                *)
(*                                                                         *)
(* Time is relative: a flag says that an instant of a row has passed.  The *)
(* answer of a poll or a refresh may be lost on its way to the client.     *)
(* pollIntervalSeconds and lastPollAt, which pace the client, are left out.*)
(***************************************************************************)
EXTENDS Integers

CONSTANTS
    Device,    \* deviceId of the agents that ask for authorization
    NumAuth,   \* bound: authorizations, 1..NumAuth in the order of creation
    MaxGen     \* bound: refreshes of one session

ASSUME DeviceAssumption ==
    /\ NumAuth \in Nat
    /\ MaxGen \in Nat

Auth == 1..NumAuth

Generation == 0..MaxGen

VARIABLES
    auth,        \* the AgentDeviceAuthorization rows
    session,     \* the AgentAccountSession row of each
    token,       \* the AgentAccountRefreshToken rows of each
    member,      \* the user is active and has access to the account
    revocation,  \* a user-wide revocation in progress
    client,      \* what the agent of each authorization has received
    superseded   \* history: authorizations approved before a password change

vars == <<auth, session, token, member, revocation, client, superseded>>

Status == {"PENDING", "APPROVED", "DENIED", "EXPIRED", "CONSUMED"}

(* due: expiresAt has passed.  handoff: handoffExpiresAt lies ahead or has *)
(* passed.  bundle: tokenBundleCiphertext is set.                          *)
AuthRow == [status: Status \cup {"absent"}, device: Device \cup {"none"}, due: BOOLEAN,
            handoff: {"none", "open", "over"}, bundle: BOOLEAN]

NoAuth == [status |-> "absent", device |-> "none", due |-> FALSE,
           handoff |-> "none", bundle |-> FALSE]

(* accessDue, refreshDue: accessExpiresAt, refreshExpiresAt have passed.   *)
(* stale: created before the last change of the password or of MFA.        *)
SessionRow == [state: {"none", "live", "revoked"}, generation: Generation,
               accessDue: BOOLEAN, refreshDue: BOOLEAN, stale: BOOLEAN]

NoSession == [state |-> "none", generation |-> 0,
              accessDue |-> FALSE, refreshDue |-> FALSE, stale |-> FALSE]

TokenStatus == {"none", "ACTIVE", "ROTATED", "REVOKED"}

(* The newest generation the client holds, and whether an answer to it was *)
(* ever lost.                                                              *)
Client == [newest: Generation \cup {-1}, lost: BOOLEAN]

(* tokens: rows the first statement saw; sessions: rows the second locked. *)
Revocation == [at: {"idle", "tokens", "sessions"},
               tokens: SUBSET (Auth \X Generation), sessions: SUBSET Auth]

NoRevocation == [at |-> "idle", tokens |-> {}, sessions |-> {}]

Init ==
    /\ auth = [a \in Auth |-> NoAuth]
    /\ session = [a \in Auth |-> NoSession]
    /\ token = [a \in Auth |-> [g \in Generation |-> "none"]]
    /\ member = TRUE
    /\ revocation = NoRevocation
    /\ client = [a \in Auth |-> [newest |-> -1, lost |-> FALSE]]
    /\ superseded = {}

Created(a) ==
    /\ auth[a].status = "absent"
    /\ \A b \in 1..(a - 1) : auth[b].status # "absent"

(* FOR UPDATE on a session waits for the revocation that has updated it.   *)
Free(a) == a \notin revocation.sessions

Rest == <<member, revocation, superseded>>

-----------------------------------------------------------------------------
(* startAgentDeviceAuthorization: what the device had pending expires.     *)
Start(d) ==
    /\ \E a \in Auth :
         /\ Created(a)
         /\ auth' = [b \in Auth |->
              IF b = a THEN [NoAuth EXCEPT !.status = "PENDING", !.device = d]
              ELSE IF auth[b].device = d /\ auth[b].status = "PENDING"
              THEN [auth[b] EXCEPT !.status = "EXPIRED"] ELSE auth[b]]
    /\ UNCHANGED <<session, token, client, Rest>>

(* issueNativeBkeAgentHandoff: born approved.                              *)
IssueHandoff(d) ==
    /\ member
    /\ \E a \in Auth :
         /\ Created(a)
         /\ auth' = [auth EXCEPT ![a] =
              [NoAuth EXCEPT !.status = "APPROVED", !.device = d]]
    /\ UNCHANGED <<session, token, client, Rest>>

Approve(a) ==
    /\ auth[a].status = "PENDING"
    /\ \/ auth[a].due /\ auth' = [auth EXCEPT ![a].status = "EXPIRED"]
       \/ ~auth[a].due /\ member /\ auth' = [auth EXCEPT ![a].status = "APPROVED"]
    /\ UNCHANGED <<session, token, client, Rest>>

(* The bundle of generation g travels to the client.                       *)
Answer(a, g) ==
    client' = [client EXCEPT ![a] = [@ EXCEPT !.newest = g]]

Lose(a) == client' = [client EXCEPT ![a].lost = TRUE]

(* Mutant: an authorization that nobody approved never expires.            *)
PollExpiresApproved(a) ==
    /\ auth[a].status = "APPROVED" /\ auth[a].due
    /\ auth' = [auth EXCEPT ![a] = [@ EXCEPT !.status = "EXPIRED", !.bundle = FALSE]]
    /\ UNCHANGED <<session, token, client, Rest>>

PollExpires(a) ==
    /\ auth[a].status \in {"PENDING", "APPROVED"} /\ auth[a].due
    /\ auth' = [auth EXCEPT ![a] = [@ EXCEPT !.status = "EXPIRED", !.bundle = FALSE]]
    /\ UNCHANGED <<session, token, client, Rest>>

(* Within the handoff window a repeated poll returns the same bundle.      *)
PollAgain(a) ==
    /\ auth[a].status = "CONSUMED"
    /\ auth[a].bundle
    /\ \/ /\ auth[a].handoff = "open"
          /\ Answer(a, 0) \/ Lose(a)
          /\ UNCHANGED auth
       \/ /\ auth[a].handoff # "open"
          /\ auth' = [auth EXCEPT ![a].bundle = FALSE]
          /\ UNCHANGED client
    /\ UNCHANGED <<session, token, Rest>>

PollDenies(a) ==
    /\ auth[a].status = "APPROVED" /\ ~auth[a].due
    /\ ~member
    /\ auth' = [auth EXCEPT ![a].status = "DENIED"]
    /\ UNCHANGED <<session, token, client, Rest>>

PollConsumes(a) ==
    /\ auth[a].status = "APPROVED" /\ ~auth[a].due
    /\ member
    /\ session' = [session EXCEPT ![a] = [NoSession EXCEPT !.state = "live"]]
    /\ token' = [token EXCEPT ![a][0] = "ACTIVE"]
    /\ auth' = [auth EXCEPT ![a] =
         [@ EXCEPT !.status = "CONSUMED", !.handoff = "open", !.bundle = TRUE]]
    /\ Answer(a, 0) \/ Lose(a)
    /\ UNCHANGED Rest

Poll(a) == PollExpires(a) \/ PollAgain(a) \/ PollDenies(a) \/ PollConsumes(a)

-----------------------------------------------------------------------------
RevokedTokens(tokens) ==
    [g \in Generation |-> IF tokens[g] = "none" THEN "none" ELSE "REVOKED"]

HandoffOver(row) == [row EXCEPT !.bundle = FALSE, !.handoff = "over"]

(* revokeAgentSessionFamily                                                *)
RevokeFamily(a) ==
    /\ session' = [session EXCEPT ![a].state = "revoked"]
    /\ token' = [token EXCEPT ![a] = RevokedTokens(@)]
    /\ auth' = [auth EXCEPT ![a] = HandoffOver(@)]
    /\ UNCHANGED <<client, Rest>>

(* The session may still serve: its family is revoked otherwise.           *)
Trusted(a) == ~session[a].stale /\ member

(* The client presents the refresh token of generation g, the newest it    *)
(* holds or, in a retry, an older one.                                     *)
Holds(a, g) == g \in 0..client[a].newest

Refreshable(a, g) ==
    /\ token[a][g] = "ACTIVE"
    /\ ~session[a].refreshDue
    /\ session[a].state # "revoked"
    /\ Trusted(a)

RefreshRefused(a, g) ==
    /\ Holds(a, g) /\ Free(a)
    /\ ~Refreshable(a, g)
    /\ RevokeFamily(a)

(* Mutants: the old token stays active, or the bundle stays readable.      *)
RotatedNothing(a, g) ==
    token' = [token EXCEPT ![a][session[a].generation + 1] = "ACTIVE"]

Rotated(a, g) ==
    token' = [token EXCEPT ![a][g] = "ROTATED", ![a][session[a].generation + 1] = "ACTIVE"]

KeepsHandoff(a) == UNCHANGED auth

EndsHandoff(a) == auth' = [auth EXCEPT ![a] = HandoffOver(@)]

RefreshRotates(a, g) ==
    /\ Holds(a, g) /\ Free(a)
    /\ Refreshable(a, g)
    /\ session[a].generation < MaxGen
    /\ Rotated(a, g)
    /\ session' = [session EXCEPT ![a] =
         [@ EXCEPT !.generation = session[a].generation + 1, !.accessDue = FALSE]]
    /\ EndsHandoff(a)
    /\ Answer(a, session[a].generation + 1) \/ Lose(a)
    /\ UNCHANGED Rest

Refresh(a, g) == RefreshRefused(a, g) \/ RefreshRotates(a, g)

(* The access token of generation g still names a live session.            *)
Accepted(a, g) ==
    /\ Holds(a, g) /\ Free(a)
    /\ session[a].generation = g
    /\ session[a].state = "live"
    /\ ~session[a].accessDue

(* authenticateAgentAccessToken refuses; a success only notes lastSeenAt.  *)
AuthenticateRefused(a, g) ==
    /\ Accepted(a, g)
    /\ ~Trusted(a)
    /\ RevokeFamily(a)

Acknowledge(a, g) ==
    /\ Accepted(a, g)
    /\ Trusted(a)
    /\ EndsHandoff(a)
    /\ UNCHANGED <<session, token, client, Rest>>

(* revokeAgentAccountSession: sign-out with a refresh token.               *)
SignOut(a, g) ==
    /\ Holds(a, g) /\ Free(a)
    /\ RevokeFamily(a)

(* Mutant: a cancellation takes whatever it finds.                         *)
CancellableAny(a) == auth[a].status # "absent"

Cancellable(a) == auth[a].status \in {"PENDING", "APPROVED"}

Cancel(a) ==
    /\ Cancellable(a)
    /\ auth' = [auth EXCEPT ![a] = [@ EXCEPT !.status = "DENIED", !.bundle = FALSE]]
    /\ UNCHANGED <<session, token, client, Rest>>

-----------------------------------------------------------------------------
Aged(row) == IF row.state = "none" THEN row ELSE [row EXCEPT !.stale = TRUE]

(* Mutants: the revocation leaves approvals, or the bundles, alone.        *)
DisownedKeepsApproval(row) ==
    IF row.status = "CONSUMED" THEN HandoffOver(row) ELSE row

DisownedKeepsBundle(row) ==
    IF row.status = "APPROVED" THEN [row EXCEPT !.status = "DENIED"] ELSE row

(* revokeAgentAccountSessionsForUser, of the authorizations.               *)
Disowned(row) ==
    IF row.status = "APPROVED" THEN [HandoffOver(row) EXCEPT !.status = "DENIED"]
    ELSE IF row.status = "CONSUMED" THEN HandoffOver(row) ELSE row

Revoked(row) == IF row.state = "none" THEN row ELSE [row EXCEPT !.state = "revoked"]

(* The agent's password change: the new credential and the user-wide       *)
(* revocation in one Serializable transaction.                             *)
ChangePasswordByAgent(a, g) ==
    /\ Accepted(a, g)
    /\ Trusted(a)
    /\ revocation.at # "sessions"
    /\ session' = [b \in Auth |-> Revoked(Aged(session[b]))]
    /\ token' = [b \in Auth |-> RevokedTokens(token[b])]
    /\ auth' = [b \in Auth |-> Disowned(auth[b])]
    /\ superseded' = superseded \cup
         {b \in Auth : auth[b].status \in {"APPROVED", "CONSUMED"}}
    /\ UNCHANGED <<member, revocation, client>>

(* A password changed on the web or reset, MFA enabled or disabled: agent  *)
(* sessions are only told apart by their age.                              *)
ChangeCredential ==
    /\ session' = [b \in Auth |-> Aged(session[b])]
    /\ UNCHANGED <<auth, token, client, Rest>>

(* revokeNativeAgentSessionsForUser, statement by statement.               *)
RevokeTokens ==
    /\ revocation.at = "idle"
    /\ revocation' = [at |-> "tokens", sessions |-> {},
                      tokens |-> {t \in Auth \X Generation : token[t[1]][t[2]] # "none"}]
    /\ UNCHANGED <<auth, session, token, member, client, superseded>>

RevokeSessions ==
    /\ revocation.at = "tokens"
    /\ revocation' = [revocation EXCEPT !.at = "sessions",
                      !.sessions = {a \in Auth : session[a].state # "none"}]
    /\ UNCHANGED <<auth, session, token, member, client, superseded>>

RevokeAuthorizations ==
    /\ revocation.at = "sessions"
    /\ token' = [a \in Auth |-> [g \in Generation |->
         IF <<a, g>> \in revocation.tokens THEN "REVOKED" ELSE token[a][g]]]
    /\ session' = [a \in Auth |->
         IF a \in revocation.sessions THEN Revoked(session[a]) ELSE session[a]]
    /\ auth' = [a \in Auth |-> Disowned(auth[a])]
    /\ revocation' = NoRevocation
    /\ UNCHANGED <<member, client, superseded>>

(* Membership, account or user lose and regain their standing.             *)
ChangeStanding ==
    /\ member' = ~member
    /\ UNCHANGED <<auth, session, token, revocation, client, superseded>>

-----------------------------------------------------------------------------
(* Ten minutes for the approval and its use, five for the handoff, fifteen *)
(* for an access token, thirty days for the session.                       *)
AuthFallsDue(a) ==
    /\ auth[a].status \in {"PENDING", "APPROVED"} /\ ~auth[a].due
    /\ auth' = [auth EXCEPT ![a].due = TRUE]
    /\ UNCHANGED <<session, token, client, Rest>>

HandoffFallsDue(a) ==
    /\ auth[a].handoff = "open"
    /\ auth' = [auth EXCEPT ![a].handoff = "over"]
    /\ UNCHANGED <<session, token, client, Rest>>

SessionFallsDue(a) ==
    /\ session[a].state = "live"
    /\ auth[a].handoff # "open"
    /\ \/ ~session[a].accessDue /\ session' = [session EXCEPT ![a].accessDue = TRUE]
       \/ ~session[a].refreshDue /\ session' = [session EXCEPT ![a].refreshDue = TRUE]
    /\ UNCHANGED <<auth, token, client, Rest>>

Next ==
    \/ \E d \in Device : Start(d) \/ IssueHandoff(d)
    \/ \E a \in Auth :
         \/ Approve(a) \/ Poll(a) \/ Cancel(a)
         \/ AuthFallsDue(a) \/ HandoffFallsDue(a) \/ SessionFallsDue(a)
         \/ \E g \in Generation :
              \/ Refresh(a, g) \/ AuthenticateRefused(a, g) \/ Acknowledge(a, g)
              \/ SignOut(a, g) \/ ChangePasswordByAgent(a, g)
    \/ ChangeCredential \/ ChangeStanding
    \/ RevokeTokens \/ RevokeSessions \/ RevokeAuthorizations

Spec == Init /\ [][Next]_vars

(* A device polls until it is told that the authorization is over, and     *)
(* time passes.                                                            *)
Fairness ==
    \A a \in Auth :
        /\ WF_vars(PollExpires(a) \/ PollDenies(a) \/ PollConsumes(a))
        /\ WF_vars(AuthFallsDue(a))

FairSpec == Spec /\ Fairness

-----------------------------------------------------------------------------
(* Every row stays within its type; a session belongs to exactly the       *)
(* authorizations that were consumed.                                      *)
TypeOK ==
    /\ auth \in [Auth -> AuthRow]
    /\ session \in [Auth -> SessionRow]
    /\ token \in [Auth -> [Generation -> TokenStatus]]
    /\ member \in BOOLEAN
    /\ revocation \in Revocation
    /\ client \in [Auth -> Client]
    /\ superseded \in SUBSET Auth
    /\ \A a \in Auth : auth[a].status = "CONSUMED" <=> session[a].state # "none"

(* A session has at most one active refresh token, its newest, however     *)
(* rotations, replays and revocations interleave.                          *)
OneActiveToken ==
    \A a \in Auth, g \in Generation :
        token[a][g] = "ACTIVE" =>
            /\ session[a].state # "none"
            /\ g = session[a].generation

(* The bundle a repeated poll hands out still works: its refresh token is  *)
(* the active one of a session that nobody has revoked.                    *)
HandedOutBundleIsLive ==
    \A a \in Auth :
        auth[a].bundle /\ auth[a].handoff = "open" =>
            /\ session[a].state = "live"
            /\ token[a][0] = "ACTIVE"

(* Of a live session, replay_detected answers only a token that a refresh  *)
(* has rotated away, and only when the client presents it although it      *)
(* holds a newer one, or an answer was lost.  The tokens of a session that *)
(* has ended are REVOKED and are answered replay_detected too.             *)
OnlyOldTokensReplay ==
    \A a \in Auth, g \in Generation :
        session[a].state = "live" /\ Holds(a, g) /\ token[a][g] # "ACTIVE" =>
            /\ token[a][g] = "ROTATED" /\ g < session[a].generation
            /\ g < client[a].newest \/ client[a].lost

(* A password changed by the agent ends every approval made before it: no  *)
(* session lives on, or is created later, from one of them.                *)
OldApprovalsAreDead ==
    \A a \in superseded : session[a].state # "live"

PhaseOf(row, state) ==
    CASE row.status = "absent"                -> "none"
      [] row.status = "PENDING"               -> "asked"
      [] row.status = "APPROVED"              -> "granted"
      [] row.status \in {"DENIED", "EXPIRED"} -> "closed"
      [] row.status = "CONSUMED" -> IF state = "live" THEN "live" ELSE "closed"

phase == [a \in Auth |-> PhaseOf(auth[a], session[a].state)]

(* The refresh tokens that a refresh would take, but for time and standing. *)
keys == [a \in Auth |->
    {g \in Generation : session[a].state = "live" /\ token[a][g] = "ACTIVE"}]

Sessions == INSTANCE GrantedSessions WITH
    known <- [a \in Auth |-> client[a].newest],
    lost <- {a \in Auth : client[a].lost}

(* However polls, refreshes, replays, lost answers and the statements of a *)
(* revocation interleave, the rows follow one grant and at most one        *)
(* session, with one working key, that ends for good.                      *)
ImplementsSessions == Sessions!Spec

(* A device that keeps polling is told in the end: every authorization is  *)
(* consumed, denied or expired.                                            *)
AuthorizationEnds ==
    \A a \in Auth :
        auth[a].status # "absent" ~> auth[a].status \in {"CONSUMED", "DENIED", "EXPIRED"}
=============================================================================
