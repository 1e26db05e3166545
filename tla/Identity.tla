------------------------------ MODULE Identity ------------------------------
(***************************************************************************)
(* Accounts: AuthService and IdentityService, with the tables of users,    *)
(* invitations, recovery codes, reset tokens and sessions.                 *)
(*                                                                         *)
(* A request is a transaction of PostgreSQL at READ COMMITTED: a step that *)
(* reads, and locks where the code says FOR UPDATE, and a step that        *)
(* flushes and commits.  Hashing a password lies between the two.  Who     *)
(* holds a lock follows from where the requests are.                       *)
(*                                                                         *)
(* A name stands for user name and e-mail address together.  The roles     *)
(* administrator and operator differ in no operation of this module.       *)
(***************************************************************************)
EXTENDS Integers, FiniteSets, Functions

CONSTANTS
    Requests,       \* workers of the thread pool
    Users,          \* ids of user rows
    Names,
    Sessions,       \* ids of session rows
    Tokens,         \* ids of password reset tokens
    NoRow,
    OneOwner,       \* owners' requests come one after the other
    MailMayFail,    \* deliveries that fail are explored
    MaxRevocations  \* bound: revocations of all sessions of a user

ASSUME IdentityAssumption ==
    /\ NoRow \notin Users \cup Tokens
    /\ OneOwner \in BOOLEAN
    /\ MailMayFail \in BOOLEAN
    /\ MaxRevocations \in Nat

VARIABLES
    user,           \* users
    invitation,     \* user_invitations, one per invited user
    code,           \* recovery_codes: which code of the user is valid, 0 if none
    token,          \* password_reset_tokens
    session,        \* user_sessions
    smtp,           \* smtp_settings.enabled
    pc, arg,        \* step and locals of each request
    setups,         \* history: first-run setups that succeeded
    revocations,    \* history: how often all sessions of a user were revoked
    twice,          \* history: kinds of credential that were redeemed twice
    accepted        \* history: users who accepted their invitation before any
                    \* request had decided to remove them

tables == <<user, invitation, code, token, session, smtp>>
history == <<setups, revocations, twice, accepted>>
vars == <<tables, pc, arg, history>>

Roles == {"owner", "administrator"}
UserRow == [name : Names, role : Roles, enabled : BOOLEAN, password : BOOLEAN]
\* A token or an invitation is closed when it has been redeemed, replaced or
\* has expired.
TokenRow == [user : Users, open : BOOLEAN]
\* since and overlap are history: the revocations before the session, and
\* whether it began while another was at work.
\* A session is over when it is revoked or has expired.
SessionRow == [user : Users, open : BOOLEAN, since : Nat, overlap : BOOLEAN]

OwnerSteps == {"owner", "inviteCommit", "mail", "cleanupCommit",
               "updateCommit", "revokeCommit"}
PublicSteps == {"ownerCommit", "loginCommit", "recoverCommit", "acceptCommit",
                "resetMark", "resetCommit", "completeCommit"}
Args == [user : Users \cup {NoRow}, token : Tokens \cup {NoRow},
         loaded : UserRow \cup {NoRow},     \* the user row as it was read
         role : Roles, enabled : BOOLEAN,   \* the values to write
         pending : SUBSET Users,            \* rows an invitation replaces
         names : SUBSET Names,              \* the name it is for
         marked : SUBSET Tokens,            \* tokens a new one replaces
         ended : SUBSET Sessions,           \* sessions a revocation has found
         seen : Nat]                        \* the recovery code as read
NoArg == [user |-> NoRow, token |-> NoRow, loaded |-> NoRow, role |-> "owner",
          enabled |-> FALSE, pending |-> {}, names |-> {}, marked |-> {},
          ended |-> {}, seen |-> 0]

ASSUME NoRowDistinct ==
    NoRow \notin UserRow /\ NoRow \notin TokenRow /\ NoRow \notin SessionRow

Init ==
    /\ user = [u \in Users |-> NoRow]
    /\ invitation = [u \in Users |-> "none"]
    /\ code = [u \in Users |-> 0]
    /\ token = [t \in Tokens |-> NoRow]
    /\ session = [s \in Sessions |-> NoRow]
    /\ smtp = FALSE
    /\ pc = [r \in Requests |-> "idle"]
    /\ arg = [r \in Requests |-> NoArg]
    /\ setups = 0
    /\ revocations = [u \in Users |-> 0]
    /\ twice = {}
    /\ accepted = {}

-----------------------------------------------------------------------------
At(r, step) == pc[r] = step
Goto(r, step, locals) ==
    /\ pc' = [pc EXCEPT ![r] = step]
    /\ arg' = [arg EXCEPT ![r] = locals]
End(r) == Goto(r, "idle", NoArg)

Existing == {u \in Users : user[u] # NoRow}
EnabledOwners == {u \in Existing : user[u].role = "owner" /\ user[u].enabled}
NameFree(n, ignored) == \A u \in Existing \ ignored : user[u].name # n
FreshUser(u) ==
    /\ user[u] = NoRow
    /\ \A r \in Requests : arg[r].user # u /\ u \notin arg[r].pending

\* Who waits for whom: rows that a transaction has locked and not released.
SettingsLocked == \E q \in Requests : At(q, "ownerCommit")
InvitationLocked(u) ==
    \E q \in Requests : At(q, "acceptCommit") /\ arg[q].user = u
TokenLocked(t) ==
    \E q \in Requests : \/ At(q, "completeCommit") /\ arg[q].token = t
                        \/ At(q, "resetCommit") /\ t \in arg[q].marked
UserLocked(u) ==
    \E q \in Requests : At(q, "recoverCommit") /\ arg[q].user = u
SessionLocked(s) ==
    \E q \in Requests : At(q, "revokeCommit") /\ s \in arg[q].ended

-----------------------------------------------------------------------------
(***************************************************************************)
(* Sessions.                                                               *)
(***************************************************************************)
\* revoke_sessions has run its UPDATE for u and not committed: what begins now
\* is not ended by it.  The other revocations hold the row of the user.
Revoking(u) ==
    \E q \in Requests : At(q, "revokeCommit") /\ arg[q].user = u

OpenSessions(u) ==
    {s \in Sessions : session[s] # NoRow /\ session[s].user = u /\ session[s].open}

\* A closed session needs no history.
Closed(row) == [row EXCEPT !.open = FALSE, !.since = 0, !.overlap = FALSE]

\* The UPDATE of user_sessions that every revocation is.
Revoked(u) ==
    [s \in Sessions |->
        IF session[s] # NoRow /\ session[s].user = u
        THEN Closed(session[s]) ELSE session[s]]

\* Another request that will revoke sessions is explored.
MayRevoke == FoldFunction(+, 0, revocations) < MaxRevocations

RevokeAll(u) ==
    /\ \A s \in OpenSessions(u) : ~SessionLocked(s)
    /\ revocations' = [revocations EXCEPT ![u] = @ + 1]
    /\ session' = Revoked(u)

\* _create_session
NewSession(u, since, overlap) ==
    [user |-> u, open |-> TRUE, since |-> since, overlap |-> overlap]

Login(r, u) ==
    /\ At(r, "idle")
    /\ u \in Existing /\ user[u].enabled /\ user[u].password
    /\ Goto(r, "loginCommit", [NoArg EXCEPT !.user = u])
    /\ UNCHANGED <<tables, history>>

LoginCommit(r, s) ==
    LET u == arg[r].user
    IN  /\ At(r, "loginCommit")
        /\ u \in Existing /\ ~UserLocked(u)
        /\ session[s] = NoRow
        /\ session' = [session EXCEPT ![s] =
               NewSession(u, revocations[u], Revoking(u))]
        /\ End(r)
        /\ UNCHANGED <<user, invitation, code, token, smtp, history>>

Logout(s) ==
    /\ session[s] # NoRow /\ session[s].open /\ ~SessionLocked(s)
    /\ session' = [session EXCEPT ![s] = Closed(@)]
    /\ UNCHANGED <<user, invitation, code, token, smtp, pc, arg, history>>

-----------------------------------------------------------------------------
(***************************************************************************)
(* First-run setup and offline recovery.                                   *)
(***************************************************************************)
\* Mutant: the settings row is not locked.
CreateOwnerUnlocked(r) ==
    /\ At(r, "idle")
    /\ \A u \in Existing : user[u].role # "owner"
    /\ Goto(r, "ownerCommit", NoArg)
    /\ UNCHANGED <<tables, history>>

\* create_owner: with application_settings locked there is no owner.
CreateOwner(r) ==
    /\ At(r, "idle")
    /\ ~SettingsLocked
    /\ \A u \in Existing : user[u].role # "owner"
    /\ Goto(r, "ownerCommit", NoArg)
    /\ UNCHANGED <<tables, history>>

CreateOwnerCommit(r, u, n, s) ==
    /\ At(r, "ownerCommit")
    /\ FreshUser(u) /\ NameFree(n, {}) /\ session[s] = NoRow
    /\ user' = [user EXCEPT ![u] = [name |-> n, role |-> "owner",
                                    enabled |-> TRUE, password |-> TRUE]]
    /\ code' = [code EXCEPT ![u] = 1]
    /\ session' = [session EXCEPT ![s] = NewSession(u, revocations[u], FALSE)]
    /\ setups' = setups + 1
    /\ End(r)
    /\ UNCHANGED <<invitation, token, smtp, revocations, twice, accepted>>

\* recover_owner: the user and the code are locked, and the code verified.
RecoverOwner(r, u) ==
    /\ At(r, "idle")
    /\ MayRevoke
    /\ u \in EnabledOwners /\ code[u] # 0 /\ ~UserLocked(u)
    /\ Goto(r, "recoverCommit", [NoArg EXCEPT !.user = u, !.seen = code[u]])
    /\ UNCHANGED <<tables, history>>

RecoverCommit(r, s) ==
    LET u == arg[r].user
    IN  /\ At(r, "recoverCommit")
        /\ u \in Existing
        /\ session[s] = NoRow /\ \A x \in OpenSessions(u) : ~SessionLocked(x)
        /\ revocations' = [revocations EXCEPT ![u] = @ + 1]
        /\ session' = [Revoked(u) EXCEPT ![s] =
                          NewSession(u, revocations[u] + 1, Revoking(u))]
        /\ code' = [code EXCEPT ![u] = @ + 1]
        /\ twice' = IF code[u] = arg[r].seen THEN twice
                    ELSE twice \cup {"recovery"}
        /\ End(r)
        /\ UNCHANGED <<user, invitation, token, smtp, setups, accepted>>

-----------------------------------------------------------------------------
(***************************************************************************)
(* Requests of an owner.  require_owner is a transaction of its own.       *)
(***************************************************************************)
RequireOwner(r, s) ==
    /\ At(r, "idle")
    /\ session[s] # NoRow /\ session[s].open
    /\ session[s].user \in EnabledOwners
    /\ OneOwner => \A q \in Requests : pc[q] \notin OwnerSteps
    /\ Goto(r, "owner", NoArg)
    /\ UNCHANGED <<tables, history>>

SaveSmtp(r, enabled) ==
    /\ At(r, "owner")
    /\ smtp' = enabled
    /\ End(r)
    /\ UNCHANGED <<user, invitation, code, token, session, history>>

\* Deleting users takes along the rows that refer to them, and so waits for
\* the locks on those.
Deletable(users) ==
    \A u \in users :
        /\ ~InvitationLocked(u) /\ ~UserLocked(u)
        /\ \A t \in Tokens : token[t] # NoRow /\ token[t].user = u
                                => ~TokenLocked(t)
        /\ \A s \in Sessions : session[s] # NoRow /\ session[s].user = u
                                  => ~SessionLocked(s)

\* ON DELETE CASCADE
Cascade(users) ==
    /\ code' = [u \in Users |-> IF u \in users THEN 0 ELSE code[u]]
    /\ token' = [t \in Tokens |->
           IF token[t] # NoRow /\ token[t].user \in users
           THEN NoRow ELSE token[t]]
    /\ session' = [s \in Sessions |->
           IF session[s] # NoRow /\ session[s].user \in users
           THEN NoRow ELSE session[s]]
    /\ revocations' = [u \in Users |-> IF u \in users THEN 0 ELSE revocations[u]]

\* invite_user: SMTP is enabled, and rows of the name are pending.
InviteRead(r, n) ==
    LET existing == {u \in Existing : user[u].name = n}
    IN  /\ At(r, "owner")
        /\ smtp
        /\ \A u \in existing : ~user[u].password /\ ~user[u].enabled
        /\ Goto(r, "inviteCommit", [NoArg EXCEPT !.pending = existing,
                                                 !.names = {n}])
        /\ UNCHANGED <<tables, history>>

InviteCommit(r, u) ==
    LET replaced == arg[r].pending \cap Existing
    IN  /\ At(r, "inviteCommit")
        /\ FreshUser(u) /\ Deletable(replaced)
        /\ \A n \in arg[r].names :
            /\ NameFree(n, replaced)
            /\ user' = [x \in Users |->
                   IF x = u THEN [name |-> n, role |-> "administrator",
                                  enabled |-> FALSE, password |-> FALSE]
                   ELSE IF x \in replaced THEN NoRow ELSE user[x]]
        /\ invitation' = [x \in Users |->
               IF x = u THEN "open"
               ELSE IF x \in replaced THEN "none" ELSE invitation[x]]
        /\ Cascade(replaced)
        /\ Goto(r, "mail", [NoArg EXCEPT !.user = u])
        /\ UNCHANGED <<smtp, setups, twice, accepted>>

MailSent(r) ==
    /\ At(r, "mail")
    /\ End(r)
    /\ UNCHANGED <<tables, history>>

\* Mutant: the user is removed although the invitation has been accepted.
MailFailsUnchecked(r) ==
    /\ At(r, "mail") /\ MailMayFail
    /\ IF arg[r].user \in Existing
       THEN Goto(r, "cleanupCommit", arg[r])
       ELSE End(r)
    /\ UNCHANGED <<tables, history>>

\* The user is removed again unless enabled; the mail may have arrived all the
\* same.
MailFails(r) ==
    /\ At(r, "mail") /\ MailMayFail
    /\ IF arg[r].user \in Existing /\ ~user[arg[r].user].enabled
       THEN Goto(r, "cleanupCommit", arg[r])
       ELSE End(r)
    /\ UNCHANGED <<tables, history>>

CleanupCommit(r) ==
    LET gone == {arg[r].user} \cap Existing
    IN  /\ At(r, "cleanupCommit")
        /\ Deletable(gone)
        /\ user' = [x \in Users |-> IF x \in gone THEN NoRow ELSE user[x]]
        /\ invitation' = [x \in Users |->
               IF x \in gone THEN "none" ELSE invitation[x]]
        /\ Cascade(gone)
        /\ End(r)
        /\ UNCHANGED <<smtp, setups, twice, accepted>>

\* Mutant: the last owner is counted wrongly.
OwnerRemainsOffByOne(row, role, enabled) ==
    row.role = "owner" /\ (role # "owner" \/ ~enabled)
        => Cardinality(EnabledOwners) >= 1

\* The owner check of update_user.
OwnerRemains(row, role, enabled) ==
    row.role = "owner" /\ (role # "owner" \/ ~enabled)
        => Cardinality(EnabledOwners) > 1

UpdateRead(r, u, role, enabled) ==
    /\ At(r, "owner")
    /\ u \in Existing
    /\ enabled \/ MayRevoke
    /\ enabled => user[u].password
    /\ OwnerRemains(user[u], role, enabled)
    /\ Goto(r, "updateCommit", [NoArg EXCEPT !.user = u, !.loaded = user[u],
                                  !.role = role, !.enabled = enabled])
    /\ UNCHANGED <<tables, history>>

\* The ORM writes the columns that differ from what was loaded.
UpdateCommit(r) ==
    LET u == arg[r].user
        old == arg[r].loaded
    IN  /\ At(r, "updateCommit")
        /\ u \in Existing /\ ~UserLocked(u)
        /\ user' = [user EXCEPT
               ![u].role = IF arg[r].role # old.role THEN arg[r].role ELSE @,
               ![u].enabled = IF arg[r].enabled # old.enabled
                              THEN arg[r].enabled ELSE @]
        /\ IF arg[r].enabled THEN UNCHANGED <<session, revocations>>
           ELSE RevokeAll(u)
        /\ End(r)
        /\ UNCHANGED <<invitation, code, token, smtp, setups, twice, accepted>>

\* revoke_sessions: the user exists, and the UPDATE finds the sessions.
RevokeRead(r, u) ==
    /\ At(r, "owner")
    /\ MayRevoke
    /\ u \in Existing
    /\ \A s \in OpenSessions(u) : ~SessionLocked(s)
    /\ Goto(r, "revokeCommit", [NoArg EXCEPT !.user = u,
                                             !.ended = OpenSessions(u)])
    /\ UNCHANGED <<tables, history>>

RevokeCommit(r) ==
    /\ At(r, "revokeCommit")
    /\ revocations' = [revocations EXCEPT ![arg[r].user] = @ + 1]
    /\ session' = [s \in Sessions |-> IF s \in arg[r].ended
                                      THEN Closed(session[s]) ELSE session[s]]
    /\ End(r)
    /\ UNCHANGED <<user, invitation, code, token, smtp, setups, twice,
                       accepted>>

-----------------------------------------------------------------------------
(***************************************************************************)
(* Invitations and password resets.                                        *)
(***************************************************************************)
AcceptInvitation(r, u) ==
    /\ At(r, "idle")
    /\ invitation[u] = "open" /\ ~InvitationLocked(u)
    /\ Goto(r, "acceptCommit", [NoArg EXCEPT !.user = u])
    /\ UNCHANGED <<tables, history>>

\* A request has found u still pending and is about to delete the row.
Doomed(u) ==
    \E q \in Requests :
        \/ At(q, "inviteCommit") /\ u \in arg[q].pending
        \/ At(q, "cleanupCommit") /\ arg[q].user = u

\* Mutant: accepted_at is not set to a time.
AcceptCommitUnset(r) ==
    LET u == arg[r].user
    IN  /\ At(r, "acceptCommit")
        /\ u \in Existing /\ ~UserLocked(u)
        /\ user' = [user EXCEPT ![u].password = TRUE, ![u].enabled = TRUE]
        /\ invitation' = [invitation EXCEPT ![u] = "unset"]
        /\ End(r)
        /\ UNCHANGED <<code, token, session, smtp, history>>

AcceptCommit(r) ==
    LET u == arg[r].user
    IN  /\ At(r, "acceptCommit")
        /\ u \in Existing /\ ~UserLocked(u)
        /\ user' = [user EXCEPT ![u].password = TRUE, ![u].enabled = TRUE]
        /\ invitation' = [invitation EXCEPT ![u] = "closed"]
        /\ twice' = IF invitation[u] = "open" THEN twice
                    ELSE twice \cup {"invitation"}
        /\ accepted' = IF Doomed(u) THEN accepted ELSE accepted \cup {u}
        /\ End(r)
        /\ UNCHANGED <<code, token, session, smtp, setups, revocations>>

RequestReset(r, u) ==
    /\ At(r, "idle")
    /\ smtp
    /\ u \in Existing /\ user[u].enabled /\ user[u].password
    /\ Goto(r, "resetMark", [NoArg EXCEPT !.user = u])
    /\ UNCHANGED <<tables, history>>

\* The UPDATE that marks earlier tokens as used; nobody sees it before the
\* commit.
ResetMark(r) ==
    LET earlier == {t \in Tokens : /\ token[t] # NoRow
                                   /\ token[t].user = arg[r].user
                                   /\ token[t].open}
    IN  /\ At(r, "resetMark")
        /\ \A t \in earlier : ~TokenLocked(t)
        /\ Goto(r, "resetCommit", [arg[r] EXCEPT !.marked = earlier])
        /\ UNCHANGED <<tables, history>>

ResetCommit(r, k) ==
    /\ At(r, "resetCommit")
    /\ arg[r].user \in Existing /\ ~UserLocked(arg[r].user)
    /\ token[k] = NoRow
    /\ token' = [t \in Tokens |->
           IF t = k THEN [user |-> arg[r].user, open |-> TRUE]
           ELSE IF t \in arg[r].marked THEN [token[t] EXCEPT !.open = FALSE]
           ELSE token[t]]
    /\ End(r)
    /\ UNCHANGED <<user, invitation, code, session, smtp, history>>

\* Mutant: the token is read without FOR UPDATE.
CompleteResetUnlocked(r, t) ==
    /\ At(r, "idle")
    /\ MayRevoke
    /\ token[t] # NoRow /\ token[t].open
    /\ user[token[t].user].enabled
    /\ Goto(r, "completeCommit", [NoArg EXCEPT !.user = token[t].user,
                                               !.token = t])
    /\ UNCHANGED <<tables, history>>

CompleteReset(r, t) ==
    /\ At(r, "idle")
    /\ MayRevoke
    /\ token[t] # NoRow /\ token[t].open /\ ~TokenLocked(t)
    /\ user[token[t].user].enabled
    /\ Goto(r, "completeCommit", [NoArg EXCEPT !.user = token[t].user,
                                               !.token = t])
    /\ UNCHANGED <<tables, history>>

\* Mutant: the sessions are not revoked.
CompleteCommitKeeps(r) ==
    LET u == arg[r].user
        t == arg[r].token
    IN  /\ At(r, "completeCommit")
        /\ u \in Existing /\ ~UserLocked(u)
        /\ token' = [token EXCEPT ![t].open = FALSE]
        /\ revocations' = [revocations EXCEPT ![u] = @ + 1]
        /\ End(r)
        /\ UNCHANGED <<user, invitation, code, session, smtp, setups, twice,
                       accepted>>

CompleteCommit(r) ==
    LET u == arg[r].user
        t == arg[r].token
    IN  /\ At(r, "completeCommit")
        /\ u \in Existing /\ ~UserLocked(u)
        /\ token' = [token EXCEPT ![t].open = FALSE]
        /\ twice' = IF token[t].open THEN twice ELSE twice \cup {"reset"}
        /\ RevokeAll(u)
        /\ End(r)
        /\ UNCHANGED <<user, invitation, code, smtp, setups, accepted>>

-----------------------------------------------------------------------------
(***************************************************************************)
(* Failures, time and retention.                                           *)
(***************************************************************************)
\* The transaction is rolled back: a refusal, a constraint, a row that is gone,
\* a deadlock that PostgreSQL breaks, a lost connection.
Abort(r) ==
    /\ pc[r] \notin {"idle", "mail"}
    /\ End(r)
    /\ UNCHANGED <<tables, history>>

ExpireSession(s) ==
    /\ session[s] # NoRow /\ session[s].open
    /\ session' = [session EXCEPT ![s] = Closed(@)]
    /\ UNCHANGED <<user, invitation, code, token, smtp, pc, arg, history>>

\* What expires after a request has locked it, expires too late.
ExpireToken(t) ==
    /\ token[t] # NoRow /\ token[t].open /\ ~TokenLocked(t)
    /\ token' = [token EXCEPT ![t].open = FALSE]
    /\ UNCHANGED <<user, invitation, code, session, smtp, pc, arg, history>>

ExpireInvitation(u) ==
    /\ invitation[u] = "open" /\ ~InvitationLocked(u)
    /\ invitation' = [invitation EXCEPT ![u] = "closed"]
    /\ UNCHANGED <<user, code, token, session, smtp, pc, arg, history>>

\* RetentionService.cleanup: the sessions that have expired by now.
Cleanup(expired) ==
    /\ expired # {}
    /\ \A s \in expired :
           session[s] # NoRow /\ ~session[s].open /\ ~SessionLocked(s)
    /\ session' = [s \in Sessions |-> IF s \in expired THEN NoRow ELSE session[s]]
    /\ UNCHANGED <<user, invitation, code, token, smtp, pc, arg, history>>

-----------------------------------------------------------------------------
OwnerRequest(r) ==
    \/ \E s \in Sessions : RequireOwner(r, s)
    \/ \E enabled \in BOOLEAN : SaveSmtp(r, enabled)
    \/ \E n \in Names : InviteRead(r, n)
    \/ \E u \in Users : InviteCommit(r, u) \/ RevokeRead(r, u)
    \/ MailSent(r) \/ MailFails(r) \/ CleanupCommit(r)
    \/ \E u \in Users, role \in Roles, enabled \in BOOLEAN :
            UpdateRead(r, u, role, enabled)
    \/ UpdateCommit(r) \/ RevokeCommit(r)

PublicRequest(r) ==
    \/ CreateOwner(r)
    \/ \E u \in Users, n \in Names, s \in Sessions :
            CreateOwnerCommit(r, u, n, s)
    \/ \E u \in Users : \/ Login(r, u) \/ RecoverOwner(r, u)
                        \/ AcceptInvitation(r, u) \/ RequestReset(r, u)
    \/ \E s \in Sessions : LoginCommit(r, s) \/ RecoverCommit(r, s)
    \/ AcceptCommit(r) \/ ResetMark(r) \/ CompleteCommit(r)
    \/ \E t \in Tokens : ResetCommit(r, t) \/ CompleteReset(r, t)

Next ==
    \/ \E r \in Requests : OwnerRequest(r) \/ PublicRequest(r) \/ Abort(r)
    \/ \E s \in Sessions : Logout(s) \/ ExpireSession(s)
    \/ \E t \in Tokens : ExpireToken(t)
    \/ \E u \in Users : ExpireInvitation(u)
    \/ \E expired \in SUBSET Sessions : Cleanup(expired)

Spec == Init /\ [][Next]_vars

-----------------------------------------------------------------------------
TypeOK ==
    /\ user \in [Users -> UserRow \cup {NoRow}]
    /\ invitation \in [Users -> {"none", "open", "closed"}]
    /\ code \in [Users -> Nat]
    /\ token \in [Tokens -> TokenRow \cup {NoRow}]
    /\ session \in [Sessions -> SessionRow \cup {NoRow}]
    /\ smtp \in BOOLEAN
    /\ pc \in [Requests -> OwnerSteps \cup PublicSteps \cup {"idle"}]
    /\ arg \in [Requests -> Args]
    /\ setups \in Nat
    /\ revocations \in [Users -> Nat]
    /\ twice \subseteq {"invitation", "reset", "recovery"}
    /\ accepted \subseteq Users

\* docs/design/08: "single-use" invitation and reset tokens; a recovery code is
\* replaced by its use.  No interleaving of two requests redeems one twice
\* (the FOR UPDATE of accept_invitation, complete_password_reset and
\* recover_owner).
SingleUse == twice = {}

\* docs/design/01: "Setup cannot be reopened after the first Owner is created":
\* neither two first-run clients nor any later change of roles lets create_owner
\* succeed again.
SetupOnce == setups <= 1

\* docs/design/08: "Protection against disabling or demoting the last enabled
\* Owner": after the setup there is always an enabled owner who can log in
\* (update_user; invitations that replace or remove rows).
LastOwner == setups > 0 => \E u \in EnabledOwners : user[u].password

\* docs/design/08: a password reset, like a recovery, a disabling or an explicit
\* revocation, ends every session of the user that was there; only one that
\* began between the UPDATE and the commit of revoke_sessions outlives it.
RevocationComplete ==
    \A s \in Sessions :
        session[s] # NoRow /\ session[s].open =>
            session[s].overlap \/ session[s].since = revocations[session[s].user]

\* Whoever accepts an invitation keeps the account, although its mail may still
\* be on its way and fail, and although the name may be invited again: only a
\* request that had found the account pending before may still remove it
\* (invite_user: the check for a password, and the check of enabled after a
\* delivery that failed; accept_invitation).
AcceptedKept == \A u \in accepted : u \in Existing /\ user[u].password

-----------------------------------------------------------------------------
\* What the properties rest on.  A row that a request has locked stays as the
\* request has read it, and no other request has it locked.
LocksInv ==
    /\ \A r \in Requests :
           /\ At(r, "acceptCommit") =>
                  arg[r].user \in Users /\ invitation[arg[r].user] = "open"
           /\ At(r, "recoverCommit") =>
                  arg[r].user \in Users /\ code[arg[r].user] = arg[r].seen
           /\ At(r, "completeCommit") =>
                  /\ arg[r].token \in Tokens /\ token[arg[r].token] # NoRow
                  /\ token[arg[r].token].open
           /\ At(r, "resetCommit") => \A t \in arg[r].marked : token[t] # NoRow
           /\ At(r, "revokeCommit") =>
                  \A s \in arg[r].ended :
                      session[s] # NoRow /\ session[s].user = arg[r].user
           /\ At(r, "inviteCommit") => \E n \in Names : arg[r].names = {n}
    /\ \A q, r \in Requests : q # r =>
           /\ At(q, "acceptCommit") /\ At(r, "acceptCommit")
                  => arg[q].user # arg[r].user
           /\ At(q, "recoverCommit") /\ At(r, "recoverCommit")
                  => arg[q].user # arg[r].user
           /\ At(q, "completeCommit") /\ At(r, "completeCommit")
                  => arg[q].token # arg[r].token
           /\ At(q, "completeCommit") /\ At(r, "resetCommit")
                  => arg[q].token \notin arg[r].marked

\* An explicit revocation that is about to commit ends every session of the
\* user that did not begin meanwhile.
RevokeInv ==
    \A r \in Requests : At(r, "revokeCommit") =>
        \A s \in OpenSessions(arg[r].user) :
            s \in arg[r].ended \/ session[s].overlap

\* With owners' requests one after the other: what such a request is about to
\* remove or to change is not the last owner who can log in.
CanManage(u) == u \in EnabledOwners /\ user[u].password

OwnerInv ==
    /\ \A u \in Existing : user[u].enabled => user[u].password
    /\ \A q, r \in Requests :
           /\ pc[q] \in OwnerSteps /\ pc[r] \in OwnerSteps => q = r
           /\ At(q, "ownerCommit") /\ At(r, "ownerCommit") => q = r
    /\ \A r \in Requests :
           /\ At(r, "ownerCommit") => setups = 0
           /\ At(r, "inviteCommit") /\ setups > 0 =>
                  \E u \in Users \ arg[r].pending : CanManage(u)
           /\ pc[r] \in {"mail", "cleanupCommit"} /\ arg[r].user \in Existing =>
                  user[arg[r].user].role = "administrator"
           /\ At(r, "updateCommit") /\ arg[r].user \in Existing =>
                  /\ user[arg[r].user].role = arg[r].loaded.role
                  /\ arg[r].enabled => user[arg[r].user].password
                  /\ arg[r].loaded.role = "owner"
                         /\ (arg[r].role # "owner" \/ ~arg[r].enabled) =>
                         \E u \in Users \ {arg[r].user} : CanManage(u)

\* With owners' requests one after the other: nobody is about to remove who has
\* accepted, nor disables them while their mail is being delivered.
AcceptedInv ==
    /\ AcceptedKept
    /\ \A u \in accepted : ~Doomed(u)
    /\ \A r \in Requests :
           At(r, "mail") /\ arg[r].user \in accepted => user[arg[r].user].enabled

=============================================================================
