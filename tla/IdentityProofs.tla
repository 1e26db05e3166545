--------------------------- MODULE IdentityProofs ---------------------------
(***************************************************************************)
(* Proofs about Identity for any number of concurrent requests, users,     *)
(* sessions and tokens.                                                    *)
(***************************************************************************)
EXTENDS Identity, FiniteSetTheorems, TLAPS

Steps == OwnerSteps \cup PublicSteps \cup {"idle"}

\* Every session and token belongs to a user, and only invited users have an
\* invitation: the foreign keys.
NoOrphans ==
    /\ \A s \in Sessions : session[s] # NoRow => session[s].user \in Existing
    /\ \A t \in Tokens : token[t] # NoRow => token[t].user \in Existing
    /\ \A u \in Users \ Existing : invitation[u] = "none" /\ code[u] = 0

Inv == TypeOK /\ LocksInv /\ RevokeInv /\ RevocationComplete /\ NoOrphans
         /\ SingleUse

LEMMA NoArgType == NoArg \in Args
BY DEF NoArg, Args, Roles

\* A request that moves leaves the others where they are.
LEMMA GotoFrame ==
    ASSUME TypeOK, NEW r \in Requests, NEW step \in Steps, NEW locals \in Args,
           Goto(r, step, locals)
    PROVE  /\ pc' \in [Requests -> Steps] /\ arg' \in [Requests -> Args]
           /\ pc'[r] = step /\ arg'[r] = locals
           /\ \A q \in Requests \ {r} : pc'[q] = pc[q] /\ arg'[q] = arg[q]
BY DEF TypeOK, Goto, Steps

LEMMA EndFrame ==
    ASSUME TypeOK, NEW r \in Requests, End(r)
    PROVE  /\ pc' \in [Requests -> Steps] /\ arg' \in [Requests -> Args]
           /\ pc'[r] = "idle" /\ arg'[r] = NoArg
           /\ \A q \in Requests \ {r} : pc'[q] = pc[q] /\ arg'[q] = arg[q]
BY GotoFrame, NoArgType DEF End, Steps

-----------------------------------------------------------------------------
(***************************************************************************)
(* Steps that only read, and lock what they have read.                     *)
(***************************************************************************)
\* What a request has to find in the rows it locks.
Locks(step, a) ==
    /\ step = "acceptCommit" =>
           /\ a.user \in Users /\ invitation[a.user] = "open"
           /\ ~InvitationLocked(a.user)
    /\ step = "recoverCommit" =>
           a.user \in Users /\ code[a.user] = a.seen /\ ~UserLocked(a.user)
    /\ step = "completeCommit" =>
           /\ a.token \in Tokens /\ token[a.token] # NoRow
           /\ token[a.token].open /\ ~TokenLocked(a.token)
    /\ step = "resetCommit" =>
           \A t \in a.marked : token[t] # NoRow /\ ~TokenLocked(t)
    /\ step = "revokeCommit" => a.ended = OpenSessions(a.user)
    /\ step = "inviteCommit" => \E n \in Names : a.names = {n}

LEMMA ReadsInv ==
    ASSUME Inv, NEW r \in Requests, NEW step \in Steps, NEW a \in Args,
           Goto(r, step, a), Locks(step, a), UNCHANGED <<tables, history>>
    PROVE  Inv'
<1>0. /\ pc' \in [Requests -> Steps] /\ arg' \in [Requests -> Args]
      /\ pc'[r] = step /\ arg'[r] = a
      /\ \A q \in Requests \ {r} : pc'[q] = pc[q] /\ arg'[q] = arg[q]
  BY GotoFrame DEF Inv
<1>1. UNCHANGED <<user, invitation, code, token, session, smtp, setups,
                  revocations, twice, accepted>>
  BY DEF tables, history
<1>2. TypeOK'
  BY <1>0, <1>1 DEF Inv, TypeOK, Steps
<1>3. LocksInv'
  <2>1. ASSUME NEW q \in Requests
        PROVE  /\ pc'[q] = "acceptCommit" =>
                      arg'[q].user \in Users /\ invitation[arg'[q].user] = "open"
               /\ pc'[q] = "recoverCommit" =>
                      arg'[q].user \in Users /\ code[arg'[q].user] = arg'[q].seen
               /\ pc'[q] = "completeCommit" =>
                      /\ arg'[q].token \in Tokens /\ token[arg'[q].token] # NoRow
                      /\ token[arg'[q].token].open
               /\ pc'[q] = "resetCommit" =>
                      \A t \in arg'[q].marked : token[t] # NoRow
               /\ pc'[q] = "inviteCommit" => \E n \in Names : arg'[q].names = {n}
    BY <1>0 DEF Inv, LocksInv, Locks, At
  <2>2. ASSUME NEW q \in Requests, pc'[q] = "revokeCommit"
        PROVE  \A s \in arg'[q].ended :
                   session[s] # NoRow /\ session[s].user = arg'[q].user
    BY <1>0, <2>2 DEF Inv, LocksInv, Locks, At, OpenSessions
  <2>3. ASSUME NEW p \in Requests, NEW q \in Requests, p # q
        PROVE  /\ pc'[p] = "acceptCommit" /\ pc'[q] = "acceptCommit"
                      => arg'[p].user # arg'[q].user
               /\ pc'[p] = "recoverCommit" /\ pc'[q] = "recoverCommit"
                      => arg'[p].user # arg'[q].user
    BY <1>0, <2>3 DEF Inv, LocksInv, Locks, At, InvitationLocked, UserLocked
  <2>4. ASSUME NEW p \in Requests, NEW q \in Requests, p # q
        PROVE  /\ pc'[p] = "completeCommit" /\ pc'[q] = "completeCommit"
                      => arg'[p].token # arg'[q].token
               /\ pc'[p] = "completeCommit" /\ pc'[q] = "resetCommit"
                      => arg'[p].token \notin arg'[q].marked
    BY <1>0, <2>4 DEF Inv, LocksInv, Locks, At, TokenLocked
  <2> QED BY <1>1, <2>1, <2>2, <2>3, <2>4 DEF LocksInv, At
<1>4. RevokeInv'
  BY <1>0, <1>1 DEF Inv, RevokeInv, Locks, At, OpenSessions
<1>5. RevocationComplete' /\ NoOrphans' /\ SingleUse'
  BY <1>1 DEF Inv, RevocationComplete, NoOrphans, SingleUse, Existing
<1> QED BY <1>2, <1>3, <1>4, <1>5 DEF Inv

\* Every step that reads is one of these.
LEMMA ReadSteps ==
    ASSUME Inv, NEW r \in Requests,
           \/ CreateOwner(r) \/ MailSent(r) \/ MailFails(r) \/ ResetMark(r)
           \/ Abort(r)
           \/ \E u \in Users : \/ Login(r, u) \/ RecoverOwner(r, u)
                               \/ AcceptInvitation(r, u) \/ RequestReset(r, u)
                               \/ RevokeRead(r, u)
           \/ \E s \in Sessions : RequireOwner(r, s)
           \/ \E n \in Names : InviteRead(r, n)
           \/ \E t \in Tokens : CompleteReset(r, t)
           \/ \E u \in Users, role \in Roles, enabled \in BOOLEAN :
                  UpdateRead(r, u, role, enabled)
    PROVE  Inv'
<1> USE DEF Steps, OwnerSteps, PublicSteps
<1>0. TypeOK /\ arg[r] \in Args
  BY DEF Inv, TypeOK
<1>1. ASSUME NEW step \in {"idle", "owner", "ownerCommit", "mail",
                           "cleanupCommit", "loginCommit", "resetMark",
                           "updateCommit"},
             NEW a \in Args, Goto(r, step, a), UNCHANGED <<tables, history>>
      PROVE  Inv'
  <2>1. Locks(step, a)
    BY DEF Locks
  <2> QED BY <1>1, <2>1, ReadsInv
<1>2. CASE CreateOwner(r) \/ MailSent(r) \/ Abort(r) \/ MailFails(r)
  BY <1>0, <1>1, <1>2, NoArgType
  DEF CreateOwner, MailSent, Abort, End, MailFails
<1>3. ASSUME NEW s \in Sessions, RequireOwner(r, s) PROVE Inv'
  BY <1>1, <1>3, NoArgType DEF RequireOwner
<1>4. ASSUME NEW u \in Users, Login(r, u) \/ RequestReset(r, u) PROVE Inv'
  <2>1. [NoArg EXCEPT !.user = u] \in Args
    BY NoArgType DEF Args
  <2> QED BY <1>1, <1>4, <2>1 DEF Login, RequestReset
<1>5. ASSUME NEW u \in Users, NEW role \in Roles, NEW enabled \in BOOLEAN,
             UpdateRead(r, u, role, enabled)
      PROVE  Inv'
  <2> DEFINE a == [NoArg EXCEPT !.user = u, !.loaded = user[u], !.role = role,
                                !.enabled = enabled]
  <2>1. user[u] \in UserRow
    BY <1>0, <1>5 DEF UpdateRead, Existing, TypeOK
  <2>2. a \in Args
    BY <2>1, NoArgType DEF Args
  <2>3. Goto(r, "updateCommit", a) /\ UNCHANGED <<tables, history>>
    BY <1>5 DEF UpdateRead
  <2> QED BY <1>1, <2>2, <2>3
<1>6. ASSUME NEW u \in Users, RecoverOwner(r, u) PROVE Inv'
  <2> DEFINE a == [NoArg EXCEPT !.user = u, !.seen = code[u]]
  <2>1. a \in Args /\ a.user = u /\ a.seen = code[u]
    BY <1>0, NoArgType DEF Args, TypeOK
  <2>2. Goto(r, "recoverCommit", a) /\ UNCHANGED <<tables, history>>
    BY <1>6 DEF RecoverOwner
  <2> HIDE DEF a
  <2>3. Locks("recoverCommit", a)
    BY <1>6, <2>1 DEF RecoverOwner, Locks
  <2> QED BY <2>1, <2>2, <2>3, ReadsInv
<1>7. ASSUME NEW u \in Users, AcceptInvitation(r, u) PROVE Inv'
  <2> DEFINE a == [NoArg EXCEPT !.user = u]
  <2>1. a \in Args /\ a.user = u
    BY NoArgType DEF Args
  <2>2. Goto(r, "acceptCommit", a) /\ UNCHANGED <<tables, history>>
    BY <1>7 DEF AcceptInvitation
  <2> HIDE DEF a
  <2>3. Locks("acceptCommit", a)
    BY <1>7, <2>1 DEF AcceptInvitation, Locks
  <2> QED BY <2>1, <2>2, <2>3, ReadsInv
<1>8. ASSUME NEW u \in Users, RevokeRead(r, u) PROVE Inv'
  <2> DEFINE a == [NoArg EXCEPT !.user = u, !.ended = OpenSessions(u)]
  <2>1. a \in Args /\ a.user = u /\ a.ended = OpenSessions(u)
    BY NoArgType DEF Args, OpenSessions
  <2>2. Goto(r, "revokeCommit", a) /\ UNCHANGED <<tables, history>>
    BY <1>8 DEF RevokeRead
  <2> HIDE DEF a
  <2>3. Locks("revokeCommit", a)
    BY <2>1 DEF Locks
  <2> QED BY <2>1, <2>2, <2>3, ReadsInv
<1>9. ASSUME NEW n \in Names, InviteRead(r, n) PROVE Inv'
  <2> DEFINE existing == {u \in Existing : user[u].name = n}
             a == [NoArg EXCEPT !.pending = existing, !.names = {n}]
  <2>1. existing \in SUBSET Users
    BY DEF Existing
  <2>2. a \in Args /\ a.names = {n}
    BY <2>1, NoArgType DEF Args
  <2>3. Goto(r, "inviteCommit", a) /\ UNCHANGED <<tables, history>>
    BY <1>9 DEF InviteRead
  <2> HIDE DEF a
  <2>4. Locks("inviteCommit", a)
    BY <2>2 DEF Locks
  <2> QED BY <2>2, <2>3, <2>4, ReadsInv
<1>10. ASSUME NEW t \in Tokens, CompleteReset(r, t) PROVE Inv'
  <2> DEFINE a == [NoArg EXCEPT !.user = token[t].user, !.token = t]
  <2>1. token[t] # NoRow /\ token[t].open /\ ~TokenLocked(t)
        /\ token[t].user \in Users
    BY <1>0, <1>10 DEF CompleteReset, TypeOK, TokenRow
  <2>2. a \in Args /\ a.token = t
    BY <2>1, NoArgType DEF Args
  <2>3. Goto(r, "completeCommit", a) /\ UNCHANGED <<tables, history>>
    BY <1>10 DEF CompleteReset
  <2> HIDE DEF a
  <2>4. Locks("completeCommit", a)
    BY <2>1, <2>2 DEF Locks
  <2> QED BY <2>2, <2>3, <2>4, ReadsInv
<1>11. CASE ResetMark(r)
  <2> DEFINE earlier == {t \in Tokens : /\ token[t] # NoRow
                                        /\ token[t].user = arg[r].user
                                        /\ token[t].open}
             a == [arg[r] EXCEPT !.marked = earlier]
  <2>1. a \in Args /\ a.marked = earlier
    BY <1>0 DEF Args
  <2>2. /\ Goto(r, "resetCommit", a) /\ UNCHANGED <<tables, history>>
        /\ \A t \in earlier : token[t] # NoRow /\ ~TokenLocked(t)
    BY <1>11 DEF ResetMark
  <2> HIDE DEF a, earlier
  <2>3. Locks("resetCommit", a)
    BY <2>1, <2>2 DEF Locks
  <2> QED BY <2>1, <2>2, <2>3, ReadsInv
<1> QED BY <1>2, <1>3, <1>4, <1>5, <1>6, <1>7, <1>8, <1>9, <1>10, <1>11

-----------------------------------------------------------------------------
(***************************************************************************)
(* Steps that write.  A commit respects the rows that others have locked,  *)
(* and the sessions it leaves or begins agree with the revocations.        *)
(***************************************************************************)
Respects(others) ==
    \A q \in others :
        /\ At(q, "acceptCommit") =>
               invitation'[arg[q].user] = invitation[arg[q].user]
        /\ At(q, "recoverCommit") => code'[arg[q].user] = code[arg[q].user]
        /\ At(q, "completeCommit") => token'[arg[q].token] = token[arg[q].token]
        /\ At(q, "resetCommit") => \A t \in arg[q].marked : token'[t] # NoRow
        /\ At(q, "revokeCommit") =>
               \A s \in arg[q].ended :
                   session'[s] # NoRow /\ session'[s].user = arg[q].user

Agrees(s) ==
    \/ session'[s] = NoRow
    \/ ~session'[s].open
    \/ /\ session'[s] = session[s]
       /\ \/ session[s].overlap
          \/ revocations'[session[s].user] = revocations[session[s].user]
    \/ /\ session'[s].since = revocations'[session'[s].user]
       /\ \/ session'[s].overlap
          \/ \A q \in Requests : At(q, "revokeCommit") =>
                 arg[q].user # session'[s].user

LEMMA WritesInv ==
    ASSUME Inv, TypeOK', NEW others \in SUBSET Requests,
           \A q \in others : pc'[q] = pc[q] /\ arg'[q] = arg[q],
           \A q \in Requests \ others : pc'[q] \in {"idle", "mail"},
           Respects(others), \A s \in Sessions : Agrees(s), NoOrphans', SingleUse'
    PROVE  Inv'
<1>1. LocksInv'
  <2>1. ASSUME NEW q \in others
        PROVE  /\ pc'[q] = "acceptCommit" =>
                      arg'[q].user \in Users /\ invitation'[arg'[q].user] = "open"
               /\ pc'[q] = "recoverCommit" =>
                      arg'[q].user \in Users /\ code'[arg'[q].user] = arg'[q].seen
               /\ pc'[q] = "completeCommit" =>
                      /\ arg'[q].token \in Tokens /\ token'[arg'[q].token] # NoRow
                      /\ token'[arg'[q].token].open
               /\ pc'[q] = "resetCommit" =>
                      \A t \in arg'[q].marked : token'[t] # NoRow
               /\ pc'[q] = "inviteCommit" => \E n \in Names : arg'[q].names = {n}
    BY DEF Inv, LocksInv, Respects, At
  <2>2. ASSUME NEW q \in others, pc'[q] = "revokeCommit"
        PROVE  \A s \in arg'[q].ended :
                   session'[s] # NoRow /\ session'[s].user = arg'[q].user
    BY <2>2 DEF Respects, At
  <2>3. ASSUME NEW p \in others, NEW q \in others, p # q
        PROVE  /\ pc'[p] = "acceptCommit" /\ pc'[q] = "acceptCommit"
                      => arg'[p].user # arg'[q].user
               /\ pc'[p] = "recoverCommit" /\ pc'[q] = "recoverCommit"
                      => arg'[p].user # arg'[q].user
               /\ pc'[p] = "completeCommit" /\ pc'[q] = "completeCommit"
                      => arg'[p].token # arg'[q].token
               /\ pc'[p] = "completeCommit" /\ pc'[q] = "resetCommit"
                      => arg'[p].token \notin arg'[q].marked
    BY <2>3 DEF Inv, LocksInv, At
  <2>4. \A q \in Requests : q \notin others => pc'[q] \in {"idle", "mail"}
    OBVIOUS
  <2> QED BY <2>1, <2>2, <2>3, <2>4 DEF LocksInv, At
<1>2. RevokeInv'
  <2> SUFFICES ASSUME NEW q \in Requests, pc'[q] = "revokeCommit",
                      NEW s \in Sessions, session'[s] # NoRow,
                      session'[s].user = arg'[q].user, session'[s].open
               PROVE  s \in arg'[q].ended \/ session'[s].overlap
    BY DEF RevokeInv, At, OpenSessions
  <2>1. q \in others /\ pc[q] = "revokeCommit" /\ arg'[q] = arg[q]
    OBVIOUS
  <2>2. Agrees(s)
    OBVIOUS
  <2>3. CASE session'[s] = session[s]
    BY <2>1, <2>3 DEF Inv, RevokeInv, At, OpenSessions
  <2> QED BY <2>1, <2>2, <2>3 DEF Agrees, At
<1>3. RevocationComplete'
  <2> SUFFICES ASSUME NEW s \in Sessions, session'[s] # NoRow, session'[s].open,
                      ~session'[s].overlap
               PROVE  session'[s].since = revocations'[session'[s].user]
    BY DEF RevocationComplete
  <2>1. Agrees(s)
    OBVIOUS
  <2>2. CASE session'[s] = session[s]
    BY <2>1, <2>2 DEF Inv, RevocationComplete, Agrees
  <2> QED BY <2>1, <2>2 DEF Agrees
<1> QED BY <1>1, <1>2, <1>3 DEF Inv

\* The session rows a step makes.
LEMMA SessionRows ==
    /\ \A u \in Users, n \in Nat, b \in BOOLEAN :
           /\ NewSession(u, n, b) \in SessionRow
           /\ NewSession(u, n, b) # NoRow
           /\ NewSession(u, n, b).user = u /\ NewSession(u, n, b).since = n
           /\ NewSession(u, n, b).overlap = b
    /\ \A row \in SessionRow :
           /\ Closed(row) \in SessionRow /\ Closed(row) # NoRow
           /\ Closed(row).user = row.user /\ ~Closed(row).open
<1>1. \A u \in Users, n \in Nat, b \in BOOLEAN :
          /\ NewSession(u, n, b) \in SessionRow
          /\ NewSession(u, n, b).user = u /\ NewSession(u, n, b).since = n
          /\ NewSession(u, n, b).overlap = b
  BY DEF NewSession, SessionRow
<1>2. \A row \in SessionRow :
          /\ Closed(row) \in SessionRow
          /\ Closed(row).user = row.user /\ ~Closed(row).open
  BY DEF Closed, SessionRow
<1> QED BY <1>1, <1>2, NoRowDistinct

\* The rows that others have locked are there.
LEMMA LockedRows ==
    ASSUME Inv, NEW q \in Requests
    PROVE  /\ At(q, "resetCommit") =>
                  \A t \in arg[q].marked : t \in Tokens /\ token[t] # NoRow
           /\ At(q, "completeCommit") =>
                  arg[q].token \in Tokens /\ token[arg[q].token] # NoRow
                  /\ token[arg[q].token].open
           /\ At(q, "revokeCommit") =>
                  \A s \in arg[q].ended : /\ s \in Sessions /\ session[s] # NoRow
                                          /\ session[s].user = arg[q].user
           /\ At(q, "acceptCommit") \/ At(q, "recoverCommit")
                  => arg[q].user \in Users
<1>1. arg[q].marked \subseteq Tokens /\ arg[q].ended \subseteq Sessions
  BY DEF Inv, TypeOK, Args
<1> QED BY <1>1 DEF Inv, LocksInv

\* login and the sessions that end one by one.
LEMMA LoginCommitInv ==
    ASSUME Inv, NEW r \in Requests, NEW s \in Sessions, LoginCommit(r, s)
    PROVE  Inv'
<1> DEFINE u == arg[r].user
           row == NewSession(u, revocations[u], Revoking(u))
           others == Requests \ {r}
<1>0. /\ pc' \in [Requests -> Steps] /\ arg' \in [Requests -> Args]
      /\ pc'[r] = "idle" /\ \A q \in others : pc'[q] = pc[q] /\ arg'[q] = arg[q]
  BY EndFrame DEF LoginCommit, Inv
<1>1. /\ u \in Existing /\ u \in Users /\ session[s] = NoRow /\ pc[r] = "loginCommit"
      /\ session' = [session EXCEPT ![s] = row]
      /\ UNCHANGED <<user, invitation, code, token, smtp, setups, revocations,
                     twice, accepted>>
  BY DEF LoginCommit, Existing, history, At
<1>2. /\ row \in SessionRow /\ row # NoRow /\ row.user = u
      /\ row.since = revocations[u] /\ row.overlap = Revoking(u)
  <2>1. Revoking(u) \in BOOLEAN
    BY DEF Revoking
  <2> QED BY <1>1, <2>1, SessionRows DEF Inv, TypeOK
<1> HIDE DEF row
<1>3. /\ session' \in [Sessions -> SessionRow \cup {NoRow}] /\ session'[s] = row
      /\ \A x \in Sessions \ {s} : session'[x] = session[x]
  BY <1>1, <1>2 DEF Inv, TypeOK
<1>4. TypeOK'
  BY <1>0, <1>1, <1>3 DEF Inv, TypeOK, Steps
<1>5. Respects(others)
  <2>1. \A q \in others : At(q, "revokeCommit") => s \notin arg[q].ended
    BY <1>1, LockedRows
  <2> QED BY <1>1, <1>3, <2>1, LockedRows DEF Respects
<1>6. \A x \in Sessions : Agrees(x)
  <2>1. Agrees(s)
    BY <1>1, <1>2, <1>3 DEF Agrees, Revoking, At
  <2> QED BY <1>1, <1>3, <2>1 DEF Agrees
<1>7. NoOrphans' /\ SingleUse'
  BY <1>1, <1>2, <1>3 DEF Inv, NoOrphans, SingleUse, Existing
<1> HIDE DEF u
<1> QED BY <1>0, <1>4, <1>5, <1>6, <1>7, WritesInv

LEMMA SessionEndsInv ==
    ASSUME Inv, UNCHANGED <<user, invitation, code, token, smtp, pc, arg, history>>,
           session' \in [Sessions -> SessionRow \cup {NoRow}],
           \A s \in Sessions :
               \/ session'[s] = session[s]
               \/ session'[s] = NoRow /\ ~SessionLocked(s)
               \/ /\ session[s] # NoRow /\ session'[s] # NoRow /\ ~session'[s].open
                  /\ session'[s].user = session[s].user
    PROVE  Inv'
<1>1. TypeOK'
  BY DEF Inv, TypeOK, history
<1>2. Respects(Requests)
  <2>1. \A q \in Requests : At(q, "revokeCommit") =>
            \A s \in arg[q].ended : SessionLocked(s)
    BY DEF SessionLocked
  <2> QED BY <2>1, LockedRows DEF Respects
<1>3. \A s \in Sessions : Agrees(s)
  BY DEF Agrees, history
<1>4. NoOrphans' /\ SingleUse'
  BY DEF Inv, NoOrphans, SingleUse, Existing, history
<1> QED BY <1>1, <1>2, <1>3, <1>4, WritesInv

LEMMA SessionsEnd ==
    ASSUME Inv,
           \/ \E s \in Sessions : Logout(s) \/ ExpireSession(s)
           \/ \E expired \in SUBSET Sessions : Cleanup(expired)
    PROVE  Inv'
<1>0. session \in [Sessions -> SessionRow \cup {NoRow}]
  BY DEF Inv, TypeOK
<1>1. ASSUME NEW s \in Sessions, Logout(s) \/ ExpireSession(s) PROVE Inv'
  <2>1. /\ session[s] # NoRow /\ session[s] \in SessionRow
        /\ session' = [session EXCEPT ![s] = Closed(session[s])]
        /\ UNCHANGED <<user, invitation, code, token, smtp, pc, arg, history>>
    BY <1>0, <1>1 DEF Logout, ExpireSession
  <2>2. /\ session' \in [Sessions -> SessionRow \cup {NoRow}]
        /\ session'[s] # NoRow /\ ~session'[s].open
        /\ session'[s].user = session[s].user
        /\ \A x \in Sessions \ {s} : session'[x] = session[x]
    BY <1>0, <2>1, SessionRows
  <2> QED BY <2>1, <2>2, SessionEndsInv
<1>2. ASSUME NEW expired \in SUBSET Sessions, Cleanup(expired) PROVE Inv'
  <2>1. /\ session' \in [Sessions -> SessionRow \cup {NoRow}]
        /\ \A s \in Sessions :
               \/ session'[s] = session[s]
               \/ session'[s] = NoRow /\ ~SessionLocked(s)
        /\ UNCHANGED <<user, invitation, code, token, smtp, pc, arg, history>>
    BY <1>0, <1>2 DEF Cleanup
  <2> QED BY <2>1, SessionEndsInv
<1> QED BY <1>1, <1>2

\* First-run setup begins a session of a user that nobody refers to.
LEMMA CreateOwnerInv ==
    ASSUME Inv, NEW r \in Requests, NEW u \in Users, NEW n \in Names,
           NEW s \in Sessions, CreateOwnerCommit(r, u, n, s)
    PROVE  Inv'
<1> DEFINE row == NewSession(u, revocations[u], FALSE)
           others == Requests \ {r}
<1>0. /\ pc' \in [Requests -> Steps] /\ arg' \in [Requests -> Args]
      /\ pc'[r] = "idle" /\ \A q \in others : pc'[q] = pc[q] /\ arg'[q] = arg[q]
  BY EndFrame DEF CreateOwnerCommit, Inv
<1>1. /\ user[u] = NoRow /\ \A q \in Requests : arg[q].user # u
      /\ session[s] = NoRow /\ code' = [code EXCEPT ![u] = 1]
      /\ session' = [session EXCEPT ![s] = row] /\ setups' = setups + 1
      /\ UNCHANGED <<invitation, token, smtp, revocations, twice, accepted>>
  BY DEF CreateOwnerCommit, FreshUser
<1>2. /\ row \in SessionRow /\ row # NoRow /\ row.user = u
      /\ row.since = revocations[u]
  <2>1. revocations[u] \in Nat /\ FALSE \in BOOLEAN
    BY DEF Inv, TypeOK
  <2> QED BY <2>1, SessionRows
<1> HIDE DEF row
<1>3. PICK owner \in UserRow : user' = [user EXCEPT ![u] = owner]
  BY DEF CreateOwnerCommit, UserRow, Roles
<1>4. /\ session' \in [Sessions -> SessionRow \cup {NoRow}] /\ session'[s] = row
      /\ \A x \in Sessions \ {s} : session'[x] = session[x]
      /\ user' \in [Users -> UserRow \cup {NoRow}] /\ user'[u] = owner
      /\ \A x \in Users \ {u} : user'[x] = user[x]
      /\ code' \in [Users -> Nat] /\ \A x \in Users \ {u} : code'[x] = code[x]
  BY <1>1, <1>2, <1>3 DEF Inv, TypeOK
<1>5. TypeOK'
  BY <1>0, <1>1, <1>4 DEF Inv, TypeOK, Steps
<1>6. Respects(others)
  <2>1. \A q \in others : At(q, "revokeCommit") => s \notin arg[q].ended
    BY <1>1, LockedRows
  <2> QED BY <1>1, <1>4, <2>1, LockedRows DEF Respects
<1>7. \A x \in Sessions : Agrees(x)
  <2>1. Agrees(s)
    BY <1>1, <1>2, <1>4 DEF Agrees
  <2> QED BY <1>1, <1>4, <2>1 DEF Agrees
<1>8. Existing' = Existing \cup {u}
  BY <1>3, <1>4, NoRowDistinct DEF Existing
<1>9. NoOrphans' /\ SingleUse'
  BY <1>1, <1>2, <1>4, <1>8 DEF Inv, NoOrphans, SingleUse
<1> QED BY <1>0, <1>5, <1>6, <1>7, <1>9, WritesInv

\* An UPDATE that ends all sessions of a user.
LEMMA RevokedRows ==
    ASSUME Inv, NEW u
    PROVE  /\ Revoked(u) \in [Sessions -> SessionRow \cup {NoRow}]
           /\ \A s \in Sessions :
                  IF session[s] # NoRow /\ session[s].user = u
                  THEN /\ Revoked(u)[s] # NoRow /\ ~Revoked(u)[s].open
                       /\ Revoked(u)[s].user = u
                  ELSE Revoked(u)[s] = session[s]
<1>1. session \in [Sessions -> SessionRow \cup {NoRow}]
  BY DEF Inv, TypeOK
<1>2. \A s \in Sessions : session[s] # NoRow =>
          /\ Closed(session[s]) \in SessionRow /\ Closed(session[s]) # NoRow
          /\ ~Closed(session[s]).open /\ Closed(session[s]).user = session[s].user
  BY <1>1, SessionRows
<1> QED BY <1>1, <1>2 DEF Revoked

\* Recovery begins a session in the transaction that ends the others.
LEMMA RecoverCommitInv ==
    ASSUME Inv, NEW r \in Requests, NEW s \in Sessions, RecoverCommit(r, s)
    PROVE  Inv'
<1> DEFINE u == arg[r].user
           row == NewSession(u, revocations[u] + 1, Revoking(u))
           others == Requests \ {r}
<1>0. /\ pc' \in [Requests -> Steps] /\ arg' \in [Requests -> Args]
      /\ pc'[r] = "idle" /\ \A q \in others : pc'[q] = pc[q] /\ arg'[q] = arg[q]
  BY EndFrame DEF RecoverCommit, Inv
<1>1. /\ u \in Existing /\ u \in Users /\ session[s] = NoRow
      /\ pc[r] = "recoverCommit"
      /\ revocations' = [revocations EXCEPT ![u] = revocations[u] + 1]
      /\ session' = [Revoked(u) EXCEPT ![s] = row]
      /\ code' = [code EXCEPT ![u] = code[u] + 1]
      /\ twice' = IF code[u] = arg[r].seen THEN twice ELSE twice \cup {"recovery"}
      /\ UNCHANGED <<user, invitation, token, smtp, setups, accepted>>
  BY DEF RecoverCommit, Existing, At
<1>2. revocations[u] \in Nat /\ code[u] \in Nat /\ code[u] = arg[r].seen
  BY <1>1 DEF Inv, TypeOK, LocksInv, At
<1>3. /\ row \in SessionRow /\ row # NoRow /\ row.user = u
      /\ row.since = revocations[u] + 1 /\ row.overlap = Revoking(u)
  <2>1. Revoking(u) \in BOOLEAN /\ revocations[u] + 1 \in Nat
    BY <1>2 DEF Revoking
  <2> QED BY <1>1, <2>1, SessionRows
<1> HIDE DEF row
<1>4. /\ session' \in [Sessions -> SessionRow \cup {NoRow}] /\ session'[s] = row
      /\ \A x \in Sessions \ {s} : session'[x] = Revoked(u)[x]
  BY <1>1, <1>3, RevokedRows
<1>5. /\ revocations' \in [Users -> Nat] /\ code' \in [Users -> Nat]
      /\ revocations'[u] = revocations[u] + 1
      /\ \A x \in Users \ {u} : /\ revocations'[x] = revocations[x]
                                /\ code'[x] = code[x]
  BY <1>1, <1>2 DEF Inv, TypeOK
<1>6. TypeOK'
  BY <1>0, <1>1, <1>4, <1>5 DEF Inv, TypeOK, Steps
<1>7. Respects(others)
  <2>1. \A q \in others : At(q, "revokeCommit") => s \notin arg[q].ended
    BY <1>1, LockedRows
  <2>2. \A q \in others : At(q, "recoverCommit") => arg[q].user # u
    BY <1>1 DEF Inv, LocksInv, At
  <2> HIDE DEF u
  <2> QED BY <1>1, <1>4, <1>5, <2>1, <2>2, LockedRows, RevokedRows DEF Respects
<1>8. \A x \in Sessions : Agrees(x)
  <2>1. Agrees(s)
    BY <1>3, <1>4, <1>5 DEF Agrees, Revoking, At
  <2>2. ASSUME NEW x \in Sessions \ {s} PROVE Agrees(x)
    <3>1. CASE session[x] # NoRow /\ session[x].user = u
      BY <1>4, <3>1, RevokedRows DEF Agrees
    <3>2. CASE session[x] # NoRow /\ session[x].user # u
      <4>1. session[x].user \in Users /\ session'[x] = session[x]
        BY <1>4, <3>2, RevokedRows DEF Inv, TypeOK, SessionRow
      <4> QED BY <1>5, <3>2, <4>1 DEF Agrees
    <3>3. CASE session[x] = NoRow
      BY <1>4, <3>3, RevokedRows DEF Agrees
    <3> QED BY <3>1, <3>2, <3>3
  <2> QED BY <2>1, <2>2
<1>9. NoOrphans'
  <2>1. \A x \in Sessions : session'[x] # NoRow => session'[x].user \in Existing
    BY <1>1, <1>3, <1>4, RevokedRows DEF Inv, NoOrphans
  <2>2. Existing' = Existing /\ \A x \in Users \ Existing : code'[x] = code[x]
    BY <1>1, <1>5 DEF Existing
  <2> QED BY <1>1, <2>1, <2>2 DEF Inv, NoOrphans
<1>10. SingleUse'
  BY <1>1, <1>2 DEF Inv, SingleUse
<1> HIDE DEF u
<1> QED BY <1>0, <1>6, <1>7, <1>8, <1>9, <1>10, WritesInv

LEMMA RevokeAllRows ==
    ASSUME Inv, NEW u \in Users, RevokeAll(u)
    PROVE  /\ session' \in [Sessions -> SessionRow \cup {NoRow}]
           /\ revocations' \in [Users -> Nat]
           /\ \A s \in Sessions : Agrees(s)
           /\ \A s \in Sessions : session[s] = NoRow <=> session'[s] = NoRow
           /\ \A s \in Sessions : session[s] # NoRow =>
                  session'[s].user = session[s].user
<1>1. /\ session' = Revoked(u)
      /\ revocations' = [revocations EXCEPT ![u] = revocations[u] + 1]
  BY DEF RevokeAll
<1>2. /\ revocations' \in [Users -> Nat]
      /\ \A x \in Users \ {u} : revocations'[x] = revocations[x]
  BY <1>1 DEF Inv, TypeOK
<1>3. ASSUME NEW s \in Sessions PROVE Agrees(s)
  <2>1. CASE session[s] # NoRow /\ session[s].user # u
    <3>1. session[s].user \in Users /\ session'[s] = session[s]
      BY <1>1, <2>1, RevokedRows DEF Inv, TypeOK, SessionRow
    <3> QED BY <1>2, <2>1, <3>1 DEF Agrees
  <2> QED BY <1>1, <2>1, RevokedRows DEF Agrees
<1> QED BY <1>1, <1>2, <1>3, RevokedRows

\* Deleting users, of which a request may insert a new one: what refers to
\* them is gone with them and was locked by nobody.
LEMMA DeletionInv ==
    ASSUME Inv, NEW r \in Requests, NEW gone \in SUBSET Existing,
           NEW fresh \in SUBSET Users,
           pc' \in [Requests -> Steps], arg' \in [Requests -> Args],
           pc'[r] \in {"idle", "mail"},
           \A q \in Requests \ {r} : pc'[q] = pc[q] /\ arg'[q] = arg[q],
           \A x \in fresh : user[x] = NoRow /\ \A q \in Requests : arg[q].user # x,
           user' \in [Users -> UserRow \cup {NoRow}],
           \A x \in Users : /\ x \in fresh => user'[x] # NoRow
                            /\ x \in gone => user'[x] = NoRow
                            /\ x \notin fresh \cup gone => user'[x] = user[x],
           invitation' \in [Users -> {"none", "open", "closed"}],
           \A x \in Users : /\ x \in gone => invitation'[x] = "none"
                            /\ x \notin fresh \cup gone =>
                                   invitation'[x] = invitation[x],
           Cascade(gone), Deletable(gone), UNCHANGED <<smtp, setups, twice, accepted>>
    PROVE  Inv'
<1> DEFINE others == Requests \ {r}
<1>1. /\ code' \in [Users -> Nat]
      /\ \A x \in Users : code'[x] = IF x \in gone THEN 0 ELSE code[x]
      /\ revocations' \in [Users -> Nat]
      /\ \A x \in Users \ gone : revocations'[x] = revocations[x]
  BY DEF Inv, TypeOK, Cascade
<1>2. /\ token' \in [Tokens -> TokenRow \cup {NoRow}]
      /\ \A t \in Tokens :
             token'[t] = IF token[t] # NoRow /\ token[t].user \in gone
                         THEN NoRow ELSE token[t]
  BY DEF Inv, TypeOK, Cascade
<1>3. /\ session' \in [Sessions -> SessionRow \cup {NoRow}]
      /\ \A s \in Sessions :
             session'[s] = IF session[s] # NoRow /\ session[s].user \in gone
                           THEN NoRow ELSE session[s]
  BY DEF Inv, TypeOK, Cascade
<1>4. TypeOK'
  BY <1>1, <1>2, <1>3 DEF Inv, TypeOK, Steps
<1>5. Respects(others)
  <2> SUFFICES ASSUME NEW q \in others
               PROVE  Respects({q})
    BY DEF Respects
  <2>1. CASE At(q, "acceptCommit")
    <3>1. arg[q].user \in Users \ (gone \cup fresh)
      BY <2>1, LockedRows DEF Deletable, InvitationLocked
    <3> QED BY <2>1, <3>1 DEF Respects, At
  <2>2. CASE At(q, "recoverCommit")
    <3>1. arg[q].user \in Users \ gone
      BY <2>2, LockedRows DEF Deletable, UserLocked
    <3> QED BY <1>1, <2>2, <3>1 DEF Respects, At
  <2>3. CASE At(q, "completeCommit")
    <3>1. /\ arg[q].token \in Tokens /\ token[arg[q].token] # NoRow
          /\ TokenLocked(arg[q].token)
      BY <2>3, LockedRows DEF TokenLocked
    <3>2. token[arg[q].token].user \notin gone
      BY <3>1 DEF Deletable
    <3> QED BY <1>2, <2>3, <3>1, <3>2 DEF Respects, At
  <2>4. CASE At(q, "resetCommit")
    <3>1. \A t \in arg[q].marked :
              t \in Tokens /\ token[t] # NoRow /\ TokenLocked(t)
      BY <2>4, LockedRows DEF TokenLocked
    <3>2. \A t \in arg[q].marked : token[t].user \notin gone
      BY <3>1 DEF Deletable
    <3> QED BY <1>2, <2>4, <3>1, <3>2 DEF Respects, At
  <2>5. CASE At(q, "revokeCommit")
    <3>1. \A s \in arg[q].ended : /\ s \in Sessions /\ session[s] # NoRow
                                  /\ session[s].user = arg[q].user
                                  /\ SessionLocked(s)
      BY <2>5, LockedRows DEF SessionLocked
    <3>2. \A s \in arg[q].ended : session[s].user \notin gone
      BY <3>1 DEF Deletable
    <3> QED BY <1>3, <2>5, <3>1, <3>2 DEF Respects, At
  <2> QED BY <2>1, <2>2, <2>3, <2>4, <2>5 DEF Respects
<1>6. \A s \in Sessions : Agrees(s)
  <2>1. \A s \in Sessions : session[s] # NoRow => session[s].user \in Users
    BY DEF Inv, TypeOK, SessionRow
  <2> QED BY <1>1, <1>3, <2>1 DEF Agrees
<1>7. Existing \ gone \subseteq Existing'
      /\ \A x \in Users \ Existing' : x \in gone \/ x \in Users \ Existing
  BY DEF Existing
<1>8. NoOrphans'
  <2>1. \A s \in Sessions : session'[s] # NoRow => session'[s].user \in Existing'
    BY <1>3, <1>7 DEF Inv, NoOrphans
  <2>2. \A t \in Tokens : token'[t] # NoRow => token'[t].user \in Existing'
    BY <1>2, <1>7 DEF Inv, NoOrphans
  <2>3. \A x \in Users \ Existing' : x \notin fresh
    BY DEF Existing
  <2>4. \A x \in Users \ Existing' : invitation'[x] = "none" /\ code'[x] = 0
    BY <1>1, <1>7, <2>3 DEF Inv, NoOrphans
  <2> QED BY <2>1, <2>2, <2>4 DEF NoOrphans
<1>9. SingleUse'
  BY DEF Inv, SingleUse
<1> QED BY <1>4, <1>5, <1>6, <1>8, <1>9, WritesInv

LEMMA InviteCommitInv ==
    ASSUME Inv, NEW r \in Requests, NEW u \in Users, InviteCommit(r, u)
    PROVE  Inv'
<1> DEFINE gone == arg[r].pending \cap Existing
           a == [NoArg EXCEPT !.user = u]
<1>1. a \in Args
  BY NoArgType DEF Args
<1>2. /\ pc' \in [Requests -> Steps] /\ arg' \in [Requests -> Args]
      /\ pc'[r] = "mail"
      /\ \A q \in Requests \ {r} : pc'[q] = pc[q] /\ arg'[q] = arg[q]
  <2>1. TypeOK /\ Goto(r, "mail", a) /\ "mail" \in Steps
    BY DEF InviteCommit, Inv, Steps, OwnerSteps
  <2> QED BY <1>1, <2>1, GotoFrame
<1>3. PICK n \in Names : arg[r].names = {n}
  BY DEF InviteCommit, Inv, LocksInv
<1>4. PICK row \in UserRow :
          user' = [x \in Users |->
                      IF x = u THEN row
                      ELSE IF x \in gone THEN NoRow ELSE user[x]]
  BY <1>3 DEF InviteCommit, UserRow, Roles
<1>5. user[u] = NoRow /\ (\A q \in Requests : arg[q].user # u) /\ u \notin gone
  BY DEF InviteCommit, FreshUser, Existing
<1>6. /\ user' \in [Users -> UserRow \cup {NoRow}]
      /\ user'[u] # NoRow
      /\ \A x \in Users \ {u} : user'[x] = IF x \in gone THEN NoRow ELSE user[x]
  BY <1>4, NoRowDistinct DEF Inv, TypeOK
<1>7. /\ invitation' \in [Users -> {"none", "open", "closed"}]
      /\ \A x \in Users \ {u} : invitation'[x] = IF x \in gone THEN "none"
                                                 ELSE invitation[x]
  BY DEF InviteCommit, Inv, TypeOK
<1>8. Cascade(gone) /\ Deletable(gone) /\ UNCHANGED <<smtp, setups, twice, accepted>>
  BY DEF InviteCommit
<1> DEFINE fresh == {u}
<1>9. /\ gone \in SUBSET Existing /\ fresh \in SUBSET Users
      /\ \A x \in fresh : user[x] = NoRow /\ \A q \in Requests : arg[q].user # x
      /\ \A x \in Users : /\ x \in fresh => user'[x] # NoRow
                          /\ x \in gone => user'[x] = NoRow
                          /\ x \notin fresh \cup gone => user'[x] = user[x]
      /\ \A x \in Users : /\ x \in gone => invitation'[x] = "none"
                          /\ x \notin fresh \cup gone =>
                                 invitation'[x] = invitation[x]
  BY <1>5, <1>6, <1>7
<1> HIDE DEF gone, fresh, a
<1> QED BY <1>2, <1>6, <1>7, <1>8, <1>9, DeletionInv

LEMMA CleanupCommitInv ==
    ASSUME Inv, NEW r \in Requests, CleanupCommit(r)
    PROVE  Inv'
<1> DEFINE gone == {arg[r].user} \cap Existing
<1>1. /\ pc' \in [Requests -> Steps] /\ arg' \in [Requests -> Args]
      /\ pc'[r] = "idle"
      /\ \A q \in Requests \ {r} : pc'[q] = pc[q] /\ arg'[q] = arg[q]
  BY EndFrame DEF CleanupCommit, Inv
<1>2. /\ user' \in [Users -> UserRow \cup {NoRow}]
      /\ \A x \in Users : user'[x] = IF x \in gone THEN NoRow ELSE user[x]
      /\ invitation' \in [Users -> {"none", "open", "closed"}]
      /\ \A x \in Users : invitation'[x] = IF x \in gone THEN "none"
                                           ELSE invitation[x]
  BY DEF CleanupCommit, Inv, TypeOK
<1>3. Cascade(gone) /\ Deletable(gone) /\ UNCHANGED <<smtp, setups, twice, accepted>>
  BY DEF CleanupCommit
<1>4. gone \in SUBSET Existing /\ {} \in SUBSET Users
  OBVIOUS
<1> HIDE DEF gone
<1> QED BY <1>1, <1>2, <1>3, <1>4, DeletionInv

\* Changes of a user row and of the settings touch no lock.
LEMMA UserWritesInv ==
    ASSUME Inv, NEW r \in Requests, End(r), NEW row \in [Users -> UserRow \cup {NoRow}],
           user' = row, \A x \in Users : row[x] = NoRow <=> user[x] = NoRow,
           smtp' \in BOOLEAN,
           \/ UNCHANGED <<session, revocations>>
           \/ \E u \in Users : RevokeAll(u),
           UNCHANGED <<invitation, code, token, setups, twice, accepted>>
    PROVE  Inv'
<1> DEFINE others == Requests \ {r}
<1>0. /\ pc' \in [Requests -> Steps] /\ arg' \in [Requests -> Args]
      /\ pc'[r] = "idle" /\ \A q \in others : pc'[q] = pc[q] /\ arg'[q] = arg[q]
  BY EndFrame DEF Inv
<1>1. /\ session' \in [Sessions -> SessionRow \cup {NoRow}]
      /\ revocations' \in [Users -> Nat]
      /\ \A s \in Sessions : Agrees(s)
      /\ \A s \in Sessions : session[s] = NoRow <=> session'[s] = NoRow
      /\ \A s \in Sessions : session[s] # NoRow =>
             session'[s].user = session[s].user
  <2>1. CASE UNCHANGED <<session, revocations>>
    BY <2>1 DEF Inv, TypeOK, Agrees
  <2> QED BY <2>1, RevokeAllRows
<1>2. TypeOK'
  BY <1>0, <1>1 DEF Inv, TypeOK, Steps
<1>3. Respects(others)
  BY <1>1, LockedRows DEF Respects
<1>4. Existing' = Existing
  BY DEF Existing
<1>5. NoOrphans' /\ SingleUse'
  BY <1>1, <1>4 DEF Inv, NoOrphans, SingleUse
<1> QED BY <1>0, <1>1, <1>2, <1>3, <1>5, WritesInv

LEMMA SaveSmtpInv ==
    ASSUME Inv, NEW r \in Requests, NEW enabled \in BOOLEAN, SaveSmtp(r, enabled)
    PROVE  Inv'
<1>1. user \in [Users -> UserRow \cup {NoRow}]
  BY DEF Inv, TypeOK
<1>2. /\ End(r) /\ user' = user /\ smtp' \in BOOLEAN
      /\ UNCHANGED <<session, revocations>>
      /\ UNCHANGED <<invitation, code, token, setups, twice, accepted>>
  BY DEF SaveSmtp, history
<1> QED BY <1>1, <1>2, UserWritesInv

\* What an update and an acceptance write into a row leaves a row.
LEMMA UserRows ==
    ASSUME Inv, NEW u \in Existing
    PROVE  /\ user[u] \in UserRow
           /\ \A row \in UserRow :
                  /\ [user EXCEPT ![u] = row] \in [Users -> UserRow \cup {NoRow}]
                  /\ \A x \in Users : [user EXCEPT ![u] = row][x] = NoRow
                                          <=> user[x] = NoRow
BY NoRowDistinct DEF Inv, TypeOK, Existing

LEMMA UpdateCommitInv ==
    ASSUME Inv, NEW r \in Requests, UpdateCommit(r)
    PROVE  Inv'
<1> DEFINE u == arg[r].user
           old == arg[r].loaded
           row == [user[u] EXCEPT
                     !.role = IF arg[r].role # old.role THEN arg[r].role ELSE @,
                     !.enabled = IF arg[r].enabled # old.enabled
                                 THEN arg[r].enabled ELSE @]
<1>1. u \in Existing /\ u \in Users /\ user[u] \in UserRow
  BY UserRows DEF UpdateCommit, Existing
<1>2. arg[r].role \in Roles /\ arg[r].enabled \in BOOLEAN
  BY DEF Inv, TypeOK, Args
<1>3. row \in UserRow
  BY <1>1, <1>2 DEF UserRow
<1>4. user' = [user EXCEPT ![u] = row]
  BY <1>1 DEF UpdateCommit, Inv, TypeOK
<1>5. /\ End(r) /\ smtp' \in BOOLEAN
      /\ \/ UNCHANGED <<session, revocations>>
         \/ RevokeAll(u)
      /\ UNCHANGED <<invitation, code, token, setups, twice, accepted>>
  BY DEF UpdateCommit, Inv, TypeOK
<1> HIDE DEF row, u
<1> QED BY <1>1, <1>3, <1>4, <1>5, UserRows, UserWritesInv

\* The sessions that an explicit revocation has not found are newer.
LEMMA RevokeCommitInv ==
    ASSUME Inv, NEW r \in Requests, RevokeCommit(r)
    PROVE  Inv'
<1> DEFINE u == arg[r].user
           others == Requests \ {r}
<1>0. /\ pc' \in [Requests -> Steps] /\ arg' \in [Requests -> Args]
      /\ pc'[r] = "idle" /\ \A q \in others : pc'[q] = pc[q] /\ arg'[q] = arg[q]
  BY EndFrame DEF RevokeCommit, Inv
<1>1. /\ revocations' = [revocations EXCEPT ![u] = revocations[u] + 1]
      /\ session' = [s \in Sessions |-> IF s \in arg[r].ended
                                        THEN Closed(session[s]) ELSE session[s]]
      /\ UNCHANGED <<user, invitation, code, token, smtp, setups, twice, accepted>>
      /\ At(r, "revokeCommit")
  BY DEF RevokeCommit
<1>2. \A s \in arg[r].ended :
          /\ s \in Sessions /\ session[s] \in SessionRow
          /\ session[s] # NoRow /\ session[s].user = u
  BY <1>1, LockedRows DEF Inv, TypeOK
<1>3. /\ session' \in [Sessions -> SessionRow \cup {NoRow}]
      /\ \A s \in Sessions :
             IF s \in arg[r].ended
             THEN /\ session'[s] # NoRow /\ ~session'[s].open
                  /\ session'[s].user = session[s].user
             ELSE session'[s] = session[s]
  BY <1>1, <1>2, SessionRows DEF Inv, TypeOK
<1>4. /\ revocations' \in [Users -> Nat]
      /\ \A x \in Users \ {u} : revocations'[x] = revocations[x]
  <2>1. revocations \in [Users -> Nat]
    BY DEF Inv, TypeOK
  <2>2. CASE u \in Users
    <3>1. revocations[u] + 1 \in Nat
      BY <2>1, <2>2
    <3> QED BY <1>1, <2>1, <3>1
  <2>3. CASE u \notin Users
    BY <1>1, <2>1, <2>3
  <2> QED BY <2>2, <2>3
<1>5. TypeOK'
  BY <1>0, <1>1, <1>3, <1>4 DEF Inv, TypeOK, Steps
<1>6. Respects(others)
  BY <1>1, <1>3, LockedRows DEF Respects
<1>7. ASSUME NEW s \in Sessions PROVE Agrees(s)
  <2>1. CASE s \in arg[r].ended \/ session[s] = NoRow
    BY <1>3, <2>1 DEF Agrees
  <2>2. CASE s \notin arg[r].ended /\ session[s] # NoRow /\ session[s].user = u
    <3>1. session'[s] = session[s] /\ (session[s].open => session[s].overlap)
      BY <1>1, <1>3, <2>2 DEF Inv, RevokeInv, OpenSessions
    <3> QED BY <3>1 DEF Agrees
  <2>3. CASE s \notin arg[r].ended /\ session[s] # NoRow /\ session[s].user # u
    <3>1. session'[s] = session[s] /\ session[s].user \in Users
      BY <1>3, <2>3 DEF Inv, TypeOK, SessionRow
    <3> QED BY <1>4, <2>3, <3>1 DEF Agrees
  <2> QED BY <2>1, <2>2, <2>3
<1>8. Existing' = Existing
  BY <1>1 DEF Existing
<1>9. NoOrphans' /\ SingleUse'
  BY <1>1, <1>2, <1>3, <1>8 DEF Inv, NoOrphans, SingleUse
<1> HIDE DEF u
<1> QED BY <1>0, <1>5, <1>6, <1>7, <1>9, WritesInv

\* Accepting an invitation closes it, and nobody else has it locked.
LEMMA AcceptCommitInv ==
    ASSUME Inv, NEW r \in Requests, AcceptCommit(r)
    PROVE  Inv'
<1> DEFINE u == arg[r].user
           row == [user[u] EXCEPT !.password = TRUE, !.enabled = TRUE]
           others == Requests \ {r}
<1>0. /\ pc' \in [Requests -> Steps] /\ arg' \in [Requests -> Args]
      /\ pc'[r] = "idle" /\ \A q \in others : pc'[q] = pc[q] /\ arg'[q] = arg[q]
  BY EndFrame DEF AcceptCommit, Inv
<1>1. /\ u \in Existing /\ u \in Users /\ user[u] \in UserRow
      /\ invitation[u] = "open" /\ At(r, "acceptCommit")
  BY UserRows DEF AcceptCommit, Existing, Inv, LocksInv
<1>2. row \in UserRow
  BY <1>1 DEF UserRow
<1>3. user' = [user EXCEPT ![u] = row]
  BY <1>1 DEF AcceptCommit, Inv, TypeOK
<1>4. /\ invitation' = [invitation EXCEPT ![u] = "closed"]
      /\ accepted' = IF Doomed(u) THEN accepted ELSE accepted \cup {u}
      /\ UNCHANGED <<code, token, session, smtp, setups, revocations, twice>>
  BY <1>1 DEF AcceptCommit
<1> HIDE DEF row
<1>5. /\ invitation' \in [Users -> {"none", "open", "closed"}]
      /\ \A x \in Users \ {u} : invitation'[x] = invitation[x]
      /\ user' \in [Users -> UserRow \cup {NoRow}]
      /\ \A x \in Users : user'[x] = NoRow <=> user[x] = NoRow
  BY <1>1, <1>2, <1>3, <1>4, UserRows DEF Inv, TypeOK
<1>6. TypeOK'
  <2>1. accepted' \subseteq Users
    BY <1>1, <1>4 DEF Inv, TypeOK
  <2> HIDE DEF u
  <2> QED BY <1>0, <1>4, <1>5, <2>1 DEF Inv, TypeOK, Steps
<1>7. Respects(others)
  <2>1. \A q \in others : At(q, "acceptCommit") => arg[q].user \in Users \ {u}
    BY <1>1, LockedRows DEF Inv, LocksInv
  <2> HIDE DEF u
  <2> QED BY <1>4, <1>5, <2>1, LockedRows DEF Respects
<1>8. \A s \in Sessions : Agrees(s)
  BY <1>4 DEF Agrees
<1>9. Existing' = Existing
  BY <1>5 DEF Existing
<1>10. NoOrphans' /\ SingleUse'
  BY <1>1, <1>4, <1>5, <1>9 DEF Inv, NoOrphans, SingleUse
<1> HIDE DEF u
<1> QED BY <1>0, <1>6, <1>7, <1>8, <1>10, WritesInv

\* A reset token that a request has locked keeps its row; the tokens that a
\* new one replaces are locked by its own request alone.
LEMMA ResetCommitInv ==
    ASSUME Inv, NEW r \in Requests, NEW k \in Tokens, ResetCommit(r, k)
    PROVE  Inv'
<1> DEFINE others == Requests \ {r}
           marked == arg[r].marked
<1>0. /\ pc' \in [Requests -> Steps] /\ arg' \in [Requests -> Args]
      /\ pc'[r] = "idle" /\ \A q \in others : pc'[q] = pc[q] /\ arg'[q] = arg[q]
  BY EndFrame DEF ResetCommit, Inv
<1>1. /\ At(r, "resetCommit") /\ arg[r].user \in Existing /\ arg[r].user \in Users
      /\ token[k] = NoRow
      /\ UNCHANGED <<user, invitation, code, session, smtp, setups, revocations,
                     twice, accepted>>
  BY DEF ResetCommit, Existing, history
<1>2. \A t \in marked : t \in Tokens /\ token[t] # NoRow /\ token[t] \in TokenRow
  BY <1>1, LockedRows DEF Inv, TypeOK
<1>3. PICK row \in TokenRow :
          /\ row.user = arg[r].user
          /\ token' = [t \in Tokens |->
                 IF t = k THEN row
                 ELSE IF t \in marked THEN [token[t] EXCEPT !.open = FALSE]
                 ELSE token[t]]
  <2>1. [user |-> arg[r].user, open |-> TRUE] \in TokenRow
    BY <1>1 DEF TokenRow
  <2> QED BY <2>1 DEF ResetCommit
<1>4. \A row1 \in TokenRow :
          /\ [row1 EXCEPT !.open = FALSE] \in TokenRow
          /\ [row1 EXCEPT !.open = FALSE].user = row1.user
  BY DEF TokenRow
<1>5. /\ token' \in [Tokens -> TokenRow \cup {NoRow}]
      /\ token'[k] # NoRow /\ token'[k].user = arg[r].user
      /\ \A t \in Tokens \ {k} :
             IF t \in marked
             THEN token'[t] # NoRow /\ token'[t].user = token[t].user
             ELSE token'[t] = token[t]
  BY <1>2, <1>3, <1>4, NoRowDistinct DEF Inv, TypeOK
<1>6. TypeOK'
  BY <1>0, <1>1, <1>5 DEF Inv, TypeOK, Steps
<1>7. Respects(others)
  <2>1. \A q \in others : At(q, "completeCommit") =>
            arg[q].token \in Tokens \ {k} /\ arg[q].token \notin marked
    BY <1>1, LockedRows DEF Inv, LocksInv
  <2>2. \A q \in others : At(q, "resetCommit") =>
            \A t \in arg[q].marked : t \in Tokens /\ token'[t] # NoRow
    BY <1>5, LockedRows
  <2> HIDE DEF marked
  <2> QED BY <1>1, <1>5, <2>1, <2>2, LockedRows DEF Respects
<1>8. \A s \in Sessions : Agrees(s)
  BY <1>1 DEF Agrees
<1>9. Existing' = Existing
  BY <1>1 DEF Existing
<1>10. NoOrphans'
  <2>1. \A t \in Tokens : token'[t] # NoRow => token'[t].user \in Existing
    BY <1>1, <1>2, <1>5 DEF Inv, NoOrphans
  <2> QED BY <1>1, <1>9, <2>1 DEF Inv, NoOrphans
<1>11. SingleUse'
  BY <1>1 DEF Inv, SingleUse
<1> QED BY <1>0, <1>6, <1>7, <1>8, <1>10, <1>11, WritesInv

\* A token that is closed.
LEMMA ClosedToken ==
    ASSUME Inv, NEW t \in Tokens, token[t] # NoRow,
           token' = [token EXCEPT ![t].open = FALSE]
    PROVE  /\ token' \in [Tokens -> TokenRow \cup {NoRow}]
           /\ token'[t] # NoRow /\ token'[t].user = token[t].user
           /\ \A x \in Tokens \ {t} : token'[x] = token[x]
<1> DEFINE row == [token[t] EXCEPT !.open = FALSE]
<1>1. token \in [Tokens -> TokenRow \cup {NoRow}] /\ token[t] \in TokenRow
  BY DEF Inv, TypeOK
<1>2. row \in TokenRow /\ row.user = token[t].user
  BY <1>1 DEF TokenRow
<1>3. token' = [token EXCEPT ![t] = row]
  BY <1>1
<1> HIDE DEF row
<1> QED BY <1>1, <1>2, <1>3, NoRowDistinct

LEMMA CompleteCommitInv ==
    ASSUME Inv, NEW r \in Requests, CompleteCommit(r)
    PROVE  Inv'
<1> DEFINE u == arg[r].user
           t == arg[r].token
           others == Requests \ {r}
<1>0. /\ pc' \in [Requests -> Steps] /\ arg' \in [Requests -> Args]
      /\ pc'[r] = "idle" /\ \A q \in others : pc'[q] = pc[q] /\ arg'[q] = arg[q]
  BY EndFrame DEF CompleteCommit, Inv
<1>1. /\ u \in Users /\ RevokeAll(u) /\ At(r, "completeCommit")
      /\ t \in Tokens /\ token[t] # NoRow /\ token[t].open
  BY LockedRows DEF CompleteCommit, Existing
<1>2. /\ token' = [token EXCEPT ![t].open = FALSE]
      /\ UNCHANGED <<user, invitation, code, smtp, setups, twice, accepted>>
  BY <1>1 DEF CompleteCommit
<1>3. /\ token' \in [Tokens -> TokenRow \cup {NoRow}]
      /\ token'[t] # NoRow /\ token'[t].user = token[t].user
      /\ \A x \in Tokens \ {t} : token'[x] = token[x]
  BY <1>1, <1>2, ClosedToken
<1>4. /\ session' \in [Sessions -> SessionRow \cup {NoRow}]
      /\ revocations' \in [Users -> Nat]
      /\ \A s \in Sessions : Agrees(s)
      /\ \A s \in Sessions : session[s] = NoRow <=> session'[s] = NoRow
      /\ \A s \in Sessions : session[s] # NoRow =>
             session'[s].user = session[s].user
  BY <1>1, RevokeAllRows
<1>5. TypeOK'
  BY <1>0, <1>2, <1>3, <1>4 DEF Inv, TypeOK, Steps
<1>6. Respects(others)
  <2>1. \A q \in others : At(q, "completeCommit") => arg[q].token \in Tokens \ {t}
    BY <1>1, LockedRows DEF Inv, LocksInv
  <2>2. \A q \in others : At(q, "resetCommit") =>
            \A x \in arg[q].marked : x \in Tokens /\ token'[x] # NoRow
    BY <1>3, LockedRows
  <2> HIDE DEF t, u
  <2> QED BY <1>2, <1>3, <1>4, <2>1, <2>2, LockedRows DEF Respects
<1>7. Existing' = Existing
  BY <1>2 DEF Existing
<1>8. NoOrphans' /\ SingleUse'
  BY <1>1, <1>2, <1>3, <1>4, <1>7 DEF Inv, NoOrphans, SingleUse
<1> HIDE DEF u, t
<1> QED BY <1>0, <1>4, <1>5, <1>6, <1>8, WritesInv

LEMMA ExpireInv ==
    ASSUME Inv,
           \/ \E t \in Tokens : ExpireToken(t)
           \/ \E u \in Users : ExpireInvitation(u)
    PROVE  Inv'
<1>1. ASSUME NEW t \in Tokens, ExpireToken(t) PROVE Inv'
  <2>1. /\ token[t] # NoRow /\ ~TokenLocked(t)
        /\ token' = [token EXCEPT ![t].open = FALSE]
        /\ UNCHANGED <<user, invitation, code, session, smtp, pc, arg, setups,
                       revocations, twice, accepted>>
    BY <1>1 DEF ExpireToken, history
  <2>2. /\ token' \in [Tokens -> TokenRow \cup {NoRow}]
        /\ token'[t] # NoRow /\ token'[t].user = token[t].user
        /\ \A x \in Tokens \ {t} : token'[x] = token[x]
    BY <2>1, ClosedToken
  <2>3. TypeOK'
    BY <2>1, <2>2 DEF Inv, TypeOK
  <2>4. Respects(Requests)
    <3>1. \A q \in Requests : At(q, "completeCommit") =>
              arg[q].token \in Tokens \ {t}
      BY <2>1, LockedRows DEF TokenLocked
    <3>2. \A q \in Requests : At(q, "resetCommit") =>
              \A x \in arg[q].marked : x \in Tokens /\ token'[x] # NoRow
      BY <2>2, LockedRows
    <3> QED BY <2>1, <2>2, <3>1, <3>2, LockedRows DEF Respects
  <2>5. \A s \in Sessions : Agrees(s)
    BY <2>1 DEF Agrees
  <2>6. NoOrphans' /\ SingleUse'
    BY <2>1, <2>2 DEF Inv, NoOrphans, SingleUse, Existing
  <2> QED BY <2>1, <2>3, <2>4, <2>5, <2>6, WritesInv
<1>2. ASSUME NEW u \in Users, ExpireInvitation(u) PROVE Inv'
  <2>1. /\ invitation[u] = "open" /\ ~InvitationLocked(u)
        /\ invitation' = [invitation EXCEPT ![u] = "closed"]
        /\ UNCHANGED <<user, token, code, session, smtp, pc, arg, setups,
                       revocations, twice, accepted>>
    BY <1>2 DEF ExpireInvitation, history
  <2>2. /\ invitation' \in [Users -> {"none", "open", "closed"}]
        /\ \A x \in Users \ {u} : invitation'[x] = invitation[x]
    BY <2>1 DEF Inv, TypeOK
  <2>3. TypeOK'
    BY <2>1, <2>2 DEF Inv, TypeOK
  <2>4. Respects(Requests)
    <3>1. \A q \in Requests : At(q, "acceptCommit") => arg[q].user \in Users \ {u}
      BY <2>1, LockedRows DEF InvitationLocked
    <3> QED BY <2>1, <2>2, <3>1, LockedRows DEF Respects
  <2>5. \A s \in Sessions : Agrees(s)
    BY <2>1 DEF Agrees
  <2>6. NoOrphans' /\ SingleUse'
    BY <2>1, <2>2 DEF Inv, NoOrphans, SingleUse, Existing
  <2> QED BY <2>1, <2>3, <2>4, <2>5, <2>6, WritesInv
<1> QED BY <1>1, <1>2

-----------------------------------------------------------------------------
LEMMA InvInit == Init => Inv
<1> SUFFICES ASSUME Init PROVE Inv
  OBVIOUS
<1>1. TypeOK
  BY NoArgType DEF Init, TypeOK
<1>2. LocksInv /\ RevokeInv /\ RevocationComplete /\ NoOrphans /\ SingleUse
  BY DEF Init, LocksInv, RevokeInv, RevocationComplete, NoOrphans, SingleUse,
         Existing, At
<1> QED BY <1>1, <1>2 DEF Inv

LEMMA InvStep == Inv /\ [Next]_vars => Inv'
<1> SUFFICES ASSUME Inv, [Next]_vars PROVE Inv'
  OBVIOUS
<1>1. CASE UNCHANGED vars
  BY <1>1 DEF vars, tables, history, Inv, TypeOK, LocksInv, RevokeInv,
              RevocationComplete, NoOrphans, SingleUse, Existing, At, OpenSessions
<1>2. ASSUME NEW r \in Requests, OwnerRequest(r) PROVE Inv'
  BY <1>2, ReadSteps, SaveSmtpInv, InviteCommitInv, CleanupCommitInv,
     UpdateCommitInv, RevokeCommitInv
  DEF OwnerRequest
<1>3. ASSUME NEW r \in Requests, PublicRequest(r) PROVE Inv'
  BY <1>3, ReadSteps, CreateOwnerInv, LoginCommitInv, RecoverCommitInv,
     AcceptCommitInv, CompleteCommitInv, ResetCommitInv
  DEF PublicRequest
<1>4. ASSUME NEW r \in Requests, Abort(r) PROVE Inv'
  BY <1>4, ReadSteps
<1>5. CASE \/ \E s \in Sessions : Logout(s) \/ ExpireSession(s)
           \/ \E expired \in SUBSET Sessions : Cleanup(expired)
  BY <1>5, SessionsEnd
<1>6. CASE \/ \E t \in Tokens : ExpireToken(t)
           \/ \E u \in Users : ExpireInvitation(u)
  BY <1>6, ExpireInv
<1> QED BY <1>1, <1>2, <1>3, <1>4, <1>5, <1>6 DEF Next

LEMMA InvCorrect == Spec => []Inv
BY InvInit, InvStep, PTL DEF Spec

\* The tables, the steps and the locals of every request keep their types, for
\* any number of concurrent requests.
THEOREM TypeCorrect == Spec => []TypeOK
<1>1. Inv => TypeOK
  BY DEF Inv
<1> QED BY <1>1, InvCorrect, PTL

\* No interleaving of accept_invitation, complete_password_reset and
\* recover_owner redeems an invitation, a reset token or a recovery code twice:
\* what a request has read under FOR UPDATE is unchanged when it commits.
THEOREM CredentialsSingleUse == Spec => []SingleUse
<1>1. Inv => SingleUse
  BY DEF Inv
<1> QED BY <1>1, InvCorrect, PTL

\* A password reset, a recovery, a disabling and revoke_sessions end every
\* session of the user that was there, however logins, logouts, deletions and
\* other revocations interleave; the only session to outlive a revocation is one
\* that began between the UPDATE and the commit of revoke_sessions.
THEOREM RevocationsComplete == Spec => []RevocationComplete
<1>1. Inv => RevocationComplete
  BY DEF Inv
<1> QED BY <1>1, InvCorrect, PTL

-----------------------------------------------------------------------------
(***************************************************************************)
(* The last owner, where requests of owners come one after the other.      *)
(* identity_last_owner shows that the hypothesis is needed.                *)
(***************************************************************************)
Owners == OwnerInv /\ LastOwner /\ SetupOnce

LEMMA Moved ==
    ASSUME TypeOK, NEW r \in Requests, NEW step, NEW a, Goto(r, step, a)
    PROVE  /\ pc'[r] = step /\ arg'[r] = a
           /\ \A q \in Requests \ {r} : pc'[q] = pc[q] /\ arg'[q] = arg[q]
BY DEF TypeOK, Goto

LEMMA SomeOwner ==
    ASSUME LastOwner, setups > 0
    PROVE  \E u \in Users : CanManage(u)
BY DEF LastOwner, CanManage, EnabledOwners, Existing

\* What a request relies on as it enters a step.
Relies(r, step, a) ==
    /\ step \in OwnerSteps =>
           \A q \in Requests : q # r => pc[q] \notin OwnerSteps
    /\ step = "ownerCommit" => setups = 0 /\ ~SettingsLocked
    /\ step = "inviteCommit" /\ setups > 0 =>
           \E u \in Users \ a.pending : CanManage(u)
    /\ step \in {"mail", "cleanupCommit"} /\ a.user \in Existing =>
           user[a.user].role = "administrator"
    /\ step = "updateCommit" /\ a.user \in Existing =>
           /\ user[a.user].role = a.loaded.role
           /\ a.enabled => user[a.user].password
           /\ a.loaded.role = "owner" /\ (a.role # "owner" \/ ~a.enabled) =>
                  \E u \in Users \ {a.user} : CanManage(u)

LEMMA ReliesInv ==
    ASSUME TypeOK, Owners, NEW r \in Requests, NEW step, NEW a,
           Goto(r, step, a), Relies(r, step, a), UNCHANGED <<user, setups>>
    PROVE  Owners'
<1>1. /\ pc'[r] = step /\ arg'[r] = a
      /\ \A q \in Requests \ {r} : pc'[q] = pc[q] /\ arg'[q] = arg[q]
  BY Moved
<1>2. /\ Existing' = Existing /\ EnabledOwners' = EnabledOwners
      /\ \A x : CanManage(x)' <=> CanManage(x)
  BY DEF Existing, EnabledOwners, CanManage
<1>3. LastOwner' /\ SetupOnce'
  BY <1>2 DEF Owners, LastOwner, SetupOnce
<1>4. \A u \in Existing' : user'[u].enabled => user'[u].password
  BY <1>2 DEF Owners, OwnerInv
<1>5. \A p, q \in Requests :
          /\ pc'[p] \in OwnerSteps /\ pc'[q] \in OwnerSteps => p = q
          /\ pc'[p] = "ownerCommit" /\ pc'[q] = "ownerCommit" => p = q
  BY <1>1 DEF Owners, OwnerInv, Relies, At, SettingsLocked
<1>6. ASSUME NEW q \in Requests
      PROVE  /\ pc'[q] = "ownerCommit" => setups' = 0
             /\ pc'[q] = "inviteCommit" /\ setups' > 0 =>
                    \E u \in Users \ arg'[q].pending : CanManage(u)'
             /\ pc'[q] \in {"mail", "cleanupCommit"} /\ arg'[q].user \in Existing' =>
                    user'[arg'[q].user].role = "administrator"
             /\ pc'[q] = "updateCommit" /\ arg'[q].user \in Existing' =>
                    /\ user'[arg'[q].user].role = arg'[q].loaded.role
                    /\ arg'[q].enabled => user'[arg'[q].user].password
                    /\ arg'[q].loaded.role = "owner"
                           /\ (arg'[q].role # "owner" \/ ~arg'[q].enabled) =>
                           \E u \in Users \ {arg'[q].user} : CanManage(u)'
  <2>1. CASE q = r
    BY <1>1, <1>2, <2>1 DEF Relies
  <2>2. CASE q # r
    BY <1>1, <1>2, <2>2 DEF Owners, OwnerInv, At
  <2> QED BY <2>1, <2>2
<1>7. OwnerInv'
  BY <1>4, <1>5, <1>6 DEF OwnerInv, At
<1> QED BY <1>3, <1>7 DEF Owners

\* Public requests add users and enable them; they take nothing from an owner.
LEMMA GrowthInv ==
    ASSUME TypeOK, Owners, NEW r \in Requests, End(r),
           \A x \in Existing : x \in Existing',
           \A x \in Existing : /\ user'[x].role = user[x].role
                               /\ user[x].enabled => user'[x].enabled
                               /\ user[x].password => user'[x].password,
           \A x \in Existing' : user'[x].enabled => user'[x].password,
           \A x \in Existing' : x \notin Existing =>
               \A q \in Requests : arg[q].user # x /\ x \notin arg[q].pending,
           \/ setups' = setups
           \/ /\ At(r, "ownerCommit") /\ setups' = setups + 1
              /\ \E x \in Users : x \notin Existing /\ CanManage(x)'
    PROVE  Owners'
<1>1. /\ pc'[r] = "idle"
      /\ \A q \in Requests \ {r} : pc'[q] = pc[q] /\ arg'[q] = arg[q]
  BY Moved DEF End
<1>2. \A x \in Users : CanManage(x) => CanManage(x)'
  BY DEF CanManage, EnabledOwners
<1>3. \A x \in Users : CanManage(x)' => x \in Existing'
  BY DEF CanManage, EnabledOwners
<1>4. setups \in Nat
  BY DEF TypeOK
<1>5. LastOwner'
  <2>1. ASSUME setups' > 0 PROVE \E u \in Users : CanManage(u)'
    BY <1>2, <2>1, SomeOwner DEF Owners
  <2> QED BY <2>1 DEF LastOwner, CanManage
<1>6. SetupOnce'
  BY <1>4 DEF Owners, SetupOnce, OwnerInv
<1>7. \A p, q \in Requests :
          /\ pc'[p] \in OwnerSteps /\ pc'[q] \in OwnerSteps => p = q
          /\ pc'[p] = "ownerCommit" /\ pc'[q] = "ownerCommit" => p = q
  BY <1>1 DEF Owners, OwnerInv, At, OwnerSteps
<1>8. ASSUME NEW q \in Requests \ {r}
      PROVE  /\ pc[q] = "ownerCommit" => setups' = 0
             /\ pc[q] = "inviteCommit" /\ setups' > 0 =>
                    \E u \in Users \ arg[q].pending : CanManage(u)'
  <2>1. pc[q] = "ownerCommit" => setups' = 0
    BY DEF Owners, OwnerInv, At
  <2>2. ASSUME pc[q] = "inviteCommit", setups' > 0
        PROVE  \E u \in Users \ arg[q].pending : CanManage(u)'
    <3>1. CASE setups' = setups
      BY <1>2, <2>2, <3>1 DEF Owners, OwnerInv, At
    <3>2. CASE \E x \in Users : x \notin Existing /\ CanManage(x)'
      BY <1>3, <3>2
    <3> QED BY <3>1, <3>2
  <2> QED BY <2>1, <2>2
<1>9. ASSUME NEW q \in Requests \ {r}, arg[q].user \in Existing'
      PROVE  /\ pc[q] \in {"mail", "cleanupCommit"} =>
                    user'[arg[q].user].role = "administrator"
             /\ pc[q] = "updateCommit" =>
                    /\ user'[arg[q].user].role = arg[q].loaded.role
                    /\ arg[q].enabled => user'[arg[q].user].password
                    /\ arg[q].loaded.role = "owner"
                           /\ (arg[q].role # "owner" \/ ~arg[q].enabled) =>
                           \E u \in Users \ {arg[q].user} : CanManage(u)'
  <2>1. arg[q].user \in Existing
    BY <1>9
  <2> QED BY <1>2, <2>1 DEF Owners, OwnerInv, At
<1>10. OwnerInv'
  BY <1>1, <1>7, <1>8, <1>9 DEF OwnerInv, At
<1> QED BY <1>5, <1>6, <1>10 DEF Owners

\* The request of an owner that commits is the only one, and leaves an owner.
LEMMA OwnerCommitInv ==
    ASSUME TypeOK, Owners, NEW r \in Requests, pc[r] \in OwnerSteps,
           NEW step \in {"idle", "mail"}, NEW a, Goto(r, step, a),
           \A x \in Existing' : user'[x].enabled => user'[x].password,
           step = "mail" /\ a.user \in Existing' =>
               user'[a.user].role = "administrator",
           setups > 0 => \E x \in Users : CanManage(x)',
           setups' = setups
    PROVE  Owners'
<1>1. /\ pc'[r] = step /\ arg'[r] = a
      /\ \A q \in Requests \ {r} : pc'[q] = pc[q] /\ pc[q] \notin OwnerSteps
  BY Moved DEF Owners, OwnerInv
<1>2. LastOwner' /\ SetupOnce'
  BY DEF Owners, LastOwner, SetupOnce, CanManage
<1>3. /\ \A p, q \in Requests :
             /\ pc'[p] \in OwnerSteps /\ pc'[q] \in OwnerSteps => p = q
             /\ pc'[p] = "ownerCommit" /\ pc'[q] = "ownerCommit" => p = q
      /\ \A q \in Requests : pc'[q] = "ownerCommit" => setups' = 0
  BY <1>1 DEF Owners, OwnerInv, At
<1>4. \A q \in Requests :
          /\ pc'[q] \notin {"inviteCommit", "cleanupCommit", "updateCommit"}
          /\ pc'[q] = "mail" => q = r
  BY <1>1 DEF OwnerSteps
<1>5. OwnerInv'
  BY <1>1, <1>3, <1>4 DEF OwnerInv, At
<1> QED BY <1>2, <1>5 DEF Owners

\* Steps that leave the users alone.
LEMMA OwnerReadsInv ==
    ASSUME OneOwner, Inv, Owners, NEW r \in Requests,
           \/ CreateOwner(r) \/ MailSent(r) \/ MailFails(r)
           \/ \E s \in Sessions : RequireOwner(r, s)
           \/ \E n \in Names : InviteRead(r, n)
           \/ \E u \in Users : RevokeRead(r, u)
           \/ \E u \in Users, role \in Roles, enabled \in BOOLEAN :
                  UpdateRead(r, u, role, enabled)
    PROVE  Owners'
<1>0. TypeOK /\ setups \in Nat
  BY DEF Inv, TypeOK
<1>1. CASE CreateOwner(r)
  <2>1. setups = 0
    BY <1>0, <1>1, SomeOwner
    DEF CreateOwner, Owners, CanManage, EnabledOwners
  <2>2. Relies(r, "ownerCommit", NoArg)
    BY <1>1, <2>1 DEF CreateOwner, Relies, OwnerSteps
  <2> QED BY <1>0, <1>1, <2>2, ReliesInv DEF CreateOwner, tables, history
<1>2. CASE MailSent(r) \/ MailFails(r)
  <2>1. Relies(r, "idle", NoArg)
    BY DEF Relies, OwnerSteps
  <2>2. Relies(r, "cleanupCommit", arg[r])
    BY <1>2 DEF MailSent, MailFails, Owners, OwnerInv, Relies, At, OwnerSteps
  <2>3. /\ UNCHANGED <<user, setups>>
        /\ Goto(r, "idle", NoArg) \/ Goto(r, "cleanupCommit", arg[r])
    BY <1>2 DEF MailSent, MailFails, End, tables, history
  <2> QED BY <1>0, <2>1, <2>2, <2>3, ReliesInv
<1>3. ASSUME NEW s \in Sessions, RequireOwner(r, s) PROVE Owners'
  <2>1. Relies(r, "owner", NoArg)
    BY <1>3 DEF RequireOwner, Relies
  <2> QED BY <1>0, <1>3, <2>1, ReliesInv DEF RequireOwner, tables, history
<1>4. ASSUME pc[r] = "owner"
      PROVE  \A q \in Requests : q # r => pc[q] \notin OwnerSteps
  BY <1>4 DEF Owners, OwnerInv, OwnerSteps
<1>5. ASSUME NEW u \in Users, RevokeRead(r, u) PROVE Owners'
  <2> DEFINE a == [NoArg EXCEPT !.user = u, !.ended = OpenSessions(u)]
  <2>1. Goto(r, "revokeCommit", a) /\ UNCHANGED <<user, setups>>
    BY <1>5 DEF RevokeRead, tables, history
  <2> HIDE DEF a
  <2>2. Relies(r, "revokeCommit", a)
    BY <1>4, <1>5 DEF RevokeRead, At, Relies
  <2> QED BY <1>0, <2>1, <2>2, ReliesInv
<1>6. ASSUME NEW n \in Names, InviteRead(r, n) PROVE Owners'
  <2> DEFINE existing == {u \in Existing : user[u].name = n}
             a == [NoArg EXCEPT !.pending = existing, !.names = {n}]
  <2>1. Goto(r, "inviteCommit", a) /\ UNCHANGED <<user, setups>>
    BY <1>6 DEF InviteRead, tables, history
  <2>2. a.pending = existing
    BY DEF NoArg
  <2>3. \A u \in existing : ~CanManage(u)
    BY <1>6 DEF InviteRead, CanManage, EnabledOwners
  <2> HIDE DEF a, existing
  <2>4. Relies(r, "inviteCommit", a)
    BY <1>4, <1>6, <2>2, <2>3, SomeOwner DEF InviteRead, At, Relies, Owners
  <2> QED BY <1>0, <2>1, <2>4, ReliesInv
<1>7. ASSUME NEW u \in Users, NEW role \in Roles, NEW enabled \in BOOLEAN,
             UpdateRead(r, u, role, enabled)
      PROVE  Owners'
  <2> DEFINE a == [NoArg EXCEPT !.user = u, !.loaded = user[u], !.role = role,
                                !.enabled = enabled]
  <2>1. Goto(r, "updateCommit", a) /\ UNCHANGED <<user, setups>>
    BY <1>7 DEF UpdateRead, tables, history
  <2>2. a.user = u /\ a.loaded = user[u] /\ a.role = role /\ a.enabled = enabled
    BY DEF NoArg
  <2>3. ASSUME user[u].role = "owner", role # "owner" \/ ~enabled
        PROVE  \E x \in Users \ {u} : CanManage(x)
    <3>1. Cardinality(EnabledOwners) > 1
      BY <1>7, <2>3 DEF UpdateRead, OwnerRemains
    <3>2. EnabledOwners # {} /\ EnabledOwners # {u}
      <4>1. Cardinality({}) = 0 /\ Cardinality({u}) = 1
        BY FS_EmptySet, FS_Singleton
      <4> QED BY <3>1, <4>1
    <3>3. PICK x \in EnabledOwners : x # u
      BY <3>2
    <3>4. x \in Users /\ x \in Existing /\ user[x].enabled
      BY <3>3 DEF EnabledOwners, Existing
    <3>5. CanManage(x)
      BY <3>3, <3>4 DEF CanManage, Owners, OwnerInv
    <3> QED BY <3>3, <3>4, <3>5
  <2> HIDE DEF a
  <2>4. Relies(r, "updateCommit", a)
    BY <1>4, <1>7, <2>2, <2>3 DEF UpdateRead, At, Relies
  <2> QED BY <1>0, <2>1, <2>4, ReliesInv
<1> QED BY <1>1, <1>2, <1>3, <1>5, <1>6, <1>7

LEMMA OtherReadsInv ==
    ASSUME Inv, Owners, NEW r \in Requests,
           \/ ResetMark(r) \/ Abort(r) \/ RevokeCommit(r) \/ CompleteCommit(r)
           \/ \E enabled \in BOOLEAN : SaveSmtp(r, enabled)
           \/ \E u \in Users : \/ Login(r, u) \/ RecoverOwner(r, u)
                               \/ AcceptInvitation(r, u) \/ RequestReset(r, u)
           \/ \E s \in Sessions : LoginCommit(r, s) \/ RecoverCommit(r, s)
           \/ \E t \in Tokens : ResetCommit(r, t) \/ CompleteReset(r, t)
    PROVE  Owners'
<1>1. UNCHANGED <<user, setups>>
  BY DEF ResetMark, Abort, RevokeCommit, CompleteCommit, SaveSmtp, Login,
         RecoverOwner, AcceptInvitation, RequestReset, LoginCommit,
         RecoverCommit, ResetCommit, CompleteReset, tables, history
<1>2. \E step \in {"idle", "resetCommit", "loginCommit", "recoverCommit",
                   "acceptCommit", "resetMark", "completeCommit"} :
          \E a : Goto(r, step, a)
  BY DEF ResetMark, Abort, RevokeCommit, CompleteCommit, SaveSmtp, Login,
         RecoverOwner, AcceptInvitation, RequestReset, LoginCommit,
         RecoverCommit, ResetCommit, CompleteReset, End
<1>3. PICK step \in {"idle", "resetCommit", "loginCommit", "recoverCommit",
                     "acceptCommit", "resetMark", "completeCommit"} :
          \E a : Goto(r, step, a)
  BY <1>2
<1>4. PICK a : Goto(r, step, a)
  BY <1>3
<1>5. Relies(r, step, a)
  BY DEF Relies, OwnerSteps
<1> QED BY <1>1, <1>4, <1>5, ReliesInv DEF Inv

LEMMA PublicCommitsInv ==
    ASSUME Inv, Owners, NEW r \in Requests,
           \/ AcceptCommit(r)
           \/ \E u \in Users, n \in Names, s \in Sessions :
                  CreateOwnerCommit(r, u, n, s)
    PROVE  Owners'
<1>0. TypeOK /\ user \in [Users -> UserRow \cup {NoRow}]
  BY DEF Inv, TypeOK
<1>1. CASE AcceptCommit(r)
  <2> DEFINE u == arg[r].user
             row == [user[u] EXCEPT !.password = TRUE, !.enabled = TRUE]
  <2>1. u \in Existing /\ u \in Users /\ user[u] \in UserRow
    BY <1>1, UserRows DEF AcceptCommit, Existing
  <2>2. /\ row \in UserRow /\ row.role = user[u].role
        /\ row.enabled /\ row.password
    BY <2>1 DEF UserRow
  <2>3. user' = [user EXCEPT ![u] = row]
    BY <1>0, <1>1, <2>1 DEF AcceptCommit
  <2> HIDE DEF row
  <2>4. user'[u] = row /\ \A x \in Users \ {u} : user'[x] = user[x]
    BY <1>0, <2>1, <2>3
  <2>5. Existing' = Existing /\ Existing \subseteq Users
    BY <2>1, <2>2, <2>4, NoRowDistinct DEF Existing
  <2>6. setups' = setups /\ End(r)
    BY <1>1 DEF AcceptCommit
  <2>7. \A x \in Existing :
            /\ user'[x].role = user[x].role
            /\ user[x].enabled => user'[x].enabled
            /\ user[x].password => user'[x].password
            /\ user'[x].enabled => user'[x].password
    BY <2>2, <2>4, <2>5 DEF Owners, OwnerInv
  <2> HIDE DEF u
  <2> QED BY <1>0, <2>5, <2>6, <2>7, GrowthInv
<1>2. ASSUME NEW u \in Users, NEW n \in Names, NEW s \in Sessions,
             CreateOwnerCommit(r, u, n, s)
      PROVE  Owners'
  <2>1. /\ At(r, "ownerCommit") /\ setups' = setups + 1 /\ End(r)
        /\ user[u] = NoRow
        /\ \A q \in Requests : arg[q].user # u /\ u \notin arg[q].pending
    BY <1>2 DEF CreateOwnerCommit, FreshUser
  <2>2. PICK row \in UserRow : /\ row.role = "owner" /\ row.enabled /\ row.password
                               /\ user' = [user EXCEPT ![u] = row]
    BY <1>2 DEF CreateOwnerCommit, UserRow, Roles
  <2>3. user'[u] = row /\ \A x \in Users \ {u} : user'[x] = user[x]
    BY <1>0, <2>2
  <2>4. Existing' = Existing \cup {u} /\ u \notin Existing /\ Existing \subseteq Users
    BY <2>1, <2>2, <2>3, NoRowDistinct DEF Existing
  <2>5. CanManage(u)'
    BY <2>2, <2>3, <2>4 DEF CanManage, EnabledOwners
  <2>6. /\ \A x \in Existing : user'[x] = user[x]
        /\ \A x \in Existing' : user'[x].enabled => user'[x].password
        /\ \A x \in Existing' : x \notin Existing => x = u
    BY <2>2, <2>3, <2>4 DEF Owners, OwnerInv
  <2> QED BY <1>0, <2>1, <2>4, <2>5, <2>6, GrowthInv
<1> QED BY <1>1, <1>2

LEMMA OwnerWritesInv ==
    ASSUME Inv, Owners, NEW r \in Requests,
           \/ CleanupCommit(r) \/ UpdateCommit(r)
           \/ \E u \in Users : InviteCommit(r, u)
    PROVE  Owners'
<1>0. TypeOK /\ user \in [Users -> UserRow \cup {NoRow}]
  BY DEF Inv, TypeOK
<1>1. CASE CleanupCommit(r)
  <2> DEFINE gone == {arg[r].user} \cap Existing
  <2>1. /\ pc[r] = "cleanupCommit" /\ Goto(r, "idle", NoArg) /\ setups' = setups
        /\ \A x \in Users : user'[x] = IF x \in gone THEN NoRow ELSE user[x]
    BY <1>0, <1>1 DEF CleanupCommit, End, At
  <2>2. \A x \in gone : ~CanManage(x)
    BY <2>1 DEF Owners, OwnerInv, At, CanManage, EnabledOwners
  <2> HIDE DEF gone
  <2>3. Existing' = Existing \ gone
    BY <2>1 DEF Existing
  <2>4. \A x \in Users : CanManage(x) => CanManage(x)'
    BY <2>1, <2>2, <2>3 DEF CanManage, EnabledOwners
  <2>5. \A x \in Existing' : user'[x].enabled => user'[x].password
    BY <2>1, <2>3 DEF Owners, OwnerInv, Existing
  <2>6. pc[r] \in OwnerSteps
    BY <2>1 DEF OwnerSteps
  <2>7. setups > 0 => \E x \in Users : CanManage(x)'
    BY <2>4, SomeOwner DEF Owners
  <2> QED BY <1>0, <2>1, <2>5, <2>6, <2>7, OwnerCommitInv
<1>2. ASSUME NEW u \in Users, InviteCommit(r, u) PROVE Owners'
  <2> DEFINE gone == arg[r].pending \cap Existing
             a == [NoArg EXCEPT !.user = u]
  <2>1. /\ pc[r] = "inviteCommit" /\ Goto(r, "mail", a) /\ setups' = setups
        /\ a.user = u /\ user[u] = NoRow
    BY <1>2 DEF InviteCommit, FreshUser, At, NoArg
  <2>2. PICK n \in Names : arg[r].names = {n}
    BY <1>2 DEF InviteCommit, Inv, LocksInv
  <2>3. PICK row \in UserRow :
            /\ row.role = "administrator" /\ ~row.enabled
            /\ user' = [x \in Users |->
                           IF x = u THEN row
                           ELSE IF x \in gone THEN NoRow ELSE user[x]]
    <3> DEFINE new == [name |-> n, role |-> "administrator", enabled |-> FALSE,
                       password |-> FALSE]
    <3>1. new \in UserRow /\ new.role = "administrator" /\ ~new.enabled
      BY DEF UserRow, Roles
    <3>2. user' = [x \in Users |->
                      IF x = u THEN new
                      ELSE IF x \in gone THEN NoRow ELSE user[x]]
      BY <1>2, <2>2 DEF InviteCommit
    <3> HIDE DEF new
    <3> QED BY <3>1, <3>2
  <2>4. /\ user'[u] = row
        /\ \A x \in Users \ {u} : user'[x] = IF x \in gone THEN NoRow ELSE user[x]
    BY <2>3
  <2>5. \A x \in Users \ arg[r].pending : CanManage(x) => CanManage(x)'
    BY <2>1, <2>4 DEF CanManage, EnabledOwners, Existing
  <2>6. setups > 0 => \E x \in Users : CanManage(x)'
    BY <2>1, <2>5 DEF Owners, OwnerInv, At
  <2> HIDE DEF gone, a
  <2>7. \A x \in Existing' : x # u => x \in Existing /\ user'[x] = user[x]
    BY <2>4 DEF Existing
  <2>8. \A x \in Existing' : user'[x].enabled => user'[x].password
    BY <2>3, <2>4, <2>7 DEF Owners, OwnerInv
  <2>9. pc[r] \in OwnerSteps /\ user'[a.user].role = "administrator"
    BY <2>1, <2>3, <2>4 DEF OwnerSteps
  <2> QED BY <1>0, <2>1, <2>6, <2>8, <2>9, OwnerCommitInv
<1>3. CASE UpdateCommit(r)
  <2> DEFINE u == arg[r].user
             old == arg[r].loaded
             row == [user[u] EXCEPT
                       !.role = IF arg[r].role # old.role THEN arg[r].role ELSE @,
                       !.enabled = IF arg[r].enabled # old.enabled
                                   THEN arg[r].enabled ELSE @]
  <2>1. /\ pc[r] = "updateCommit" /\ Goto(r, "idle", NoArg) /\ setups' = setups
        /\ u \in Existing /\ u \in Users
    BY <1>3 DEF UpdateCommit, End, At, Existing
  <2>2. user[u] \in UserRow
    BY <2>1, UserRows
  <2>3. arg[r].role \in Roles /\ arg[r].enabled \in BOOLEAN
    BY DEF Inv, TypeOK, Args
  <2>4. /\ row \in UserRow /\ row.password = user[u].password
        /\ row.role = IF arg[r].role # old.role THEN arg[r].role ELSE user[u].role
        /\ row.enabled = IF arg[r].enabled # old.enabled THEN arg[r].enabled
                         ELSE user[u].enabled
    BY <2>2, <2>3 DEF UserRow
  <2>5. user' = [user EXCEPT ![u] = row]
    BY <1>0, <1>3, <2>1 DEF UpdateCommit
  <2> HIDE DEF row
  <2>6. user'[u] = row /\ \A x \in Users \ {u} : user'[x] = user[x]
    BY <1>0, <2>1, <2>5
  <2>7. Existing' = Existing /\ Existing \subseteq Users
    BY <2>1, <2>4, <2>6, NoRowDistinct DEF Existing
  <2>8. \A x \in Users \ {u} : CanManage(x) => CanManage(x)'
    BY <2>6, <2>7 DEF CanManage, EnabledOwners
  <2>9. /\ user[u].role = old.role
        /\ arg[r].enabled => user[u].password
        /\ old.role = "owner" /\ (arg[r].role # "owner" \/ ~arg[r].enabled) =>
               \E x \in Users \ {u} : CanManage(x)
    BY <2>1 DEF Owners, OwnerInv, At
  <2>10. \A x \in Existing' : user'[x].enabled => user'[x].password
    <3>1. row.enabled => row.password
      BY <2>1, <2>4, <2>9 DEF Owners, OwnerInv
    <3> QED BY <2>6, <2>7, <3>1 DEF Owners, OwnerInv
  <2>11. ASSUME setups > 0 PROVE \E x \in Users : CanManage(x)'
    <3>1. PICK x \in Users : CanManage(x)
      BY <2>11, SomeOwner DEF Owners
    <3>2. CASE x # u
      BY <2>8, <3>1, <3>2
    <3>3. CASE x = u /\ arg[r].role = "owner" /\ arg[r].enabled
      <4>1. user[u].role = "owner" /\ user[u].enabled /\ user[u].password
        BY <3>1, <3>3 DEF CanManage, EnabledOwners
      <4>2. row.role = "owner" /\ row.enabled /\ row.password
        BY <2>4, <3>3, <4>1
      <4>3. x \in Existing' /\ user'[x] = row
        BY <2>1, <2>6, <2>7, <3>3
      <4> QED BY <4>2, <4>3 DEF CanManage, EnabledOwners
    <3>4. CASE x = u /\ (arg[r].role # "owner" \/ ~arg[r].enabled)
      <4>1. old.role = "owner"
        BY <2>9, <3>1, <3>4 DEF CanManage, EnabledOwners
      <4> QED BY <2>8, <2>9, <3>4, <4>1
    <3> QED BY <3>2, <3>3, <3>4
  <2>12. pc[r] \in OwnerSteps
    BY <2>1 DEF OwnerSteps
  <2> HIDE DEF u, old
  <2> QED BY <1>0, <2>1, <2>10, <2>11, <2>12, OwnerCommitInv
<1> QED BY <1>1, <1>2, <1>3

LEMMA OwnersInit == Init => Owners
BY DEF Init, Owners, OwnerInv, LastOwner, SetupOnce, Existing, At, OwnerSteps

LEMMA OwnersStep ==
    ASSUME OneOwner, Inv, Owners, [Next]_vars PROVE Owners'
<1>1. ASSUME UNCHANGED <<user, setups, pc, arg>> PROVE Owners'
  BY <1>1 DEF Owners, OwnerInv, LastOwner, SetupOnce, CanManage, EnabledOwners,
              Existing, At
<1>2. CASE UNCHANGED vars
  BY <1>1, <1>2 DEF vars, tables, history
<1>3. ASSUME NEW r \in Requests, OwnerRequest(r) PROVE Owners'
  BY <1>3, OwnerReadsInv, OtherReadsInv, OwnerWritesInv DEF OwnerRequest
<1>4. ASSUME NEW r \in Requests, PublicRequest(r) PROVE Owners'
  BY <1>4, OwnerReadsInv, OtherReadsInv, PublicCommitsInv DEF PublicRequest
<1>5. ASSUME NEW r \in Requests, Abort(r) PROVE Owners'
  BY <1>5, OtherReadsInv
<1>6. CASE \/ \E s \in Sessions : Logout(s) \/ ExpireSession(s)
           \/ \E t \in Tokens : ExpireToken(t)
           \/ \E u \in Users : ExpireInvitation(u)
           \/ \E expired \in SUBSET Sessions : Cleanup(expired)
  BY <1>1, <1>6 DEF Logout, ExpireSession, ExpireToken, ExpireInvitation, Cleanup,
                    history
<1> QED BY <1>2, <1>3, <1>4, <1>5, <1>6 DEF Next

LEMMA OwnersCorrect ==
    ASSUME OneOwner PROVE Spec => []Owners
<1>1. Inv /\ Owners /\ [Next]_vars => Owners'
  BY OwnersStep
<1> QED BY <1>1, OwnersInit, InvCorrect, PTL DEF Spec

\* update_user's count of enabled owners, and the conditions of invite_user and
\* of its cleanup, keep an enabled owner who can log in from the setup on, as
\* long as no two requests of owners overlap; the public requests may overlap
\* with them and with each other.
THEOREM LastOwnerKept ==
    ASSUME OneOwner PROVE Spec => []LastOwner
<1>1. Owners => LastOwner
  BY DEF Owners
<1> QED BY <1>1, OwnersCorrect, PTL

\* Under the same hypothesis create_owner succeeds once at most: two first-run
\* clients are serialized by the lock on application_settings, and afterwards
\* there is always an owner.
THEOREM SetupNotReopened ==
    ASSUME OneOwner PROVE Spec => []SetupOnce
<1>1. Owners => SetupOnce
  BY DEF Owners
<1> QED BY <1>1, OwnersCorrect, PTL

-----------------------------------------------------------------------------
(***************************************************************************)
(* Accepted accounts, where requests of owners come one after the other.   *)
(***************************************************************************)
\* A step of one request, and what it has to leave of the accepted accounts.
LEMMA AcceptedMoves ==
    ASSUME TypeOK, AcceptedInv, NEW r \in Requests, NEW step, NEW a,
           Goto(r, step, a),
           \A u \in accepted' : /\ u \in Existing' /\ user'[u].password
                                /\ ~Doomed(u),
           \A q \in Requests \ {r} :
               pc[q] = "mail" /\ arg[q].user \in accepted' =>
                   user'[arg[q].user].enabled,
           step = "inviteCommit" => \A u \in accepted' : u \notin a.pending,
           step \in {"mail", "cleanupCommit"} => a.user \notin accepted'
    PROVE  AcceptedInv'
<1>1. /\ pc'[r] = step /\ arg'[r] = a
      /\ \A q \in Requests \ {r} : pc'[q] = pc[q] /\ arg'[q] = arg[q]
  BY Moved
<1>2. AcceptedKept'
  BY DEF AcceptedKept
<1>3. \A u \in accepted' : ~Doomed(u)'
  BY <1>1 DEF Doomed, At
<1>4. \A q \in Requests : pc'[q] = "mail" /\ arg'[q].user \in accepted' =>
          user'[arg'[q].user].enabled
  BY <1>1
<1> QED BY <1>2, <1>3, <1>4 DEF AcceptedInv, At

\* Steps that leave the users alone and prepare no deletion.
LEMMA AcceptedQuiet ==
    ASSUME Inv, AcceptedInv, NEW r \in Requests,
           \/ CreateOwner(r) \/ MailSent(r) \/ ResetMark(r) \/ Abort(r)
           \/ RevokeCommit(r) \/ CompleteCommit(r)
           \/ \E enabled \in BOOLEAN : SaveSmtp(r, enabled)
           \/ \E u \in Users : \/ Login(r, u) \/ RecoverOwner(r, u)
                               \/ AcceptInvitation(r, u) \/ RequestReset(r, u)
                               \/ RevokeRead(r, u)
           \/ \E s \in Sessions : \/ RequireOwner(r, s) \/ LoginCommit(r, s)
                                  \/ RecoverCommit(r, s)
           \/ \E t \in Tokens : ResetCommit(r, t) \/ CompleteReset(r, t)
           \/ \E u \in Users, role \in Roles, enabled \in BOOLEAN :
                  UpdateRead(r, u, role, enabled)
    PROVE  AcceptedInv'
<1>1. UNCHANGED <<user, accepted>>
  BY DEF CreateOwner, MailSent, ResetMark, Abort, RevokeCommit, CompleteCommit,
         SaveSmtp, Login, RecoverOwner, AcceptInvitation, RequestReset,
         RevokeRead, RequireOwner, LoginCommit, RecoverCommit, ResetCommit,
         CompleteReset, UpdateRead, tables, history
<1>2. PICK step \in {"idle", "owner", "ownerCommit", "updateCommit",
                     "revokeCommit", "resetCommit", "loginCommit",
                     "recoverCommit", "acceptCommit", "resetMark",
                     "completeCommit"} :
          \E a : Goto(r, step, a)
  BY DEF CreateOwner, MailSent, ResetMark, Abort, RevokeCommit, CompleteCommit,
         SaveSmtp, Login, RecoverOwner, AcceptInvitation, RequestReset,
         RevokeRead, RequireOwner, LoginCommit, RecoverCommit, ResetCommit,
         CompleteReset, UpdateRead, End
<1>3. PICK a : Goto(r, step, a)
  BY <1>2
<1>4. \A u \in accepted' : /\ u \in Existing' /\ user'[u].password
                           /\ ~Doomed(u)
  BY <1>1 DEF AcceptedInv, AcceptedKept, Existing
<1>5. \A q \in Requests \ {r} : pc[q] = "mail" /\ arg[q].user \in accepted' =>
          user'[arg[q].user].enabled
  BY <1>1 DEF AcceptedInv, At
<1> QED BY <1>3, <1>4, <1>5, AcceptedMoves DEF Inv

\* invite_user deletes who has no password, and its cleanup who is not enabled.
LEMMA AcceptedInvite ==
    ASSUME Inv, AcceptedInv, NEW r \in Requests,
           \/ MailFails(r) \/ CleanupCommit(r)
           \/ \E n \in Names : InviteRead(r, n)
           \/ \E u \in Users : InviteCommit(r, u)
    PROVE  AcceptedInv'
<1>0. /\ TypeOK /\ user \in [Users -> UserRow \cup {NoRow}]
      /\ accepted \subseteq Users
  BY DEF Inv, TypeOK
<1>1. /\ accepted' = accepted
      /\ \A u \in accepted : /\ u \in Existing /\ user[u].password
                             /\ ~Doomed(u)
      /\ \A q \in Requests : pc[q] = "mail" /\ arg[q].user \in accepted =>
             user[arg[q].user].enabled
  BY DEF AcceptedInv, AcceptedKept, At, MailFails, CleanupCommit, InviteRead,
         InviteCommit, history
<1>2. ASSUME \A u \in accepted : user'[u] = user[u],
             NEW step, NEW a, Goto(r, step, a),
             step = "inviteCommit" => \A u \in accepted : u \notin a.pending,
             step \in {"mail", "cleanupCommit"} => a.user \notin accepted
      PROVE  AcceptedInv'
  <2>1. \A u \in accepted' : /\ u \in Existing' /\ user'[u].password
                             /\ ~Doomed(u)
    BY <1>1, <1>2 DEF Existing
  <2>2. \A q \in Requests \ {r} : pc[q] = "mail" /\ arg[q].user \in accepted' =>
            user'[arg[q].user].enabled
    BY <1>1, <1>2
  <2> QED BY <1>0, <1>1, <1>2, <2>1, <2>2, AcceptedMoves
<1>3. CASE MailFails(r)
  <2>1. user' = user /\ pc[r] = "mail"
    BY <1>3 DEF MailFails, tables, At
  <2>2. CASE End(r)
    BY <1>2, <2>1, <2>2 DEF End
  <2>3. CASE Goto(r, "cleanupCommit", arg[r]) /\ ~user[arg[r].user].enabled
    BY <1>1, <1>2, <2>1, <2>3
  <2> QED BY <1>3, <2>2, <2>3 DEF MailFails
<1>4. ASSUME NEW n \in Names, InviteRead(r, n) PROVE AcceptedInv'
  <2> DEFINE existing == {u \in Existing : user[u].name = n}
             a == [NoArg EXCEPT !.pending = existing, !.names = {n}]
  <2>1. /\ Goto(r, "inviteCommit", a) /\ user' = user
        /\ \A u \in existing : ~user[u].password
    BY <1>4 DEF InviteRead, tables
  <2>2. a.pending = existing
    BY DEF NoArg
  <2> HIDE DEF a, existing
  <2>3. \A u \in accepted : u \notin a.pending
    BY <1>1, <2>1, <2>2
  <2> QED BY <1>2, <2>1, <2>3
<1>5. CASE CleanupCommit(r)
  <2>1. /\ Goto(r, "idle", NoArg) /\ pc[r] = "cleanupCommit"
        /\ user' = [x \in Users |-> IF x \in {arg[r].user} \cap Existing
                                    THEN NoRow ELSE user[x]]
    BY <1>5 DEF CleanupCommit, End, At
  <2>2. \A u \in accepted : u # arg[r].user
    BY <1>1, <2>1 DEF Doomed, At
  <2>3. \A u \in accepted : user'[u] = user[u]
    BY <1>0, <2>1, <2>2
  <2> QED BY <1>2, <2>1, <2>3
<1>6. ASSUME NEW u \in Users, InviteCommit(r, u) PROVE AcceptedInv'
  <2> DEFINE gone == arg[r].pending \cap Existing
             a == [NoArg EXCEPT !.user = u]
  <2>1. /\ pc[r] = "inviteCommit" /\ Goto(r, "mail", a) /\ a.user = u
        /\ user[u] = NoRow
    BY <1>6 DEF InviteCommit, FreshUser, At, NoArg
  <2>2. PICK n \in Names : arg[r].names = {n}
    BY <1>6 DEF InviteCommit, Inv, LocksInv
  <2>3. \A x \in Users : x # u =>
            user'[x] = IF x \in gone THEN NoRow ELSE user[x]
    BY <1>6, <2>2 DEF InviteCommit
  <2>4. \A x \in accepted : x # u /\ x \notin gone
    BY <1>1, <2>1 DEF Doomed, At, Existing
  <2> HIDE DEF a, gone
  <2>5. \A x \in accepted : user'[x] = user[x]
    BY <1>0, <2>3, <2>4
  <2> QED BY <1>2, <2>1, <2>4, <2>5
<1> QED BY <1>3, <1>4, <1>5, <1>6

\* The other changes of user rows.  An update may disable an accepted account,
\* and is then the only request of an owner: no mail is being delivered.
LEMMA AcceptedCommits ==
    ASSUME Inv, Owners, AcceptedInv, NEW r \in Requests,
           \/ AcceptCommit(r) \/ UpdateCommit(r)
           \/ \E u \in Users, n \in Names, s \in Sessions :
                  CreateOwnerCommit(r, u, n, s)
    PROVE  AcceptedInv'
<1>0. /\ TypeOK /\ user \in [Users -> UserRow \cup {NoRow}]
      /\ accepted \subseteq Users
  BY DEF Inv, TypeOK
<1>1. /\ \A u \in accepted : /\ u \in Existing /\ user[u].password
                             /\ ~Doomed(u)
      /\ \A q \in Requests : pc[q] = "mail" /\ arg[q].user \in accepted =>
             user[arg[q].user].enabled
  BY DEF AcceptedInv, AcceptedKept, At
<1>2. Goto(r, "idle", NoArg)
  BY DEF AcceptCommit, UpdateCommit, CreateOwnerCommit, End
<1>3. CASE AcceptCommit(r)
  <2> DEFINE u == arg[r].user
             row == [user[u] EXCEPT !.password = TRUE, !.enabled = TRUE]
  <2>1. u \in Existing /\ u \in Users /\ user[u] \in UserRow
    BY <1>3, UserRows DEF AcceptCommit, Existing, Inv
  <2>2. row \in UserRow /\ row.enabled /\ row.password
    BY <2>1 DEF UserRow
  <2>3. /\ user' = [user EXCEPT ![u] = row]
        /\ accepted' = IF Doomed(u) THEN accepted ELSE accepted \cup {u}
    BY <1>0, <1>3, <2>1 DEF AcceptCommit
  <2> HIDE DEF row, u
  <2>4. /\ user'[u] = row /\ row # NoRow
        /\ \A x \in Users \ {u} : user'[x] = user[x]
    BY <1>0, <2>1, <2>2, <2>3, NoRowDistinct
  <2>5. \A x \in accepted' : /\ x \in Existing' /\ user'[x].password
                             /\ ~Doomed(x)
    BY <1>0, <1>1, <2>1, <2>2, <2>3, <2>4 DEF Existing
  <2>6. \A q \in Requests \ {r} :
            pc[q] = "mail" /\ arg[q].user \in accepted' =>
                user'[arg[q].user].enabled
    BY <1>0, <1>1, <2>1, <2>2, <2>3, <2>4
  <2> QED BY <1>0, <1>2, <2>5, <2>6, AcceptedMoves
<1>4. CASE UpdateCommit(r)
  <2> DEFINE u == arg[r].user
             old == arg[r].loaded
             row == [user[u] EXCEPT
                       !.role = IF arg[r].role # old.role THEN arg[r].role ELSE @,
                       !.enabled = IF arg[r].enabled # old.enabled
                                   THEN arg[r].enabled ELSE @]
  <2>1. /\ pc[r] = "updateCommit" /\ accepted' = accepted
        /\ u \in Existing /\ u \in Users
    BY <1>4 DEF UpdateCommit, At, Existing
  <2>2. user[u] \in UserRow /\ arg[r].role \in Roles /\ arg[r].enabled \in BOOLEAN
    BY <2>1, UserRows DEF Inv, TypeOK, Args
  <2>3. row \in UserRow /\ row.password = user[u].password
    BY <2>2 DEF UserRow
  <2>4. user' = [user EXCEPT ![u] = row]
    BY <1>0, <1>4, <2>1 DEF UpdateCommit
  <2> HIDE DEF row, u, old
  <2>5. /\ user'[u] = row /\ row # NoRow
        /\ \A x \in Users \ {u} : user'[x] = user[x]
    BY <1>0, <2>1, <2>3, <2>4, NoRowDistinct
  <2>6. \A x \in accepted' : /\ x \in Existing' /\ user'[x].password
                             /\ ~Doomed(x)
    BY <1>0, <1>1, <2>1, <2>3, <2>5 DEF Existing
  <2>7. \A q \in Requests \ {r} : pc[q] # "mail"
    BY <2>1 DEF Owners, OwnerInv, OwnerSteps
  <2> QED BY <1>0, <1>2, <2>6, <2>7, AcceptedMoves
<1>5. ASSUME NEW u \in Users, NEW n \in Names, NEW s \in Sessions,
             CreateOwnerCommit(r, u, n, s)
      PROVE  AcceptedInv'
  <2>1. /\ user[u] = NoRow /\ accepted' = accepted
        /\ \A x \in Users \ {u} : user'[x] = user[x]
    BY <1>0, <1>5 DEF CreateOwnerCommit, FreshUser
  <2>2. \A x \in accepted : x \in Users \ {u}
    BY <1>0, <1>1, <2>1 DEF Existing
  <2>3. \A x \in accepted' : /\ x \in Existing' /\ user'[x].password
                             /\ ~Doomed(x)
    BY <1>1, <2>1, <2>2 DEF Existing
  <2>4. \A q \in Requests \ {r} :
            pc[q] = "mail" /\ arg[q].user \in accepted' =>
                user'[arg[q].user].enabled
    BY <1>1, <2>1, <2>2
  <2> QED BY <1>0, <1>2, <2>3, <2>4, AcceptedMoves
<1> QED BY <1>3, <1>4, <1>5

LEMMA AcceptedInit == Init => AcceptedInv
BY DEF Init, AcceptedInv, AcceptedKept, At

LEMMA AcceptedStep ==
    ASSUME Inv, Owners, AcceptedInv, [Next]_vars PROVE AcceptedInv'
<1>1. ASSUME UNCHANGED <<user, accepted, pc, arg>> PROVE AcceptedInv'
  BY <1>1 DEF AcceptedInv, AcceptedKept, Doomed, Existing, At
<1>2. CASE UNCHANGED vars
  BY <1>1, <1>2 DEF vars, tables, history
<1>3. ASSUME NEW r \in Requests, OwnerRequest(r) PROVE AcceptedInv'
  BY <1>3, AcceptedQuiet, AcceptedInvite, AcceptedCommits DEF OwnerRequest
<1>4. ASSUME NEW r \in Requests, PublicRequest(r) PROVE AcceptedInv'
  BY <1>4, AcceptedQuiet, AcceptedCommits DEF PublicRequest
<1>5. ASSUME NEW r \in Requests, Abort(r) PROVE AcceptedInv'
  BY <1>5, AcceptedQuiet
<1>6. CASE \/ \E s \in Sessions : Logout(s) \/ ExpireSession(s)
           \/ \E t \in Tokens : ExpireToken(t)
           \/ \E u \in Users : ExpireInvitation(u)
           \/ \E expired \in SUBSET Sessions : Cleanup(expired)
  BY <1>1, <1>6 DEF Logout, ExpireSession, ExpireToken, ExpireInvitation, Cleanup,
                    history
<1> QED BY <1>2, <1>3, <1>4, <1>5, <1>6 DEF Next

\* Whoever accepts an invitation keeps the account, whatever becomes of its mail
\* and whoever is invited next, as long as no two requests of owners overlap:
\* invite_user only replaces rows without a password, and its cleanup only
\* removes a user who is not enabled.  A second owner who disables the account
\* before the delivery fails would make that cleanup remove it.
THEOREM AcceptedStays ==
    ASSUME OneOwner PROVE Spec => []AcceptedKept
<1>1. AcceptedInv => AcceptedKept
  BY DEF AcceptedInv
<1>2. Inv /\ Owners /\ AcceptedInv /\ [Next]_vars => AcceptedInv'
  BY AcceptedStep
<1> QED BY <1>1, <1>2, AcceptedInit, InvCorrect, OwnersCorrect, PTL DEF Spec
=============================================================================
