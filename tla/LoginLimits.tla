----------------------------- MODULE LoginLimits -----------------------------
(***************************************************************************)
(* The attempt limits of the public routes: LoginAttemptLimiter and the    *)
(* handlers create_owner, login and recover (app/web/auth_routes.py) and   *)
(* request_reset (app/web/identity_routes.py), with a clock.  What the     *)
(* services behind the routes do is the subject of Identity; here a call   *)
(* of one succeeds or fails.                                               *)
(*                                                                         *)
(* allow() reads the clock before it takes the lock, so requests may enter *)
(* in another order than that of their readings.  MaxDelay bounds how long *)
(* a thread may be suspended between the two; the properties say what the  *)
(* limit is worth as a function of it.  Time is an integer clock up to     *)
(* MaxTime.                                                                *)
(***************************************************************************)
EXTENDS Integers, Sequences, SequencesExt, FiniteSets

CONSTANTS
    Requests,       \* workers of the thread pool
    Clients,        \* client addresses, the keys of a limiter
    LoginLimit,     \* 5: shared by login and recover
    SetupLimit,     \* 5: bootstrap_limiter
    ResetLimit,     \* 3: reset_limiter
    Window,         \* window_seconds
    MaxDelay,       \* bound: how old a reading is when the lock is taken
    MaxTime,        \* bound: the clock stops here
    NoRequest

ASSUME LimitsAssumption ==
    /\ {LoginLimit, SetupLimit, ResetLimit} \subseteq Nat \ {0}
    /\ Window \in Nat /\ MaxDelay \in Nat /\ MaxTime \in Nat

Limiters == {"limiter", "bootstrap_limiter", "reset_limiter"}
Limit == [limiter |-> LoginLimit, bootstrap_limiter |-> SetupLimit,
          reset_limiter |-> ResetLimit]
Keys == Limiters \X Clients

VARIABLES
    clock,          \* time.monotonic()
    attempts,       \* LoginAttemptLimiter._attempts, by limiter and client
    request,        \* where each request is
    admitted        \* history: the times of admission since the last clear

vars == <<clock, attempts, request, admitted>>

Time == 0 .. MaxTime
\* now is the local of allow(), 0 when it has returned.
Call == [step : {"allow", "service", "clear"}, key : Keys, now : Time]

ASSUME NoRequestDistinct == NoRequest \notin Call

Init ==
    /\ clock = 0
    /\ attempts = [k \in Keys |-> <<>>]
    /\ request = [r \in Requests |-> NoRequest]
    /\ admitted = [k \in Keys |-> <<>>]

-----------------------------------------------------------------------------
(***************************************************************************)
(* The routes.  Each calls allow() of its limiter with the client address. *)
(***************************************************************************)
Arrive(r, limiter, client) ==
    /\ request[r] = NoRequest
    /\ request' = [request EXCEPT ![r] =
           [step |-> "allow", key |-> <<limiter, client>>, now |-> clock]]
    /\ UNCHANGED <<clock, attempts, admitted>>

CreateOwner(r, client) == Arrive(r, "bootstrap_limiter", client)
Login(r, client) == Arrive(r, "limiter", client)
Recover(r, client) == Arrive(r, "limiter", client)
RequestReset(r, client) == Arrive(r, "reset_limiter", client)

-----------------------------------------------------------------------------
(***************************************************************************)
(* LoginAttemptLimiter.allow, under the lock.                              *)
(***************************************************************************)
Cutoff(r) == request[r].now - Window

\* Mutant: the window is a second too short.
ExpiredEarly(a, cutoff) == a < cutoff + 1

\* Mutant: the window never ends for an attempt.
ExpiredNever(a, cutoff) == FALSE

Expired(a, cutoff) == a < cutoff

\* while attempts and attempts[0] < cutoff: attempts.popleft()
Pruned(s, cutoff) ==
    LET first == SelectInSeq(s, LAMBDA a : ~Expired(a, cutoff))
    IN  IF first = 0 THEN <<>> ELSE SubSeq(s, first, Len(s))

Current(r) == Pruned(attempts[request[r].key], Cutoff(r))

Full(r) == Len(Current(r)) >= Limit[request[r].key[1]]

\* 429, or for request_reset the same answer as for an accepted request.
Refuse(r) ==
    /\ request[r] # NoRequest /\ request[r].step = "allow"
    /\ Full(r)
    /\ attempts' = [attempts EXCEPT ![request[r].key] = Current(r)]
    /\ request' = [request EXCEPT ![r] = NoRequest]
    /\ UNCHANGED <<clock, admitted>>

Admit(r) ==
    /\ request[r] # NoRequest /\ request[r].step = "allow"
    /\ ~Full(r)
    /\ attempts' = [attempts EXCEPT ![request[r].key] =
                        Append(Current(r), request[r].now)]
    /\ request' = [request EXCEPT ![r].step = "service", ![r].now = 0]
    /\ admitted' = [admitted EXCEPT ![request[r].key] =
                        Append(@, clock)]
    /\ UNCHANGED clock

-----------------------------------------------------------------------------
(***************************************************************************)
(* After the service call.                                                 *)
(***************************************************************************)
\* A missing or wrong bootstrap token, a completed setup, wrong credentials,
\* an undeliverable mail: the attempt keeps counting.
ServiceFails(r) ==
    /\ request[r] # NoRequest /\ request[r].step = "service"
    /\ request' = [request EXCEPT ![r] = NoRequest]
    /\ UNCHANGED <<clock, attempts, admitted>>

\* request_reset has no clear.
ServiceSucceeds(r) ==
    /\ request[r] # NoRequest /\ request[r].step = "service"
    /\ request' = [request EXCEPT ![r] =
           IF request[r].key[1] = "reset_limiter" THEN NoRequest
           ELSE [request[r] EXCEPT !.step = "clear"]]
    /\ UNCHANGED <<clock, attempts, admitted>>

\* LoginAttemptLimiter.clear: the second time the request takes the lock.
Clear(r) ==
    /\ request[r] # NoRequest /\ request[r].step = "clear"
    /\ attempts' = [attempts EXCEPT ![request[r].key] = <<>>]
    /\ admitted' = [admitted EXCEPT ![request[r].key] = <<>>]
    /\ request' = [request EXCEPT ![r] = NoRequest]
    /\ UNCHANGED clock

\* Time passes, but not while a thread that has read the clock is overdue.
Tick ==
    /\ clock < MaxTime
    /\ \A r \in Requests :
           (request[r] # NoRequest /\ request[r].step = "allow")
               => clock < request[r].now + MaxDelay
    /\ clock' = clock + 1
    /\ UNCHANGED <<attempts, request, admitted>>

-----------------------------------------------------------------------------
RequestStep(r) ==
    \/ \E client \in Clients : \/ CreateOwner(r, client) \/ Login(r, client)
                               \/ Recover(r, client)
                               \/ RequestReset(r, client)
    \/ Refuse(r) \/ Admit(r) \/ ServiceFails(r) \/ ServiceSucceeds(r)
    \/ Clear(r)

Next == Tick \/ \E r \in Requests : RequestStep(r)

Spec == Init /\ [][Next]_vars

-----------------------------------------------------------------------------
(***************************************************************************)
(* Properties.                                                             *)
(***************************************************************************)
TypeOK ==
    /\ clock \in Time
    /\ \A k \in Keys : /\ attempts[k] \in Seq(Time)
                       /\ Len(attempts[k]) <= Limit[k[1]]
                       /\ admitted[k] \in Seq(Time)
    /\ request \in [Requests -> Call \cup {NoRequest}]

\* Admissions of a key since its last clear that satisfy a condition.
Count(k, Test(_)) == Cardinality({i \in DOMAIN admitted[k] : Test(admitted[k][i])})

(* allow() keeps its promise although it reads the clock outside the lock:  *)
(* within a window shortened by the longest suspension of a thread, no      *)
(* client is admitted more often than the limit since its last success,     *)
(* however requests overtake each other between clock and lock.             *)
AttemptsBounded ==
    \A k \in Keys :
        Count(k, LAMBDA at : at >= clock - Window + MaxDelay) <= Limit[k[1]]

(* A client is turned away only while it really has used up its attempts:   *)
(* every refusal is preceded by as many admissions of the same limiter and  *)
(* client within the window before the refused request read the clock, even *)
(* when a late reading sits behind a newer one; refusals, other clients and *)
(* other limiters never count.                                              *)
RefusalsJustified ==
    [][\A r \in Requests :
          (request[r] # NoRequest /\ request[r].step = "allow"
              /\ request'[r] = NoRequest) =>
              Count(request[r].key, LAMBDA at : at >= Cutoff(r))
                  >= Limit[request[r].key[1]]]_vars

=============================================================================
