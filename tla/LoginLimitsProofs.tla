-------------------------- MODULE LoginLimitsProofs --------------------------
(***************************************************************************)
(* Proofs about LoginLimits for every number of requests and clients,      *)
(* every limit, window, delay and length of time.                          *)
(***************************************************************************)
EXTENDS LoginLimits, SequenceTheorems, FiniteSetTheorems,
        WellFoundedInduction, TLAPS

-----------------------------------------------------------------------------
(***************************************************************************)
(* The inductive invariant.                                                *)
(***************************************************************************)
Typed ==
    /\ clock \in Time
    /\ attempts \in [Keys -> Seq(Time)]
    /\ admitted \in [Keys -> Seq(Time)]
    /\ request \in [Requests -> Call \cup {NoRequest}]

\* A thread in allow() has read the clock, at most MaxDelay ago.
Reading(r) == request[r] # NoRequest /\ request[r].step = "allow"
ReadingsRecent ==
    \A r \in Requests :
        Reading(r) => request[r].now <= clock /\ clock <= request[r].now + MaxDelay

\* What a deque still holds are the readings of the last admissions, one by
\* one; the admissions before them have left the window at the time given.
Aligned(held, history, now) ==
    /\ Len(held) <= Len(history)
    /\ \A i \in 1 .. Len(history) :
           LET gone == Len(history) - Len(held)
           IN  /\ history[i] <= now
               /\ i <= gone => history[i] < now - Window + MaxDelay
               /\ i > gone => /\ held[i - gone] <= history[i]
                              /\ history[i] <= held[i - gone] + MaxDelay

\* The history is in the order of the admissions.
InOrder(history) ==
    \A i, j \in 1 .. Len(history) : i <= j => history[i] <= history[j]

Remembered ==
    \A k \in Keys : /\ Aligned(attempts[k], admitted[k], clock)
                    /\ InOrder(admitted[k])
                    /\ Len(attempts[k]) <= Limit[k[1]]

LimitInv == Typed /\ ReadingsRecent /\ Remembered

-----------------------------------------------------------------------------
LEMMA LimitPositive == \A k \in Keys : Limit[k[1]] \in Nat \ {0}
<1> SUFFICES ASSUME NEW x \in Limiters PROVE Limit[x] \in Nat \ {0}
  BY DEF Keys
<1>1. /\ Limit["limiter"] = LoginLimit
      /\ Limit["bootstrap_limiter"] = SetupLimit
      /\ Limit["reset_limiter"] = ResetLimit
  BY DEF Limit
<1> QED BY <1>1, LimitsAssumption DEF Limiters

LEMMA TimeIsNat == Time \subseteq Nat /\ Time \subseteq Int /\ 0 \in Time
BY LimitsAssumption DEF Time

LEMMA RequestTyped ==
    ASSUME Typed, NEW r \in Requests, request[r] # NoRequest
    PROVE  /\ request[r] \in Call
           /\ request[r].key \in Keys
           /\ request[r].now \in Time
BY DEF Typed, Call

LEMMA LeastElement ==
    ASSUME NEW T, T \subseteq Nat, T # {}
    PROVE  \E x \in T : \A y \in T : x <= y
<1> DEFINE R == OpToRel(<, Nat)
<1>1. IsWellFoundedOn(R, Nat)
  BY NatLessThanWellFounded
<1>2. \A x, y \in Nat : <<y, x>> \in R <=> y < x
  BY DEF OpToRel
<1> HIDE DEF R
<1>3. PICK x \in T : \A y \in T : ~(<<y, x>> \in R)
  BY <1>1, WFMin
<1>4. \A y \in T : ~(y < x)
  BY <1>2, <1>3
<1> QED BY <1>3, <1>4

\* popleft takes a prefix of expired readings, and stops at the first that is
\* not.
LEMMA PrunedIsSuffix ==
    ASSUME NEW s \in Seq(Time), NEW c \in Int
    PROVE  \E d \in 0 .. Len(s) :
               /\ Pruned(s, c) \in Seq(Time)
               /\ Len(Pruned(s, c)) = Len(s) - d
               /\ \A i \in 1 .. Len(s) - d : Pruned(s, c)[i] = s[i + d]
               /\ \A i \in 1 .. d : s[i] < c
               /\ d < Len(s) => s[d + 1] >= c
<1> DEFINE Fresh == {i \in 1 .. Len(s) : ~Expired(s[i], c)}
           first == SelectInSeq(s, LAMBDA a : ~Expired(a, c))
<1>1. Len(s) \in Nat /\ \A i \in 1 .. Len(s) : s[i] \in Time /\ s[i] \in Int
  BY TimeIsNat, ElementOfSeq, LenProperties
<1>2. CASE Fresh = {}
  <2>1. first = 0
    BY <1>2 DEF SelectInSeq
  <2>2. Pruned(s, c) = << >>
    BY <2>1 DEF Pruned
  <2>3. \A i \in 1 .. Len(s) : s[i] < c
    BY <1>2 DEF Expired
  <2> WITNESS Len(s) \in 0 .. Len(s)
  <2> QED BY <1>1, <2>2, <2>3, EmptySeq
<1>3. CASE Fresh # {}
  <2>1. first = Min(Fresh)
    BY <1>3 DEF SelectInSeq
  <2>2. first \in Fresh /\ \A j \in Fresh : first <= j
    <3>1. Fresh \in SUBSET Nat
      BY <1>1
    <3>2. \E x \in Fresh : \A y \in Fresh : x <= y
      BY <1>3, <3>1, LeastElement
    <3> QED BY <2>1, <3>2 DEF Min
  <2>3. first \in 1 .. Len(s) /\ first # 0
    BY <1>1, <2>2
  <2>4. Pruned(s, c) = SubSeq(s, first, Len(s))
    BY <2>3 DEF Pruned
  <2> HIDE DEF first
  <2>5. \A i \in first .. Len(s) : s[i] \in Time
    BY <1>1, <2>3
  <2>6. /\ SubSeq(s, first, Len(s)) \in Seq(Time)
        /\ Len(SubSeq(s, first, Len(s))) = Len(s) - first + 1
        /\ \A i \in 1 .. Len(s) - first + 1 :
               SubSeq(s, first, Len(s))[i] = s[first + i - 1]
    BY <1>1, <2>3, <2>5, SubSeqProperties
  <2>7. \A i \in 1 .. first - 1 : s[i] < c
    <3> SUFFICES ASSUME NEW i \in 1 .. first - 1, ~(s[i] < c) PROVE FALSE
      OBVIOUS
    <3>1. i \in Fresh
      BY <1>1, <2>3 DEF Expired
    <3> QED BY <2>2, <2>3, <3>1
  <2>8. s[first] >= c
    BY <1>1, <2>2, <2>3 DEF Expired
  <2> DEFINE d == first - 1
  <2>9. /\ d \in 0 .. Len(s) /\ d + 1 = first
        /\ Len(s) - d = Len(s) - first + 1
        /\ \A i \in 1 .. Len(s) - d : first + i - 1 = i + d
    BY <1>1, <2>3
  <2>10. /\ Pruned(s, c) \in Seq(Time)
         /\ Len(Pruned(s, c)) = Len(s) - d
         /\ \A i \in 1 .. Len(s) - d : Pruned(s, c)[i] = s[i + d]
         /\ \A i \in 1 .. d : s[i] < c
         /\ d < Len(s) => s[d + 1] >= c
    BY <2>4, <2>6, <2>7, <2>8, <2>9
  <2> HIDE DEF d
  <2> QED BY <2>9, <2>10
<1> QED BY <1>2, <1>3

LEMMA SeqOfTimes ==
    ASSUME NEW s \in Seq(Time)
    PROVE  /\ Len(s) \in Nat
           /\ \A i \in 1 .. Len(s) : s[i] \in Time /\ s[i] \in Int
BY TimeIsNat, ElementOfSeq, LenProperties

LEMMA LengthIn ==
    ASSUME NEW s \in Seq(Time), NEW x \in Time
    PROVE  /\ Append(s, x) \in Seq(Time)
           /\ Len(Append(s, x)) = Len(s) + 1
           /\ \A i \in 1 .. Len(s) : Append(s, x)[i] = s[i]
           /\ Append(s, x)[Len(s) + 1] = x
BY AppendProperties

\* Pruning with a clock reading that is not from the future forgets only
\* admissions that have left the window.
LEMMA PruneAligned ==
    ASSUME NEW held \in Seq(Time), NEW history \in Seq(Time),
           NEW now \in Time, NEW read \in Time, read <= now,
           Aligned(held, history, now)
    PROVE  /\ Pruned(held, read - Window) \in Seq(Time)
           /\ Len(Pruned(held, read - Window)) <= Len(held)
           /\ Aligned(Pruned(held, read - Window), history, now)
<1> DEFINE c == read - Window
           kept == Pruned(held, c)
<1>1. Window \in Int /\ MaxDelay \in Int /\ c \in Int /\ now \in Int
  BY LimitsAssumption, TimeIsNat
<1>2. PICK d \in 0 .. Len(held) :
          /\ kept \in Seq(Time) /\ Len(kept) = Len(held) - d
          /\ \A i \in 1 .. Len(held) - d : kept[i] = held[i + d]
          /\ \A i \in 1 .. d : held[i] < c
  BY <1>1, PrunedIsSuffix
<1>3. /\ Len(held) \in Nat /\ Len(history) \in Nat
      /\ \A i \in 1 .. Len(history) : history[i] \in Int
      /\ \A i \in 1 .. Len(held) : held[i] \in Int
  BY SeqOfTimes
<1>4. c <= now - Window
  BY <1>1, TimeIsNat
<1> HIDE DEF kept, c
<1> DEFINE gone == Len(history) - Len(held)
<1>5. gone \in Nat /\ Len(history) - Len(kept) = gone + d
  BY <1>2, <1>3 DEF Aligned
<1>6. ASSUME NEW i \in 1 .. Len(history)
      PROVE  /\ history[i] <= now
             /\ i <= gone + d => history[i] < now - Window + MaxDelay
             /\ i > gone + d => /\ kept[i - (gone + d)] <= history[i]
                                /\ history[i] <= kept[i - (gone + d)] + MaxDelay
  <2>1. /\ history[i] <= now
        /\ i <= gone => history[i] < now - Window + MaxDelay
        /\ i > gone => /\ held[i - gone] <= history[i]
                       /\ history[i] <= held[i - gone] + MaxDelay
    BY DEF Aligned
  <2>2. CASE i <= gone
    BY <1>2, <1>5, <2>1, <2>2
  <2>3. CASE i > gone /\ i <= gone + d
    <3>1. i - gone \in 1 .. d /\ i - gone \in 1 .. Len(held)
      BY <1>2, <1>3, <1>5, <2>3
    <3>2. held[i - gone] < c /\ held[i - gone] \in Int
      BY <1>2, <1>3, <3>1
    <3>3. ASSUME NEW u \in Int, NEW v \in Int, v <= u + MaxDelay, u < c
          PROVE  v < now - Window + MaxDelay
      BY <1>1, <1>4, <3>3
    <3>4. history[i] < now - Window + MaxDelay
      BY <1>3, <2>1, <2>3, <3>2, <3>3
    <3>5. ~(i > gone + d)
      BY <1>2, <1>5, <2>3
    <3> QED BY <2>1, <3>4, <3>5
  <2>4. CASE i > gone + d
    <3>1. i - (gone + d) \in 1 .. Len(held) - d
      BY <1>2, <1>3, <1>5, <2>4
    <3>2. kept[i - (gone + d)] = held[(i - (gone + d)) + d]
      BY <1>2, <3>1
    <3>3. (i - (gone + d)) + d = i - gone /\ i > gone
      BY <1>2, <1>5, <2>4
    <3> QED BY <2>1, <2>4, <3>2, <3>3
  <2> QED BY <1>2, <1>5, <2>2, <2>3, <2>4
<1>7. Aligned(kept, history, now)
  <2>1. Len(kept) <= Len(history)
    BY <1>2, <1>3 DEF Aligned
  <2> HIDE DEF gone
  <2> QED BY <1>5, <1>6, <2>1 DEF Aligned
<1>8. kept \in Seq(Time) /\ Len(kept) <= Len(held)
  BY <1>2, <1>3
<1> QED BY <1>7, <1>8 DEF kept, c

\* An admission adds its reading to the deque and its time to the history.
LEMMA AppendAligned ==
    ASSUME NEW held \in Seq(Time), NEW history \in Seq(Time),
           NEW now \in Time, NEW read \in Time,
           read <= now, now <= read + MaxDelay,
           Aligned(held, history, now)
    PROVE  Aligned(Append(held, read), Append(history, now), now)
<1> DEFINE h == Append(held, read)
           a == Append(history, now)
<1>1. /\ Len(h) = Len(held) + 1 /\ h[Len(held) + 1] = read
      /\ \A i \in 1 .. Len(held) : h[i] = held[i]
  BY LengthIn
<1>2. /\ Len(a) = Len(history) + 1 /\ a[Len(history) + 1] = now
      /\ \A i \in 1 .. Len(history) : a[i] = history[i]
  BY LengthIn
<1>3. Len(held) \in Nat /\ Len(history) \in Nat /\ Len(held) <= Len(history)
  BY SeqOfTimes DEF Aligned
<1> HIDE DEF h, a
<1>4. Len(a) - Len(h) = Len(history) - Len(held) /\ Len(h) <= Len(a)
  BY <1>1, <1>2, <1>3
<1>5. ASSUME NEW i \in 1 .. Len(a)
      PROVE  LET gone == Len(history) - Len(held)
             IN  /\ a[i] <= now
                 /\ i <= gone => a[i] < now - Window + MaxDelay
                 /\ i > gone => /\ h[i - gone] <= a[i]
                                /\ a[i] <= h[i - gone] + MaxDelay
  <2> DEFINE gone == Len(history) - Len(held)
  <2>1. CASE i = Len(history) + 1
    <3>1. a[i] = now /\ i - gone = Len(held) + 1 /\ i > gone
      BY <1>2, <1>3, <2>1
    <3>2. h[i - gone] = read
      BY <1>1, <3>1
    <3>3. now \in Int
      BY TimeIsNat
    <3> QED BY <1>3, <3>1, <3>2, <3>3
  <2>2. CASE i \in 1 .. Len(history)
    <3>1. /\ history[i] <= now
          /\ i <= gone => history[i] < now - Window + MaxDelay
          /\ i > gone => /\ held[i - gone] <= history[i]
                         /\ history[i] <= held[i - gone] + MaxDelay
      BY <2>2 DEF Aligned
    <3>2. i > gone => i - gone \in 1 .. Len(held)
      BY <1>3, <2>2
    <3> QED BY <1>1, <1>2, <2>2, <3>1, <3>2
  <2>3. i \in 1 .. Len(history) \/ i = Len(history) + 1
    BY <1>2, <1>3
  <2> QED BY <2>1, <2>2, <2>3
<1> QED BY <1>4, <1>5 DEF Aligned, h, a

LEMMA AppendInOrder ==
    ASSUME NEW history \in Seq(Time), NEW now \in Time, InOrder(history),
           \A i \in 1 .. Len(history) : history[i] <= now
    PROVE  InOrder(Append(history, now))
<1>1. /\ Len(Append(history, now)) = Len(history) + 1
      /\ Append(history, now)[Len(history) + 1] = now
      /\ \A i \in 1 .. Len(history) : Append(history, now)[i] = history[i]
  BY LengthIn
<1>2. Len(history) \in Nat /\ now \in Int
  BY SeqOfTimes, TimeIsNat
<1> QED BY <1>1, <1>2 DEF InOrder

\* Time passes: nothing comes back into the window.
LEMMA LaterAligned ==
    ASSUME NEW held \in Seq(Time), NEW history \in Seq(Time),
           NEW now \in Time, NEW later \in Time, now <= later,
           Aligned(held, history, now)
    PROVE  Aligned(held, history, later)
<1>1. /\ Len(held) \in Nat /\ Len(history) \in Nat
      /\ \A i \in 1 .. Len(history) : history[i] \in Int
      /\ now \in Int /\ later \in Int /\ Window \in Int /\ MaxDelay \in Int
  BY SeqOfTimes, TimeIsNat, LimitsAssumption
<1> QED BY <1>1 DEF Aligned

LEMMA NothingAligned ==
    ASSUME NEW now
    PROVE  Aligned(<< >>, << >>, now) /\ InOrder(<< >>)
BY DEF Aligned, InOrder

-----------------------------------------------------------------------------
LEMMA RouteKeeps ==
    ASSUME LimitInv, NEW r \in Requests, NEW limiter \in Limiters,
           NEW client \in Clients, Arrive(r, limiter, client)
    PROVE  LimitInv'
<1> DEFINE call == [step |-> "allow", key |-> <<limiter, client>>,
                    now |-> clock]
<1>1. call \in Call
  BY DEF Call, Keys, LimitInv, Typed
<1>2. request' = [request EXCEPT ![r] = call]
      /\ UNCHANGED <<clock, attempts, admitted>>
  BY DEF Arrive
<1>3. /\ request'[r] = call /\ call.now = clock
      /\ \A q \in Requests \ {r} : request'[q] = request[q]
  BY <1>2 DEF LimitInv, Typed
<1> HIDE DEF call
<1>4. Typed'
  BY <1>1, <1>2 DEF LimitInv, Typed
<1>5. clock \in Int /\ MaxDelay \in Nat
  BY TimeIsNat, LimitsAssumption DEF LimitInv, Typed
<1>6. ReadingsRecent'
  BY <1>2, <1>3, <1>5 DEF LimitInv, ReadingsRecent, Reading
<1>7. Remembered'
  BY <1>2 DEF LimitInv, Remembered
<1> QED BY <1>4, <1>6, <1>7 DEF LimitInv

\* What allow() finds under the lock, and what it leaves when it refuses.
LEMMA Looking ==
    ASSUME LimitInv, NEW r \in Requests, Reading(r)
    PROVE  LET k == request[r].key
           IN  /\ k \in Keys /\ request[r].now \in Time
               /\ request[r].now <= clock /\ clock <= request[r].now + MaxDelay
               /\ Current(r) \in Seq(Time)
               /\ Len(Current(r)) <= Limit[k[1]]
               /\ Aligned(Current(r), admitted[k], clock)
<1> DEFINE k == request[r].key
           now == request[r].now
<1>1. k \in Keys /\ now \in Time
  BY RequestTyped DEF LimitInv, Reading
<1>2. now <= clock /\ clock <= now + MaxDelay
  BY DEF LimitInv, ReadingsRecent
<1>3. attempts[k] \in Seq(Time) /\ admitted[k] \in Seq(Time) /\ clock \in Time
  BY <1>1 DEF LimitInv, Typed
<1>4. Aligned(attempts[k], admitted[k], clock)
      /\ Len(attempts[k]) <= Limit[k[1]]
  BY <1>1 DEF LimitInv, Remembered
<1>5. Current(r) = Pruned(attempts[k], now - Window)
  BY DEF Current, Cutoff
<1> HIDE DEF k, now
<1>6. /\ Current(r) \in Seq(Time) /\ Len(Current(r)) <= Len(attempts[k])
      /\ Aligned(Current(r), admitted[k], clock)
  BY <1>1, <1>2, <1>3, <1>4, <1>5, PruneAligned
<1>7. Len(Current(r)) <= Limit[k[1]]
  BY <1>1, <1>3, <1>4, <1>6, SeqOfTimes, LimitPositive
<1> QED BY <1>1, <1>2, <1>6, <1>7 DEF k, now

\* One key changes.
LEMMA OneKey ==
    ASSUME LimitInv, NEW k \in Keys, NEW held \in Seq(Time),
           NEW history \in Seq(Time), clock' = clock,
           attempts' = [attempts EXCEPT ![k] = held],
           admitted' = [admitted EXCEPT ![k] = history],
           Aligned(held, history, clock), InOrder(history),
           Len(held) <= Limit[k[1]]
    PROVE  /\ Remembered'
           /\ attempts' \in [Keys -> Seq(Time)]
           /\ admitted' \in [Keys -> Seq(Time)]
<1>1. /\ attempts'[k] = held /\ admitted'[k] = history
      /\ \A x \in Keys \ {k} : /\ attempts'[x] = attempts[x]
                              /\ admitted'[x] = admitted[x]
  BY DEF LimitInv, Typed
<1>2. \A x \in Keys : Aligned(attempts'[x], admitted'[x], clock)
                      /\ InOrder(admitted'[x])
                      /\ Len(attempts'[x]) <= Limit[x[1]]
  BY <1>1 DEF LimitInv, Remembered
<1> QED BY <1>2 DEF Remembered, LimitInv, Typed

\* A request moves on; it is not in allow() afterwards.
LEMMA MovesOn ==
    ASSUME LimitInv, NEW r \in Requests, NEW v \in Call \cup {NoRequest},
           request' = [request EXCEPT ![r] = v], clock' = clock,
           v = NoRequest \/ v.step # "allow"
    PROVE  /\ request' \in [Requests -> Call \cup {NoRequest}]
           /\ ReadingsRecent'
<1>1. /\ request'[r] = v
      /\ \A q \in Requests \ {r} : request'[q] = request[q]
  BY DEF LimitInv, Typed
<1> QED BY <1>1 DEF LimitInv, Typed, ReadingsRecent, Reading

LEMMA RefuseKeeps ==
    ASSUME LimitInv, NEW r \in Requests, Refuse(r)
    PROVE  LimitInv'
<1> DEFINE k == request[r].key
<1>1. Reading(r)
  BY DEF Refuse, Reading
<1>2. /\ k \in Keys /\ Current(r) \in Seq(Time)
      /\ Len(Current(r)) <= Limit[k[1]]
      /\ Aligned(Current(r), admitted[k], clock)
  BY <1>1, Looking
<1>3. /\ attempts' = [attempts EXCEPT ![k] = Current(r)]
      /\ request' = [request EXCEPT ![r] = NoRequest]
      /\ UNCHANGED <<clock, admitted>>
  BY DEF Refuse
<1>4. admitted' = [admitted EXCEPT ![k] = admitted[k]]
      /\ admitted[k] \in Seq(Time) /\ InOrder(admitted[k])
  BY <1>2, <1>3 DEF LimitInv, Typed, Remembered
<1> HIDE DEF k
<1>5. /\ Remembered' /\ attempts' \in [Keys -> Seq(Time)]
      /\ admitted' \in [Keys -> Seq(Time)]
  BY <1>2, <1>3, <1>4, OneKey
<1>6. /\ request' \in [Requests -> Call \cup {NoRequest}]
      /\ ReadingsRecent'
  BY <1>3, MovesOn
<1> QED BY <1>3, <1>5, <1>6 DEF LimitInv, Typed

LEMMA AdmitKeeps ==
    ASSUME LimitInv, NEW r \in Requests, Admit(r)
    PROVE  LimitInv'
<1> DEFINE k == request[r].key
           now == request[r].now
<1>1. Reading(r) /\ request[r] \in Call
  BY RequestTyped DEF Admit, Reading, LimitInv
<1>2. /\ k \in Keys /\ Current(r) \in Seq(Time)
      /\ now \in Time /\ now <= clock /\ clock <= now + MaxDelay
      /\ Aligned(Current(r), admitted[k], clock)
  BY <1>1, Looking
<1>3. /\ attempts' = [attempts EXCEPT ![k] = Append(Current(r), now)]
      /\ request' = [request EXCEPT ![r] =
                        [request[r] EXCEPT !.step = "service", !.now = 0]]
      /\ admitted' = [admitted EXCEPT ![k] = Append(admitted[k], clock)]
      /\ clock' = clock
  BY DEF Admit, LimitInv, Typed
<1>4. ~(Len(Current(r)) >= Limit[k[1]])
  BY DEF Admit, Full
<1>5. admitted[k] \in Seq(Time) /\ InOrder(admitted[k]) /\ clock \in Time
  BY <1>2 DEF LimitInv, Typed, Remembered
<1>6. [request[r] EXCEPT !.step = "service", !.now = 0] \in Call
      /\ [request[r] EXCEPT !.step = "service", !.now = 0].step # "allow"
  BY <1>1, TimeIsNat DEF Call
<1> HIDE DEF k, now
<1>7. Aligned(Append(Current(r), now), Append(admitted[k], clock), clock)
  BY <1>2, <1>5, AppendAligned
<1>8. InOrder(Append(admitted[k], clock))
  <2>1. \A i \in 1 .. Len(admitted[k]) : admitted[k][i] <= clock
    BY <1>2 DEF Aligned
  <2> QED BY <1>5, <2>1, AppendInOrder
<1>9. /\ Append(Current(r), now) \in Seq(Time)
      /\ Append(admitted[k], clock) \in Seq(Time)
      /\ Len(Append(Current(r), now)) <= Limit[k[1]]
  BY <1>2, <1>4, <1>5, LengthIn, SeqOfTimes, LimitPositive
<1>10. /\ Remembered' /\ attempts' \in [Keys -> Seq(Time)]
       /\ admitted' \in [Keys -> Seq(Time)]
  BY <1>2, <1>3, <1>7, <1>8, <1>9, OneKey
<1>11. /\ request' \in [Requests -> Call \cup {NoRequest}]
       /\ ReadingsRecent'
  BY <1>3, <1>6, MovesOn
<1> QED BY <1>3, <1>5, <1>10, <1>11 DEF LimitInv, Typed

LEMMA AnswerKeeps ==
    ASSUME LimitInv, NEW r \in Requests,
           ServiceFails(r) \/ ServiceSucceeds(r)
    PROVE  LimitInv'
<1>1. request[r] \in Call /\ request[r].step = "service"
  BY RequestTyped DEF ServiceFails, ServiceSucceeds, LimitInv
<1>2. [request[r] EXCEPT !.step = "clear"] \in Call
      /\ [request[r] EXCEPT !.step = "clear"].step # "allow"
  BY <1>1 DEF Call
<1>3. PICK v \in {NoRequest, [request[r] EXCEPT !.step = "clear"]} :
          request' = [request EXCEPT ![r] = v]
  BY DEF ServiceFails, ServiceSucceeds
<1>4. UNCHANGED <<clock, attempts, admitted>>
  BY DEF ServiceFails, ServiceSucceeds
<1>5. /\ request' \in [Requests -> Call \cup {NoRequest}]
      /\ ReadingsRecent'
  BY <1>2, <1>3, <1>4, MovesOn
<1> QED BY <1>4, <1>5 DEF LimitInv, Typed, Remembered

LEMMA ClearKeeps ==
    ASSUME LimitInv, NEW r \in Requests, Clear(r)
    PROVE  LimitInv'
<1> DEFINE k == request[r].key
<1>1. k \in Keys
  BY RequestTyped DEF Clear, LimitInv
<1>2. /\ attempts' = [attempts EXCEPT ![k] = << >>]
      /\ admitted' = [admitted EXCEPT ![k] = << >>]
      /\ request' = [request EXCEPT ![r] = NoRequest] /\ clock' = clock
  BY DEF Clear
<1> HIDE DEF k
<1>3. << >> \in Seq(Time) /\ Len(<< >>) <= Limit[k[1]]
  BY <1>1, EmptySeq, LimitPositive
<1>4. /\ Remembered' /\ attempts' \in [Keys -> Seq(Time)]
      /\ admitted' \in [Keys -> Seq(Time)]
  BY <1>1, <1>2, <1>3, NothingAligned, OneKey
<1>5. /\ request' \in [Requests -> Call \cup {NoRequest}]
      /\ ReadingsRecent'
  BY <1>2, MovesOn
<1> QED BY <1>2, <1>4, <1>5 DEF LimitInv, Typed

LEMMA TickKeeps ==
    ASSUME LimitInv, Tick
    PROVE  LimitInv'
<1>1. clock \in Time /\ clock' = clock + 1 /\ clock < MaxTime
      /\ UNCHANGED <<attempts, request, admitted>>
  BY DEF LimitInv, Typed, Tick
<1>2. clock' \in Time /\ clock <= clock' /\ clock \in Nat
  BY <1>1, LimitsAssumption DEF Time
<1>3. ReadingsRecent'
  <2> SUFFICES ASSUME NEW r \in Requests, Reading(r)
               PROVE  request[r].now <= clock + 1
                      /\ clock + 1 <= request[r].now + MaxDelay
    BY <1>1 DEF ReadingsRecent, Reading
  <2>1. request[r].now \in Nat
    BY RequestTyped, TimeIsNat DEF Reading, LimitInv
  <2>2. request[r].now <= clock /\ clock < request[r].now + MaxDelay
    BY DEF LimitInv, ReadingsRecent, Reading, Tick
  <2> QED BY <1>2, <2>1, <2>2, LimitsAssumption
<1>4. \A k \in Keys : Aligned(attempts[k], admitted[k], clock')
  BY <1>1, <1>2, LaterAligned DEF LimitInv, Typed, Remembered
<1> QED BY <1>1, <1>2, <1>3, <1>4 DEF LimitInv, Typed, Remembered

(* LimitInv is inductive.                                                    *)
LEMMA LimitStep == LimitInv /\ [Next]_vars => LimitInv'
<1> SUFFICES ASSUME LimitInv, [Next]_vars PROVE LimitInv'
  OBVIOUS
<1>1. CASE UNCHANGED vars
  BY <1>1 DEF vars, LimitInv, Typed, ReadingsRecent, Reading, Remembered
<1>2. ASSUME NEW r \in Requests, RequestStep(r) PROVE LimitInv'
  <2>1. ASSUME NEW client \in Clients,
               \/ CreateOwner(r, client) \/ Login(r, client)
               \/ Recover(r, client) \/ RequestReset(r, client)
        PROVE  LimitInv'
    BY <2>1, RouteKeeps
    DEF CreateOwner, Login, Recover, RequestReset, Limiters
  <2> QED BY <1>2, <2>1, RefuseKeeps, AdmitKeeps, AnswerKeeps, ClearKeeps
          DEF RequestStep
<1> QED BY <1>1, <1>2, TickKeeps DEF Next

(* LimitInv holds in every reachable state.                                  *)
LEMMA LimitCorrect == Spec => []LimitInv
<1>1. Init => LimitInv
  <2> SUFFICES ASSUME Init PROVE LimitInv
    OBVIOUS
  <2>1. << >> \in Seq(Time) /\ Len(<< >>) = 0
    BY EmptySeq
  <2>2. Typed
    BY <2>1, TimeIsNat DEF Init, Typed
  <2>3. Remembered
    BY <2>1, NothingAligned, LimitPositive DEF Init, Remembered
  <2>4. ReadingsRecent
    BY DEF Init, ReadingsRecent, Reading
  <2> QED BY <2>2, <2>3, <2>4 DEF LimitInv
<1> QED BY <1>1, LimitStep, PTL DEF Spec

-----------------------------------------------------------------------------
\* A set of positions between those of an interval has its size as a bound.
LEMMA CountBounds ==
    ASSUME NEW n \in Nat, NEW m \in Nat, m <= n, NEW S, S \subseteq 1 .. n
    PROVE  /\ Cardinality(S) \in Nat
           /\ S \subseteq (n - m + 1) .. n => Cardinality(S) <= m
           /\ (n - m + 1) .. n \subseteq S => Cardinality(S) >= m
<1> DEFINE T == (n - m + 1) .. n
<1>1. IsFiniteSet(T) /\ Cardinality(T) = m
  BY FS_Interval
<1>2. IsFiniteSet(1 .. n)
  BY FS_Interval
<1>3. IsFiniteSet(S)
  BY <1>2, FS_Subset
<1>4. Cardinality(S) \in Nat
  BY <1>3, FS_CardinalityType
<1> HIDE DEF T
<1>5. S \subseteq T => Cardinality(S) <= m
  BY <1>1, FS_Subset
<1>6. T \subseteq S => Cardinality(T) <= Cardinality(S)
  BY <1>3, FS_Subset
<1> QED BY <1>1, <1>4, <1>5, <1>6 DEF T

\* How often a value of at least b occurs in a history.
LEMMA CountOfHistory ==
    ASSUME NEW h \in Seq(Time), NEW m \in Nat, m <= Len(h), NEW b \in Int
    PROVE  LET many == Cardinality({i \in DOMAIN h : h[i] >= b})
           IN  /\ many \in Nat
               /\ (\A i \in 1 .. Len(h) : i <= Len(h) - m => h[i] < b)
                      => many <= m
               /\ (\A i \in 1 .. Len(h) : i > Len(h) - m => h[i] >= b)
                      => many >= m
<1> DEFINE S == {i \in DOMAIN h : h[i] >= b}
<1>1. PICK n \in Nat : n = Len(h)
  BY LenProperties
<1>2. DOMAIN h = 1 .. n /\ \A i \in 1 .. n : h[i] \in Int
  BY <1>1, SeqOfTimes, LenProperties, TimeIsNat
<1>3. /\ S \subseteq 1 .. n
      /\ \A i \in 1 .. n : i \in S <=> h[i] >= b
  BY <1>2
<1> HIDE DEF S
<1>4. m <= n
  BY <1>1
<1>5. ASSUME \A i \in 1 .. n : i <= n - m => h[i] < b
      PROVE  S \subseteq (n - m + 1) .. n
  <2> SUFFICES ASSUME NEW i \in S PROVE i \in (n - m + 1) .. n
    OBVIOUS
  <2>1. i \in 1 .. n /\ h[i] >= b /\ h[i] \in Int
    BY <1>2, <1>3
  <2>2. ~(i <= n - m)
    BY <1>5, <2>1
  <2> QED BY <2>1, <2>2
<1>6. ASSUME \A i \in 1 .. n : i > n - m => h[i] >= b
      PROVE  (n - m + 1) .. n \subseteq S
  <2> SUFFICES ASSUME NEW i \in (n - m + 1) .. n PROVE i \in S
    OBVIOUS
  <2>1. i \in 1 .. n /\ i > n - m
    BY <1>4
  <2> QED BY <1>3, <1>6, <2>1
<1>7. /\ Cardinality(S) \in Nat
      /\ S \subseteq (n - m + 1) .. n => Cardinality(S) <= m
      /\ (n - m + 1) .. n \subseteq S => Cardinality(S) >= m
  BY <1>3, <1>4, CountBounds
<1>8. /\ Cardinality(S) \in Nat
      /\ (\A i \in 1 .. n : i <= n - m => h[i] < b) => Cardinality(S) <= m
      /\ (\A i \in 1 .. n : i > n - m => h[i] >= b) => Cardinality(S) >= m
  BY <1>5, <1>6, <1>7
<1> QED BY <1>1, <1>8 DEF S

(* Every deque holds readings of the clock, and never more than its limiter  *)
(* admits; a request waits with the key and the reading it came with.        *)
THEOREM LimitsTyped == Spec => []TypeOK
<1>1. LimitInv => TypeOK
  BY DEF LimitInv, Typed, Remembered, TypeOK
<1> QED BY <1>1, LimitCorrect, PTL

(* allow() keeps its promise: since its last success no client is admitted   *)
(* more often than the limit within the window less the longest time a       *)
(* thread may be suspended between its clock reading and the lock, for every *)
(* number of requests and clients, every limit, window and delay.            *)
THEOREM LimitHolds == Spec => []AttemptsBounded
<1>1. LimitInv => AttemptsBounded
  <2> SUFFICES ASSUME LimitInv, NEW k \in Keys
               PROVE  Cardinality({i \in DOMAIN admitted[k] :
                          admitted[k][i] >= clock - Window + MaxDelay})
                          <= Limit[k[1]]
    BY DEF AttemptsBounded, Count
  <2>1. /\ admitted[k] \in Seq(Time) /\ Len(attempts[k]) \in Nat
        /\ Len(admitted[k]) \in Nat
    BY SeqOfTimes, LenProperties DEF LimitInv, Typed
  <2>2. clock - Window + MaxDelay \in Int
    BY TimeIsNat, LimitsAssumption DEF LimitInv, Typed
  <2>3. Aligned(attempts[k], admitted[k], clock)
        /\ Len(attempts[k]) <= Limit[k[1]]
    BY DEF LimitInv, Remembered
  <2>4. /\ Len(attempts[k]) <= Len(admitted[k])
        /\ \A i \in 1 .. Len(admitted[k]) :
               i <= Len(admitted[k]) - Len(attempts[k])
                   => admitted[k][i] < clock - Window + MaxDelay
    BY <2>3 DEF Aligned
  <2> DEFINE many == Cardinality({i \in DOMAIN admitted[k] :
                          admitted[k][i] >= clock - Window + MaxDelay})
  <2>5. many \in Nat /\ many <= Len(attempts[k])
    BY <2>1, <2>2, <2>4, CountOfHistory
  <2>6. Limit[k[1]] \in Nat
    BY LimitPositive
  <2> HIDE DEF many
  <2>7. many <= Limit[k[1]]
    BY <2>1, <2>3, <2>5, <2>6
  <2> QED BY <2>7 DEF many
<1> QED BY <1>1, LimitCorrect, PTL

\* When allow() refuses, the admissions it still counts are within the window.
LEMMA RefusalCounts ==
    ASSUME LimitInv, NEW r \in Requests, Reading(r), Full(r)
    PROVE  LET k == request[r].key
           IN  Cardinality({i \in DOMAIN admitted[k] :
                               admitted[k][i] >= Cutoff(r)}) >= Limit[k[1]]
<1>1. PICK k \in Keys : k = request[r].key
  BY Looking
<1>2. PICK held \in Seq(Time) : held = Current(r)
  BY Looking
<1>3. request[r].now \in Time /\ Aligned(held, admitted[k], clock)
  BY <1>1, <1>2, Looking
<1>4. PICK history \in Seq(Time) : history = admitted[k]
  BY <1>1 DEF LimitInv, Typed
<1>5. attempts[k] \in Seq(Time) /\ InOrder(history)
  BY <1>1, <1>4 DEF LimitInv, Typed, Remembered
<1>6. PICK c \in Int : c = Cutoff(r)
  <2>1. request[r].now \in Int
    BY <1>3, TimeIsNat
  <2>2. Window \in Int
    BY LimitsAssumption
  <2> QED BY <2>1, <2>2 DEF Cutoff
<1>7. PICK n \in Nat : n = Len(history)
  BY LenProperties
<1>8. PICK m \in Nat : m = Len(held)
  BY LenProperties
<1>9. /\ \A i \in 1 .. n : history[i] \in Int
      /\ \A i \in 1 .. m : held[i] \in Int
  BY <1>7, <1>8, SeqOfTimes, TimeIsNat
<1>10. m >= Limit[k[1]] /\ Limit[k[1]] \in Nat \ {0} /\ 1 \in 1 .. m
  <2>1. m >= Limit[k[1]] /\ Limit[k[1]] \in Nat \ {0}
    BY <1>1, <1>2, <1>8, LimitPositive DEF Full
  <2> QED BY <2>1
<1>11. held[1] >= c
  <2>1. held = Pruned(attempts[k], c)
    BY <1>1, <1>2, <1>6 DEF Current
  <2>2. PICK d \in 0 .. Len(attempts[k]) :
            /\ Len(held) = Len(attempts[k]) - d
            /\ \A i \in 1 .. Len(attempts[k]) - d : held[i] = attempts[k][i + d]
            /\ d < Len(attempts[k]) => attempts[k][d + 1] >= c
    BY <1>5, <2>1, PrunedIsSuffix
  <2>3. Len(attempts[k]) \in Nat
    BY <1>5, SeqOfTimes
  <2>4. d < Len(attempts[k]) /\ 1 \in 1 .. Len(attempts[k]) - d
        /\ 1 + d = d + 1
    BY <1>8, <1>10, <2>2, <2>3
  <2> QED BY <2>2, <2>4
<1>12. m <= n /\ n - m + 1 \in 1 .. n /\ held[1] <= history[n - m + 1]
  <2>1. m <= n
    BY <1>3, <1>4, <1>7, <1>8 DEF Aligned
  <2>2. n - m + 1 \in 1 .. n /\ n - m + 1 > n - m /\ (n - m + 1) - (n - m) = 1
    BY <1>10, <2>1
  <2> QED BY <1>3, <1>4, <1>7, <1>8, <2>1, <2>2 DEF Aligned
<1>13. \A i \in 1 .. n : i > n - m => history[i] >= c
  <2> SUFFICES ASSUME NEW i \in 1 .. n, i > n - m PROVE history[i] >= c
    OBVIOUS
  <2>1. n - m + 1 <= i
    OBVIOUS
  <2>2. history[n - m + 1] <= history[i]
    BY <1>5, <1>7, <1>12, <2>1 DEF InOrder
  <2>3. /\ history[i] \in Int /\ history[n - m + 1] \in Int /\ held[1] \in Int
    BY <1>9, <1>10, <1>12
  <2>4. ASSUME NEW u \in Int, NEW v \in Int, NEW w \in Int,
               u >= c, u <= v, v <= w
        PROVE  w >= c
    BY <2>4
  <2> QED BY <1>11, <1>12, <2>2, <2>3, <2>4
<1> DEFINE many == Cardinality({i \in DOMAIN history : history[i] >= c})
<1>14. many \in Nat /\ many >= m
  BY <1>7, <1>12, <1>13, CountOfHistory
<1> HIDE DEF many
<1>15. many >= Limit[k[1]]
  BY <1>10, <1>14
<1> QED BY <1>1, <1>4, <1>6, <1>15 DEF many

(* A refusal is justified: the client was admitted as often as the limit     *)
(* allows within the window before the refused request read the clock.       *)
THEOREM RefusalsAreJustified == Spec => RefusalsJustified
<1> DEFINE Justified ==
        \A r \in Requests :
          (request[r] # NoRequest /\ request[r].step = "allow"
              /\ request'[r] = NoRequest) =>
              Count(request[r].key, LAMBDA at : at >= Cutoff(r))
                  >= Limit[request[r].key[1]]
<1>1. LimitInv /\ [Next]_vars => [Justified]_vars
  <2> SUFFICES ASSUME LimitInv, Next, NEW r \in Requests, Reading(r),
                      request'[r] = NoRequest
               PROVE  Count(request[r].key, LAMBDA at : at >= Cutoff(r))
                          >= Limit[request[r].key[1]]
    BY DEF Reading
  <2>1. PICK q \in Requests : RequestStep(q)
    BY DEF Next, Tick, Reading
  <2>2. ASSUME NEW v, request' = [request EXCEPT ![q] = v] PROVE q = r
    BY <2>2 DEF LimitInv, Typed, Reading
  <2>3. q = r
    BY <2>1, <2>2
    DEF RequestStep, CreateOwner, Login, Recover, RequestReset, Arrive, Refuse,
        Admit, ServiceFails, ServiceSucceeds, Clear
  <2>4. ~Admit(r)
    <3> SUFFICES ASSUME Admit(r) PROVE FALSE
      OBVIOUS
    <3>1. request[r] \in Call
      BY RequestTyped DEF LimitInv, Reading
    <3>2. [request[r] EXCEPT !.step = "service", !.now = 0] \in Call
      BY <3>1, TimeIsNat DEF Call
    <3>3. request'[r] = [request[r] EXCEPT !.step = "service", !.now = 0]
      BY DEF Admit, LimitInv, Typed
    <3> QED BY <3>2, <3>3, NoRequestDistinct
  <2>5. Refuse(r)
    BY <2>1, <2>3, <2>4
    DEF RequestStep, CreateOwner, Login, Recover, RequestReset, Arrive,
        ServiceFails, ServiceSucceeds, Clear, Reading
  <2> QED BY <2>5, RefusalCounts DEF Refuse, Count
<1> QED BY <1>1, LimitCorrect, PTL DEF Spec, RefusalsJustified
==============================================================================
