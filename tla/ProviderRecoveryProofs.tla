----------------------- MODULE ProviderRecoveryProofs -----------------------
(***************************************************************************)
(* Proofs about Provider Recovery, for any number of Work Items, scopes,   *)
(* delays, limits and plans: types, the lease of a scope is held inside    *)
(* the scope, no attempt begins before the shared deadline, and no         *)
(* deadline is set past the limit of its Work Item.                        *)
(***************************************************************************)
EXTENDS ProviderRecovery, FiniteSetTheorems, FunctionTheorems, WellFoundedInduction, TLAPS

-----------------------------------------------------------------------------
(* The invariant of the database, and what one statement may do to it.      *)

Times == 0..MaxTime

Stamps == Times \union {Null}

Episodes == [status : {"none", "scheduled", "in_attempt", "exhausted", "closed"},
             scope : Scopes \union {NoScope}, at : Stamps, gen : Nat, started : Times]

Cooldowns == [exists : BOOLEAN, at : Stamps, probe : Items \union {NoItem}]

WakeJobs == [item : Items, gen : Nat, at : Times, left : {1, 2}, lock : BOOLEAN, copy : Nat]

Databases == [ep : [Items -> Episodes], cd : [Scopes -> Cooldowns], jobs : SUBSET WakeJobs]

\* A deadline exactly where one waits.
Dated(e) == e.status = "scheduled" <=> e.at # Null

\* The lease q of scope c is held inside the scope.
Inside(s, c, q) == q.probe # NoItem => s.ep[q.probe].scope = c

Sound(s) ==
    /\ s \in Databases /\ IsFiniteSet(s.jobs)
    /\ \A w \in Items : Dated(s.ep[w])
    /\ \A c \in Scopes : Inside(s, c, s.cd[c])

InTime(e) == e.status = "scheduled" /\ e.at > now => ~TooLong(e.started, e.at)

\* Deadlines that are new in t are within the limit.
Timely(s, t) ==
    \A w \in Items : \/ InTime(t.ep[w])
                     \/ t.ep[w].at = s.ep[w].at /\ t.ep[w].started = s.ep[w].started

Safe(s, t) == Sound(t) /\ Timely(s, t)

LEMMA SafeReflexive == ASSUME NEW s, Sound(s) PROVE Safe(s, s)
BY DEF Safe, Timely

LEMMA SafeTransitive ==
    ASSUME NEW s, NEW t, NEW u, Safe(s, t), Safe(t, u) PROVE Safe(s, u)
BY DEF Safe, Timely, Sound, InTime, Dated

LEMMA Constants ==
    /\ Items \subseteq Nat /\ IsFiniteSet(Items) /\ NoItem \notin Items
    /\ NoScope \notin Scopes /\ MaxTime \in Nat
BY RecoveryAssumption DEF RecoveryAssumption

\* A row of provider_recovery_episode is written.
LEMMA EpisodeSound ==
    ASSUME NEW s, Sound(s), NEW w \in Items, NEW e \in Episodes, Dated(e),
           \A c \in Scopes : s.cd[c].probe = w => e.scope = c
    PROVE  LET t == [s EXCEPT !.ep[w] = e]
           IN  /\ Sound(t) /\ t.cd = s.cd /\ t.jobs = s.jobs
               /\ \A v \in Items : t.ep[v] = IF v = w THEN e ELSE s.ep[v]
<1> DEFINE t == [s EXCEPT !.ep[w] = e]
<1>1. t \in Databases /\ t.jobs = s.jobs /\ t.cd = s.cd /\ t.ep = [s.ep EXCEPT ![w] = e]
  BY DEF Sound, Databases
<1> HIDE DEF t
<1>2. \A v \in Items : t.ep[v] = IF v = w THEN e ELSE s.ep[v]
  BY <1>1 DEF Sound, Databases
<1>3. \A v \in Items : Dated(t.ep[v])
  BY <1>2 DEF Sound
<1>4. ASSUME NEW c \in Scopes PROVE Inside(t, c, t.cd[c])
  <2>1. s.cd[c].probe \in Items \union {NoItem}
    BY DEF Sound, Databases, Cooldowns
  <2>2. Inside(s, c, s.cd[c])
    BY DEF Sound
  <2> QED BY <2>1, <2>2, <1>1, <1>2 DEF Inside
<1>5. Sound(t)
  BY <1>1, <1>3, <1>4 DEF Sound
<1> QED BY <1>1, <1>2, <1>5 DEF t

LEMMA EpisodeWritten ==
    ASSUME NEW s, Sound(s), NEW w \in Items, NEW e \in Episodes, Dated(e),
           InTime(e) \/ (e.at = s.ep[w].at /\ e.started = s.ep[w].started),
           \A c \in Scopes : s.cd[c].probe = w => e.scope = c
    PROVE  Safe(s, [s EXCEPT !.ep[w] = e])
<1> DEFINE t == [s EXCEPT !.ep[w] = e]
<1>1. Sound(t) /\ \A v \in Items : t.ep[v] = IF v = w THEN e ELSE s.ep[v]
  BY EpisodeSound
<1> HIDE DEF t
<1>2. Timely(s, t)
  BY <1>1 DEF Timely
<1> QED BY <1>1, <1>2 DEF Safe, t

\* The scope of the episode stays: its lease, if it has one, stays inside.
LEMMA OwnScope ==
    ASSUME NEW s, Sound(s), NEW w \in Items, NEW c \in Scopes, s.cd[c].probe = w
    PROVE  s.ep[w].scope = c
<1>1. Inside(s, c, s.cd[c]) /\ w # NoItem
  BY Constants DEF Sound
<1> QED BY <1>1 DEF Inside

\* A row of provider_recovery_cooldown is written.
LEMMA CooldownWritten ==
    ASSUME NEW s, Sound(s), NEW c \in Scopes, NEW q \in Cooldowns, Inside(s, c, q)
    PROVE  Safe(s, [s EXCEPT !.cd[c] = q])
<1> DEFINE t == [s EXCEPT !.cd[c] = q]
<1>1. t \in Databases /\ t.jobs = s.jobs /\ t.ep = s.ep /\ t.cd = [s.cd EXCEPT ![c] = q]
  BY DEF Sound, Databases
<1> HIDE DEF t
<1>2. \A d \in Scopes : t.cd[d] = IF d = c THEN q ELSE s.cd[d]
  BY <1>1 DEF Sound, Databases
<1>3. \A d \in Scopes : Inside(t, d, t.cd[d])
  BY <1>1, <1>2 DEF Sound, Inside
<1> QED BY <1>1, <1>3 DEF Safe, Sound, Timely, t

\* Wakes are added or taken away.
LEMMA JobsWritten ==
    ASSUME NEW s, Sound(s), NEW J \in SUBSET WakeJobs, IsFiniteSet(J)
    PROVE  Safe(s, [s EXCEPT !.jobs = J])
<1> DEFINE t == [s EXCEPT !.jobs = J]
<1>1. t \in Databases /\ t.jobs = J /\ t.ep = s.ep /\ t.cd = s.cd
  BY DEF Sound, Databases
<1> HIDE DEF t
<1> QED BY <1>1 DEF Safe, Sound, Inside, Timely, t

-----------------------------------------------------------------------------
(* Wakes. *)

LEMMA Fresh ==
    ASSUME NEW S \in SUBSET Nat, IsFiniteSet(S)
    PROVE  \E n \in 0..Cardinality(S) : n \notin S
<1>1. Cardinality(S) \in Nat
  BY FS_CardinalityType
<1>2. Cardinality(0..Cardinality(S)) = Cardinality(S) + 1
  BY <1>1, FS_Interval
<1>3. CASE 0..Cardinality(S) \subseteq S
  BY <1>1, <1>2, <1>3, FS_Subset
<1> QED BY <1>3

LEMMA FiniteImage ==
    ASSUME NEW S, IsFiniteSet(S), NEW f, DOMAIN f = S, NEW T, T = {f[x] : x \in S}
    PROVE  IsFiniteSet(T)
<1>1. [x \in S |-> f[x]] \in Surjection(S, T)
  BY DEF Surjection
<1> QED BY <1>1, FS_Surjection

LEMMA WakeType ==
    ASSUME NEW s, Sound(s), NEW w \in Items, NEW gen \in Nat, NEW at \in Times
    PROVE  Wake(s, w, gen, at) \in WakeJobs
<1> DEFINE twins == {k \in s.jobs : k.item = w /\ k.gen = gen /\ k.at = at}
           same  == {j.copy : j \in twins}
           f     == [j \in twins |-> j.copy]
<1>1. IsFiniteSet(twins)
  BY FS_Subset DEF Sound
<1>2. IsFiniteSet(same)
  <2>1. DOMAIN f = twins /\ same = {f[j] : j \in twins}
    OBVIOUS
  <2> HIDE DEF f, twins, same
  <2> QED BY <1>1, <2>1, FiniteImage
<1>3. same \subseteq Nat
  BY DEF Sound, Databases, WakeJobs
<1>4. (CHOOSE n \in 0..Cardinality(same) : n \notin same) \in Nat
  <2> HIDE DEF same
  <2>1. Cardinality(same) \in Nat /\ \E n \in 0..Cardinality(same) : n \notin same
    BY <1>2, <1>3, Fresh, FS_CardinalityType
  <2> QED BY <2>1
<1> QED BY <1>4 DEF Wake, WakeJobs

\* A wake is enqueued.
LEMMA WakeAdded ==
    ASSUME NEW s, Sound(s), NEW t, Sound(t), NEW w \in Items, NEW gen \in Nat, NEW at \in Times
    PROVE  Safe(t, [t EXCEPT !.jobs = @ \union {Wake(s, w, gen, at)}])
<1>1. t.jobs \in SUBSET WakeJobs /\ IsFiniteSet(t.jobs)
  BY DEF Sound, Databases
<1>2. IsFiniteSet(t.jobs \union {Wake(s, w, gen, at)})
  BY <1>1, FS_AddElement
<1>3. t.jobs \union {Wake(s, w, gen, at)} \in SUBSET WakeJobs
  BY <1>1, WakeType
<1> QED BY <1>2, <1>3, JobsWritten

LEMMA WakeEnqueued ==
    ASSUME NEW s, Sound(s), NEW t, Safe(s, t), NEW w \in Items, NEW gen \in Nat, NEW at \in Times
    PROVE  Safe(s, [t EXCEPT !.jobs = @ \union {Wake(s, w, gen, at)}])
<1>1. Safe(t, [t EXCEPT !.jobs = @ \union {Wake(s, w, gen, at)}])
  BY WakeAdded DEF Safe
<1> QED BY <1>1, SafeTransitive

-----------------------------------------------------------------------------
(* Statements. *)

\* t gives w no lease that w has not in s.
NoNewLease(s, t, w) == \A d \in Scopes : t.cd[d].probe = w => s.cd[d].probe = w

Statuses == {"none", "scheduled", "in_attempt", "exhausted", "closed"}

Moved(e, status, at, gen) == [e EXCEPT !.status = status, !.at = at, !.gen = gen]

LEMMA EpisodeMoved ==
    ASSUME NEW e \in Episodes, NEW status \in Statuses, NEW at \in Stamps, NEW gen \in Nat
    PROVE  LET n == Moved(e, status, at, gen)
           IN  /\ n \in Episodes
               /\ n.status = status /\ n.at = at /\ n.gen = gen
               /\ n.scope = e.scope /\ n.started = e.started
BY DEF Episodes, Statuses, Moved

LEMMA UnownedSafe ==
    ASSUME NEW s, Sound(s), NEW c \in Scopes
    PROVE  /\ Safe(s, Unowned(s, c))
           /\ Unowned(s, c).cd[c].probe = NoItem
           /\ \A w \in Items : NoNewLease(s, Unowned(s, c), w)
           /\ \A w \in Items : Unowned(s, c).ep[w] = s.ep[w]
<1> DEFINE q == [s.cd[c] EXCEPT !.probe = NoItem]
<1>1. s.cd \in [Scopes -> Cooldowns] /\ s \in Databases
  BY DEF Sound, Databases
<1>2. q \in Cooldowns /\ q.probe = NoItem
  BY <1>1 DEF Cooldowns
<1>3. Unowned(s, c) = [s EXCEPT !.cd[c] = q]
  BY <1>1 DEF Unowned
<1> HIDE DEF q
<1>4. Safe(s, Unowned(s, c))
  BY <1>2, <1>3, CooldownWritten DEF Inside
<1>5. Unowned(s, c).cd = [s.cd EXCEPT ![c] = q] /\ Unowned(s, c).ep = s.ep
  BY <1>1, <1>3 DEF Databases
<1>6. Items \subseteq Nat /\ NoItem \notin Items
  BY Constants
<1> QED BY <1>1, <1>2, <1>4, <1>5, <1>6 DEF NoNewLease

LEMMA DroppedSafe ==
    ASSUME NEW s, Sound(s), NEW c \in Scopes, NEW w \in Items
    PROVE  /\ Safe(s, Dropped(s, c, w))
           /\ Dropped(s, c, w).cd[c].probe # w
           /\ \A v \in Items : NoNewLease(s, Dropped(s, c, w), v)
           /\ \A v \in Items : Dropped(s, c, w).ep[v] = s.ep[v]
<1>1. NoItem \notin Items
  BY Constants
<1> QED BY <1>1, UnownedSafe, SafeReflexive DEF Dropped, Probe, NoNewLease

LEMMA ClearedSafe ==
    ASSUME NEW s, Sound(s), NEW wk, NEW c \in Scopes
    PROVE  /\ Safe(s, Cleared(wk, s, c))
           /\ \A w \in Items : NoNewLease(s, Cleared(wk, s, c), w)
           /\ \A w \in Items : Cleared(wk, s, c).ep[w] = s.ep[w]
BY UnownedSafe, SafeReflexive DEF Cleared, NoNewLease

LEMMA EndedSafe ==
    ASSUME NEW s, Sound(s), NEW w \in Items, NEW status \in {"exhausted", "closed"}
    PROVE  /\ Safe(s, Ended(s, w, status))
           /\ Ended(s, w, status).cd = s.cd
<1> DEFINE e == Moved(s.ep[w], status, Null, s.ep[w].gen + 1)
<1>1. s.ep \in [Items -> Episodes] /\ s \in Databases
  BY DEF Sound, Databases
<1>2. e \in Episodes /\ e.status = status /\ e.at = Null /\ e.scope = s.ep[w].scope
  <2>1. s.ep[w] \in Episodes
    BY <1>1
  <2>2. Null \in Stamps /\ status \in Statuses /\ s.ep[w].gen + 1 \in Nat
    BY <2>1 DEF Stamps, Statuses, Episodes
  <2> QED BY <2>1, <2>2, EpisodeMoved
<1>3. Ended(s, w, status) = IF Open(s.ep[w]) THEN [s EXCEPT !.ep[w] = e] ELSE s
  BY DEF Ended, Moved
<1> HIDE DEF e
<1>4. Dated(e) /\ InTime(e)
  BY <1>2 DEF Dated, InTime
<1>5. \A c \in Scopes : s.cd[c].probe = w => e.scope = c
  <2> TAKE c \in Scopes
  <2> HAVE s.cd[c].probe = w
  <2>1. w # NoItem
    BY Constants
  <2>2. Inside(s, c, s.cd[c])
    BY DEF Sound
  <2> QED BY <1>2, <2>1, <2>2 DEF Inside
<1>6. Safe(s, [s EXCEPT !.ep[w] = e]) /\ [s EXCEPT !.ep[w] = e].cd = s.cd
  BY <1>1, <1>2, <1>4, <1>5, EpisodeWritten DEF Databases
<1> QED BY <1>3, <1>6, SafeReflexive

LEMMA DeletedSafe ==
    ASSUME NEW s, Sound(s), NEW c \in Scopes
    PROVE  /\ Safe(s, Deleted(s, c))
           /\ \A w \in Items : NoNewLease(s, Deleted(s, c), w)
<1> DEFINE t == Deleted(s, c)
<1>1. s \in Databases /\ s.ep \in [Items -> Episodes] /\ s.cd \in [Scopes -> Cooldowns]
  BY DEF Sound, Databases
<1>2. NoItem \notin Items /\ NoScope \notin Scopes
  BY Constants
<1>3. /\ t.jobs = s.jobs
      /\ t.cd = [s.cd EXCEPT ![c] = NoCooldown]
      /\ t.ep = [w \in Items |-> IF s.ep[w].scope = c
                                  THEN [s.ep[w] EXCEPT !.scope = NoScope] ELSE s.ep[w]]
  BY <1>1 DEF Deleted, Databases
<1>4. NoCooldown \in Cooldowns /\ NoCooldown.probe = NoItem
  BY DEF NoCooldown, Cooldowns, Stamps
<1>5. \A w \in Items : /\ t.ep[w] \in Episodes
                        /\ t.ep[w].at = s.ep[w].at /\ t.ep[w].started = s.ep[w].started
                        /\ t.ep[w].status = s.ep[w].status
                        /\ t.ep[w].scope = IF s.ep[w].scope = c THEN NoScope ELSE s.ep[w].scope
  BY <1>1, <1>3 DEF Episodes
<1>6. t \in Databases
  <2>1. t.ep \in [Items -> Episodes]
    BY <1>3, <1>5
  <2>2. t.cd \in [Scopes -> Cooldowns]
    BY <1>1, <1>3, <1>4
  <2>3. t = [s EXCEPT !.cd = t.cd, !.ep = t.ep]
    BY <1>1, <1>3 DEF Deleted, Databases
  <2> HIDE DEF t
  <2> QED BY <1>1, <2>1, <2>2, <2>3 DEF Databases
<1>7. \A d \in Scopes : t.cd[d] = IF d = c THEN NoCooldown ELSE s.cd[d]
  BY <1>1, <1>3
<1> HIDE DEF t
<1>8. \A d \in Scopes : Inside(t, d, t.cd[d])
  <2> TAKE d \in Scopes
  <2>1. CASE d = c
    BY <2>1, <1>4, <1>7 DEF Inside
  <2>2. CASE d # c
    <3>1. s.cd[d].probe \in Items \union {NoItem} /\ Inside(s, d, s.cd[d])
      BY <1>1 DEF Cooldowns, Sound
    <3> QED BY <2>2, <3>1, <1>5, <1>7 DEF Inside
  <2> QED BY <2>1, <2>2
<1>9. IsFiniteSet(t.jobs) /\ \A w \in Items : Dated(t.ep[w])
  BY <1>3, <1>5 DEF Sound, Dated
<1>10. Timely(s, t)
  BY <1>5 DEF Timely
<1>11. \A w \in Items : NoNewLease(s, t, w)
  BY <1>2, <1>4, <1>7 DEF NoNewLease
<1> QED BY <1>6, <1>8, <1>9, <1>10, <1>11 DEF Safe, Sound, t

LEMMA DeletedIfIdleSafe ==
    ASSUME NEW s, Sound(s), NEW c \in Scopes
    PROVE  /\ Safe(s, DeletedIfIdle(s, c))
           /\ \A w \in Items : NoNewLease(s, DeletedIfIdle(s, c), w)
BY DeletedSafe, SafeReflexive DEF DeletedIfIdle, NoNewLease

\* The clock is within its bound, as it is in every reachable state.
Clock == now \in Times

LEMMA LatestTime ==
    ASSUME NEW a \in Stamps, NEW b \in Stamps, a \in Times \/ b \in Times
    PROVE  /\ Latest(a, b) \in Times /\ Latest(a, b) # Null
           /\ Latest(a, b) >= a /\ Latest(a, b) >= b
           /\ Latest(a, b) \in {a, b}
BY Constants DEF Latest, Times, Stamps, Null

LEMMA RescheduledSafe ==
    ASSUME NEW s, Sound(s), Clock, NEW W \in SUBSET Items, NEW at,
           \A w \in W : at[w] \in Times
    PROVE  /\ Safe(s, Rescheduled(s, W, at))
           /\ Rescheduled(s, W, at).cd = s.cd
           /\ \A w \in Items : Rescheduled(s, W, at).ep[w].scope = s.ep[w].scope
           /\ \A w \in Items \ W : Rescheduled(s, W, at).ep[w] = s.ep[w]
<1> DEFINE t == Rescheduled(s, W, at)
           F == {w \in W : ~TooLong(s.ep[w].started, Latest(now, at[w]))}
           f == [w \in F |-> Wake(s, w, s.ep[w].gen + 1, at[w])]
           J == {f[w] : w \in F}
           go(w) == Moved(s.ep[w], "scheduled", at[w], s.ep[w].gen + 1)
           stop(w) == Moved(s.ep[w], "exhausted", Null, s.ep[w].gen + 1)
<1>1. s \in Databases /\ s.ep \in [Items -> Episodes] /\ s.jobs \subseteq WakeJobs
  BY DEF Sound, Databases
<1>2. t = [s EXCEPT !.ep = [w \in Items |-> IF w \notin W THEN s.ep[w]
                                             ELSE IF w \in F THEN go(w) ELSE stop(w)],
                    !.jobs = s.jobs \union J]
  <2>1. J = {Wake(s, w, s.ep[w].gen + 1, at[w]) : w \in F}
    OBVIOUS
  <2> HIDE DEF J, f
  <2> QED BY <2>1 DEF Rescheduled, Moved
<1> HIDE DEF t, go, stop, f
<1>3. /\ t.cd = s.cd /\ t.jobs = s.jobs \union J
      /\ t.ep = [w \in Items |-> IF w \notin W THEN s.ep[w]
                                  ELSE IF w \in F THEN go(w) ELSE stop(w)]
  BY <1>1, <1>2 DEF Databases
<1>4. \A w \in Items : /\ s.ep[w] \in Episodes /\ s.ep[w].gen + 1 \in Nat
                        /\ s.ep[w].gen \in Nat
  BY <1>1 DEF Episodes
<1>5. ASSUME NEW w \in W, w \in F
      PROVE  /\ go(w) \in Episodes /\ go(w).scope = s.ep[w].scope
             /\ Dated(go(w)) /\ InTime(go(w))
  <2>1. at[w] \in Times /\ at[w] \in Stamps /\ at[w] # Null
    BY Constants DEF Times, Stamps, Null
  <2>2. "scheduled" \in Statuses
    BY DEF Statuses
  <2>3. /\ go(w) \in Episodes /\ go(w).status = "scheduled" /\ go(w).at = at[w]
        /\ go(w).scope = s.ep[w].scope /\ go(w).started = s.ep[w].started
    BY <1>4, <2>1, <2>2, EpisodeMoved DEF go
  <2>4. at[w] > now => Latest(now, at[w]) = at[w]
    BY <2>1 DEF Latest, Clock, Times
  <2>5. ~TooLong(s.ep[w].started, Latest(now, at[w]))
    BY <1>5
  <2> QED BY <2>1, <2>3, <2>4, <2>5 DEF Dated, InTime
<1>6. ASSUME NEW w \in W
      PROVE  /\ stop(w) \in Episodes /\ stop(w).scope = s.ep[w].scope
             /\ Dated(stop(w)) /\ InTime(stop(w))
  <2>1. Null \in Stamps /\ "exhausted" \in Statuses
    BY DEF Stamps, Statuses
  <2>2. /\ stop(w) \in Episodes /\ stop(w).status = "exhausted" /\ stop(w).at = Null
        /\ stop(w).scope = s.ep[w].scope
    BY <1>4, <2>1, EpisodeMoved DEF stop
  <2> QED BY <2>2 DEF Dated, InTime
<1>7. ASSUME NEW w \in Items
      PROVE  t.ep[w] = IF w \notin W THEN s.ep[w] ELSE IF w \in F THEN go(w) ELSE stop(w)
  BY <1>3
<1>11. \A w \in Items : t.ep[w] \in Episodes /\ t.ep[w].scope = s.ep[w].scope
  <2> HIDE DEF F
  <2> QED BY <1>4, <1>5, <1>6, <1>7
<1>13. \A w \in Items : Dated(t.ep[w])
  <2> HIDE DEF F
  <2>1. \A w \in Items : Dated(s.ep[w])
    BY DEF Sound
  <2> QED BY <2>1, <1>5, <1>6, <1>7
<1>14. \A w \in Items \ W : t.ep[w] = s.ep[w]
  BY <1>7
<1>15. \A w \in W : InTime(t.ep[w])
  <2> HIDE DEF F
  <2> TAKE w \in W
  <2>1. w \in Items
    OBVIOUS
  <2> QED BY <2>1, <1>5, <1>6, <1>7
<1>16. Timely(s, t)
  BY <1>14, <1>15 DEF Timely
<1>12. DOMAIN t.ep = Items /\ t.ep = [w \in Items |-> t.ep[w]]
  BY <1>3
<1>8. t.jobs \subseteq WakeJobs /\ IsFiniteSet(t.jobs)
  <2>1. IsFiniteSet(F)
    BY Constants, FS_Subset
  <2>2. DOMAIN f = F
    BY DEF f
  <2>3. IsFiniteSet(J)
    <3> HIDE DEF F, J
    <3>1. J = {f[w] : w \in F}
      BY DEF J
    <3> QED BY <2>1, <2>2, <3>1, FiniteImage
  <2>4. J \subseteq WakeJobs
    <3>1. \A w \in F : w \in Items /\ f[w] = Wake(s, w, s.ep[w].gen + 1, at[w])
      BY DEF f
    <3>2. \A w \in F : at[w] \in Times
      OBVIOUS
    <3> HIDE DEF F
    <3>3. \A w \in F : f[w] \in WakeJobs
      BY <1>4, <3>1, <3>2, WakeType
    <3> QED BY <3>3
  <2> HIDE DEF J
  <2>5. IsFiniteSet(s.jobs)
    BY DEF Sound
  <2>6. IsFiniteSet(s.jobs \union J)
    BY <2>3, <2>5, FS_Union
  <2> QED BY <1>1, <1>3, <2>4, <2>6
<1>9. t \in Databases
  <2>1. t.ep \in [Items -> Episodes]
    BY <1>11, <1>12
  <2>2. \E ep, jobs : t = [s EXCEPT !.ep = ep, !.jobs = jobs]
    BY <1>2
  <2>3. t = [s EXCEPT !.ep = t.ep, !.jobs = t.jobs]
    BY <1>1, <2>2 DEF Databases
  <2> HIDE DEF F, J
  <2> QED BY <1>1, <1>8, <2>1, <2>3 DEF Databases
<1>10. \A c \in Scopes : Inside(t, c, t.cd[c])
  <2> HIDE DEF F, J
  <2> TAKE c \in Scopes
  <2>1. s.cd[c].probe \in Items \union {NoItem} /\ Inside(s, c, s.cd[c])
    BY DEF Sound, Databases, Cooldowns
  <2>2. t.cd = s.cd
    BY <1>3
  <2> QED BY <2>1, <2>2, <1>11 DEF Inside
<1> HIDE DEF F, J
<1>17. Sound(t)
  BY <1>8, <1>9, <1>10, <1>13 DEF Sound
<1>18. \A w \in Items : t.ep[w].scope = s.ep[w].scope
  BY <1>11
<1> QED BY <1>3, <1>14, <1>16, <1>17, <1>18 DEF Safe, t

LEMMA RealignedSafe ==
    ASSUME NEW s, Sound(s), Clock, NEW c \in Scopes, NEW shared \in Times, NEW w \in Items
    PROVE  Safe(s, Realigned(s, c, shared, w))
<1> DEFINE probe == Probe(s, c)
           W     == WaitingIn(s, c) \ {w, probe}
           f     == [v \in W |-> Latest(s.ep[v].at, shared)]
           g     == [v \in {probe} |-> shared]
           s1    == Rescheduled(s, W, f)
           late  == probe \in WaitingIn(s, c) \ {w}
           s2    == Rescheduled(s1, {probe}, g)
<1>1. W \in SUBSET Items /\ \A v \in W : f[v] \in Times
  <2>1. W \in SUBSET Items
    BY DEF WaitingIn, OpenIn
  <2>2. \A v \in Items : s.ep[v].at \in Stamps
    BY DEF Sound, Databases, Episodes
  <2>3. shared \in Stamps
    BY DEF Stamps
  <2>4. \A v \in Items : Latest(s.ep[v].at, shared) \in Times
    BY <2>2, <2>3, LatestTime
  <2> QED BY <2>1, <2>4
<1>2. Safe(s, s1)
  <2> HIDE DEF f, W
  <2> QED BY <1>1, RescheduledSafe
<1>3. ASSUME late PROVE Safe(s, s2) /\ Safe(s, Unowned(s2, c))
  <2>1. {probe} \in SUBSET Items /\ \A v \in {probe} : g[v] \in Times
    BY <1>3 DEF WaitingIn, OpenIn
  <2> HIDE DEF s1, g, probe, late
  <2>2. Sound(s1)
    BY <1>2 DEF Safe
  <2>3. Safe(s1, Rescheduled(s1, {probe}, g))
    BY <2>1, <2>2, RescheduledSafe
  <2>4. Safe(s, s2)
    BY <1>2, <2>3, SafeTransitive
  <2> HIDE DEF s2
  <2>5. Safe(s2, Unowned(s2, c))
    BY <2>4, UnownedSafe DEF Safe
  <2> QED BY <2>4, <2>5, SafeTransitive
<1>4. Realigned(s, c, shared, w) = IF ~late THEN s1
        ELSE IF TooLong(s.ep[probe].started, Latest(now, shared)) THEN Unowned(s2, c)
        ELSE IF s.ep[probe].at # shared THEN s2
        ELSE s1
  BY DEF Realigned
<1> HIDE DEF s1, s2, late, probe, W
<1> QED BY <1>2, <1>3, <1>4

-----------------------------------------------------------------------------
(* The choice of the next probe. *)

LEMMA LeastNatural ==
    ASSUME NEW A, A \subseteq Nat, A # {}
    PROVE  \E a \in A : \A b \in A : a <= b
<1> DEFINE Less == {p \in Nat \X Nat : p[1] < p[2]}
<1>1. IsWellFoundedOn(Less, Nat)
  BY NatLessThanWellFounded DEF OpToRel
<1>2. \A a, b \in A : <<b, a>> \in Less <=> b < a
  OBVIOUS
<1> HIDE DEF Less
<1>3. PICK a \in A : \A b \in A : ~(<<b, a>> \in Less)
  BY <1>1, WFMin
<1>4. \A b \in A : a <= b
  <2> TAKE b \in A
  <2>1. a \in Nat /\ b \in Nat /\ ~(b < a)
    BY <1>2, <1>3
  <2> QED BY <2>1
<1> QED BY <1>3, <1>4

\* Of Work Items with deadlines one comes first, by deadline and then by id.
LEMMA FirstExists ==
    ASSUME NEW I \in SUBSET Items, I # {}, NEW at, \A v \in I : at[v] \in Nat
    PROVE  \E v \in I : \A u \in I \ {v} : at[v] < at[u] \/ (at[v] = at[u] /\ v < u)
<1> DEFINE A == {at[v] : v \in I}
<1>1. A \subseteq Nat /\ A # {}
  OBVIOUS
<1>2. PICK a \in A : \A b \in A : a <= b
  BY <1>1, LeastNatural
<1> DEFINE B == {v \in I : at[v] = a}
<1>3. B \subseteq Nat /\ B # {}
  BY <1>2, Constants
<1>4. PICK v \in B : \A u \in B : v <= u
  BY <1>3, LeastNatural
<1>5. v \in I /\ at[v] = a
  BY <1>4
<1>6. ASSUME NEW u \in I \ {v} PROVE at[v] < at[u] \/ (at[v] = at[u] /\ v < u)
  <2>1. at[u] \in Nat /\ a \in Nat /\ a <= at[u]
    BY <1>1, <1>2
  <2>2. CASE at[u] = a
    <3>1. u \in B /\ v \in Nat /\ u \in Nat
      BY <2>2, <1>3, <1>4
    <3>2. v <= u /\ u # v
      BY <3>1, <1>4
    <3> QED BY <3>1, <3>2, <2>2, <1>5
  <2> QED BY <2>1, <2>2, <1>5
<1> QED BY <1>5, <1>6

\* A cooldown gets the deadline at and the probe w, a member of its scope.
LEMMA LeaseGiven ==
    ASSUME NEW s, Sound(s), NEW c \in Scopes, NEW w \in Items, s.ep[w].scope = c,
           NEW at \in Stamps
    PROVE  LET t == [s EXCEPT !.cd[c].at = at, !.cd[c].probe = w]
           IN  /\ Safe(s, t) /\ t.ep = s.ep
               /\ \A v \in Items \ {w} : NoNewLease(s, t, v)
<1> DEFINE q == [s.cd[c] EXCEPT !.at = at, !.probe = w]
           t == [s EXCEPT !.cd[c] = q]
<1>1. s \in Databases /\ s.cd \in [Scopes -> Cooldowns]
  BY DEF Sound, Databases
<1>2. q \in Cooldowns /\ q.probe = w
  BY <1>1 DEF Cooldowns
<1>3. t = [s EXCEPT !.cd[c].at = at, !.cd[c].probe = w]
  BY <1>1
<1> HIDE DEF q
<1>4. Safe(s, t)
  BY <1>2, CooldownWritten DEF Inside
<1>5. t.ep = s.ep /\ \A d \in Scopes : t.cd[d] = IF d = c THEN q ELSE s.cd[d]
  BY <1>1 DEF Databases
<1> HIDE DEF t
<1>6. \A v \in Items \ {w} : NoNewLease(s, t, v)
  BY <1>2, <1>5 DEF NoNewLease
<1> QED BY <1>3, <1>4, <1>5, <1>6

LEMMA PromotedFromSafe ==
    ASSUME NEW s, Sound(s), Clock, NEW wk, NEW c \in Scopes, NEW excluded
    PROVE  /\ Safe(s, PromotedFrom(wk, s, c, excluded))
           /\ excluded \in Items => NoNewLease(s, PromotedFrom(wk, s, c, excluded), excluded)
<1> DEFINE deadline == Latest(now, s.cd[c].at)
           before(v, u) == s.ep[v].at < s.ep[u].at \/ (s.ep[v].at = s.ep[u].at /\ v < u)
           eligible == {v \in WaitingIn(s, c) \ {excluded} : Valid(wk, s, v)}
           inTime   == {v \in eligible : ~TooLong(s.ep[v].started, deadline)}
           next     == CHOOSE v \in inTime : \A u \in inTime \ {v} : before(v, u)
           lost     == IF inTime = {} THEN eligible ELSE {v \in eligible \ inTime : before(v, next)}
           f        == [v \in lost |-> deadline]
           s1       == Rescheduled(s, lost, f)
           s2       == [s1 EXCEPT !.cd[c].at = deadline, !.cd[c].probe = next]
           g        == [v \in {next} |-> deadline]
<1>1. PromotedFrom(wk, s, c, excluded) =
        IF Probe(s, c) \notin {NoItem, excluded} THEN s
        ELSE IF inTime = {} THEN DeletedIfIdle(s1, c)
        ELSE Rescheduled(s2, {next}, g)
  BY DEF PromotedFrom
<1>2. s.ep \in [Items -> Episodes] /\ s.cd \in [Scopes -> Cooldowns]
  BY DEF Sound, Databases
<1>3. deadline \in Times /\ deadline \in Stamps
  <2>1. s.cd[c].at \in Stamps /\ now \in Stamps /\ now \in Times
    BY <1>2 DEF Cooldowns, Clock, Stamps
  <2> QED BY <2>1, LatestTime DEF Stamps
<1>4. /\ eligible \subseteq Items /\ excluded \notin eligible
      /\ \A v \in eligible : s.ep[v].scope = c /\ s.ep[v].status = "scheduled"
  BY DEF WaitingIn, OpenIn
<1>5. inTime \subseteq eligible /\ lost \subseteq eligible
  <2> HIDE DEF eligible, before, next, deadline
  <2> QED OBVIOUS
<1> HIDE DEF deadline, eligible, lost
<1>6. ASSUME inTime # {} PROVE next \in inTime
  <2> HIDE DEF inTime
  <2> DEFINE at == [v \in Items |-> s.ep[v].at]
  <2>1. inTime \in SUBSET Items
    BY <1>4, <1>5
  <2>2. \A v \in inTime : at[v] \in Nat
    <3> TAKE v \in inTime
    <3>1. v \in Items /\ s.ep[v].status = "scheduled"
      BY <1>4, <1>5
    <3>2. Dated(s.ep[v]) /\ s.ep[v].at \in Stamps
      BY <3>1, <1>2 DEF Sound, Episodes
    <3> QED BY <3>1, <3>2 DEF Dated, Stamps, Times
  <2>3. \A v \in Items : at[v] = s.ep[v].at
    OBVIOUS
  <2> HIDE DEF at
  <2>4. \E v \in inTime : \A u \in inTime \ {v} : at[v] < at[u] \/ (at[v] = at[u] /\ v < u)
    BY <1>6, <2>1, <2>2, FirstExists
  <2>5. \E v \in inTime : \A u \in inTime \ {v} : before(v, u)
    BY <2>1, <2>3, <2>4
  <2> HIDE DEF before
  <2> QED BY <2>5
<1> HIDE DEF inTime, next
<1>7. /\ Safe(s, s1) /\ s1.cd = s.cd
      /\ \A v \in Items : s1.ep[v].scope = s.ep[v].scope
  <2>1. lost \in SUBSET Items /\ \A v \in lost : f[v] \in Times
    BY <1>3, <1>4, <1>5
  <2> HIDE DEF f
  <2> QED BY <2>1, RescheduledSafe
<1> HIDE DEF s1
<1>8. Sound(s1)
  BY <1>7 DEF Safe
<1>9. CASE Probe(s, c) \notin {NoItem, excluded}
  BY <1>1, <1>9, SafeReflexive DEF NoNewLease
<1>10. CASE Probe(s, c) \in {NoItem, excluded} /\ inTime = {}
  <2>1. Safe(s1, DeletedIfIdle(s1, c)) /\ \A v \in Items : NoNewLease(s1, DeletedIfIdle(s1, c), v)
    BY <1>8, DeletedIfIdleSafe
  <2>2. Safe(s, DeletedIfIdle(s1, c))
    BY <2>1, <1>7, SafeTransitive
  <2>3. PromotedFrom(wk, s, c, excluded) = DeletedIfIdle(s1, c)
    BY <1>1, <1>10
  <2> QED BY <2>1, <2>2, <2>3, <1>7 DEF NoNewLease
<1>11. CASE Probe(s, c) \in {NoItem, excluded} /\ inTime # {}
  <2>1. next \in Items /\ next # excluded /\ s.ep[next].scope = c
    BY <1>4, <1>5, <1>6, <1>11
  <2>2. s1.ep[next].scope = c
    BY <2>1, <1>7
  <2>3. Safe(s1, s2) /\ s2.ep = s1.ep /\ \A v \in Items \ {next} : NoNewLease(s1, s2, v)
    BY <2>1, <2>2, <1>3, <1>8, LeaseGiven
  <2> HIDE DEF s2
  <2>4. {next} \in SUBSET Items /\ \A v \in {next} : g[v] \in Times
    BY <2>1, <1>3
  <2> HIDE DEF g
  <2>5. Safe(s2, Rescheduled(s2, {next}, g)) /\ Rescheduled(s2, {next}, g).cd = s2.cd
    BY <2>3, <2>4, RescheduledSafe DEF Safe
  <2>6. Safe(s, Rescheduled(s2, {next}, g))
    BY <2>3, <2>5, <1>7, SafeTransitive
  <2>7. PromotedFrom(wk, s, c, excluded) = Rescheduled(s2, {next}, g)
    BY <1>1, <1>11
  <2>8. excluded \in Items => NoNewLease(s1, s2, excluded)
    BY <2>1, <2>3
  <2> QED BY <2>5, <2>6, <2>7, <2>8, <1>7 DEF NoNewLease
<1> QED BY <1>9, <1>10, <1>11

LEMMA PromotedSafe ==
    ASSUME NEW s, Sound(s), Clock, NEW wk, NEW c \in Scopes, NEW excluded
    PROVE  /\ Safe(s, Promoted(wk, s, c, excluded))
           /\ excluded \in Items => NoNewLease(s, Promoted(wk, s, c, excluded), excluded)
<1> DEFINE t == Cleared(wk, s, c)
           u == PromotedFrom(wk, t, c, excluded)
<1>1. Safe(s, t) /\ \A w \in Items : NoNewLease(s, t, w)
  BY ClearedSafe
<1> HIDE DEF t
<1>2. Sound(t)
  BY <1>1 DEF Safe
<1>3. Safe(t, u) /\ (excluded \in Items => NoNewLease(t, u, excluded))
  BY <1>2, PromotedFromSafe
<1>4. Promoted(wk, s, c, excluded) = IF s.cd[c].exists THEN u ELSE s
  BY DEF Promoted, t
<1> HIDE DEF u
<1>5. Safe(s, u)
  BY <1>1, <1>3, SafeTransitive
<1>6. excluded \in Items => NoNewLease(s, u, excluded)
  BY <1>1, <1>3 DEF NoNewLease
<1>7. NoNewLease(s, s, excluded)
  BY DEF NoNewLease
<1> QED BY <1>4, <1>5, <1>6, <1>7, SafeReflexive

-----------------------------------------------------------------------------
(* The calls of the cooldown. *)

LEMMA ReleasedSafe ==
    ASSUME NEW s, Sound(s), Clock, NEW c \in Scopes
    PROVE  Safe(s, Released(s, c))
<1> DEFINE W == WaitingIn(s, c)
           f == [v \in W |-> now]
           t == Rescheduled(s, W, f)
<1>1. W \in SUBSET Items /\ \A v \in W : f[v] \in Times
  BY DEF WaitingIn, OpenIn, Clock
<1>2. Released(s, c) = Deleted(t, c)
  BY DEF Released
<1> HIDE DEF f, W
<1>3. Safe(s, t)
  BY <1>1, RescheduledSafe
<1> HIDE DEF t
<1>4. Safe(t, Deleted(t, c))
  BY <1>3, DeletedSafe DEF Safe
<1> QED BY <1>2, <1>3, <1>4, SafeTransitive

LEMMA ReplacedSafe ==
    ASSUME NEW s, Sound(s), Clock, NEW wk, NEW c \in Scopes, NEW w \in Items
    PROVE  LET t == DeletedIfIdle(Promoted(wk, Dropped(s, c, w), c, w), c)
           IN  /\ Safe(s, t)
               /\ NoNewLease(s, t, w)
               /\ t.cd[c].probe # w
<1> DEFINE d == Dropped(s, c, w)
           p == Promoted(wk, d, c, w)
           t == DeletedIfIdle(p, c)
<1>1. Safe(s, d) /\ d.cd[c].probe # w /\ NoNewLease(s, d, w)
  BY DroppedSafe
<1> HIDE DEF d
<1>2. Safe(d, p) /\ NoNewLease(d, p, w)
  BY <1>1, PromotedSafe DEF Safe
<1> HIDE DEF p
<1>3. Safe(p, t) /\ NoNewLease(p, t, w)
  BY <1>2, DeletedIfIdleSafe DEF Safe
<1> HIDE DEF t
<1>4. Safe(s, t)
  <2>1. Safe(s, p)
    BY <1>1, <1>2, SafeTransitive
  <2> QED BY <2>1, <1>3, SafeTransitive
<1>5. NoNewLease(s, t, w) /\ t.cd[c].probe # w
  BY <1>1, <1>2, <1>3 DEF NoNewLease
<1> QED BY <1>4, <1>5 DEF t, p, d

LEMMA ScopeType ==
    ASSUME NEW s, Sound(s), NEW w \in Items
    PROVE  s.ep[w].scope \in Scopes \union {NoScope}
BY DEF Sound, Databases, Episodes

LEMMA SettledSafe ==
    ASSUME NEW s, Sound(s), Clock, NEW wk, NEW w \in Items, NEW outcome
    PROVE  Safe(s, Settled(wk, s, w, outcome))
<1> DEFINE c == s.ep[w].scope
<1>1. CASE c = NoScope
  BY <1>1, SafeReflexive DEF Settled
<1>2. CASE c # NoScope
  <2>1. c \in Scopes
    BY <1>2, ScopeType
  <2>2. Settled(wk, s, w, outcome) =
          IF outcome = "recovered"
          THEN IF Probe(s, c) = w THEN Released(s, c) ELSE DeletedIfIdle(s, c)
          ELSE DeletedIfIdle(Promoted(wk, Dropped(s, c, w), c, w), c)
    BY <1>2 DEF Settled
  <2> HIDE DEF c
  <2>3. Safe(s, Released(s, c))
    BY <2>1, ReleasedSafe
  <2>4. Safe(s, DeletedIfIdle(s, c))
    BY <2>1, DeletedIfIdleSafe
  <2>5. Safe(s, DeletedIfIdle(Promoted(wk, Dropped(s, c, w), c, w), c))
    BY <2>1, ReplacedSafe
  <2> QED BY <2>2, <2>3, <2>4, <2>5
<1> QED BY <1>1, <1>2

LEMMA ClosedSafe ==
    ASSUME NEW s, Sound(s), Clock, NEW wk, NEW w \in Items, NEW outcome
    PROVE  Safe(s, Closed(wk, s, w, outcome))
<1> DEFINE t == Ended(s, w, "closed")
<1>1. Safe(s, t)
  BY EndedSafe
<1> HIDE DEF t
<1>2. Safe(t, Settled(wk, t, w, outcome))
  BY <1>1, SettledSafe DEF Safe
<1> QED BY <1>1, <1>2, SafeTransitive DEF Closed, t

\* A failed item that joins the cooldown of c holds no lease of another one.
LEMMA JoiningSafe ==
    ASSUME NEW s, Sound(s), Clock, NEW wk, NEW w \in Items, NEW c \in Scopes
    PROVE  /\ Safe(s, Joining(wk, s, w, c))
           /\ \A d \in Scopes : Joining(wk, s, w, c).cd[d].probe = w => d = c
<1> DEFINE p  == s.ep[w].scope
           q  == [exists |-> TRUE, at |-> Null, probe |-> NoItem]
           s1 == IF s.cd[c].exists THEN s ELSE [s EXCEPT !.cd[c] = q]
           s2 == IF p \in {NoScope, c} THEN s1
                 ELSE DeletedIfIdle(Promoted(wk, Dropped(s1, p, w), p, w), p)
<1>1. Joining(wk, s, w, c) = Cleared(wk, s2, c)
  BY DEF Joining
<1>2. s \in Databases /\ NoItem \notin Items
  BY Constants DEF Sound
<1>3. q \in Cooldowns /\ q.probe = NoItem
  BY DEF Cooldowns, Stamps
<1> HIDE DEF q
<1>4. Safe(s, s1)
  <2>1. Safe(s, [s EXCEPT !.cd[c] = q])
    BY <1>3, CooldownWritten DEF Inside
  <2> QED BY <2>1, SafeReflexive
<1>5. NoNewLease(s, s1, w)
  <2>1. \A d \in Scopes : [s EXCEPT !.cd[c] = q].cd[d] = IF d = c THEN q ELSE s.cd[d]
    BY <1>2 DEF Databases
  <2> QED BY <2>1, <1>2, <1>3 DEF NoNewLease
<1> HIDE DEF s1
<1>6. \A d \in Scopes : s1.cd[d].probe = w => d = p
  BY <1>5, OwnScope DEF NoNewLease
<1>7. Safe(s, s2) /\ \A d \in Scopes : s2.cd[d].probe = w => d = c
  <2>1. CASE p \in {NoScope, c}
    BY <2>1, <1>4, <1>6, Constants
  <2>2. CASE p \notin {NoScope, c}
    <3>1. p \in Scopes /\ Sound(s1)
      BY <2>2, <1>4, ScopeType DEF Safe
    <3> HIDE DEF p
    <3>2. /\ Safe(s1, DeletedIfIdle(Promoted(wk, Dropped(s1, p, w), p, w), p))
          /\ NoNewLease(s1, DeletedIfIdle(Promoted(wk, Dropped(s1, p, w), p, w), p), w)
          /\ DeletedIfIdle(Promoted(wk, Dropped(s1, p, w), p, w), p).cd[p].probe # w
      BY <3>1, ReplacedSafe
    <3>3. s2 = DeletedIfIdle(Promoted(wk, Dropped(s1, p, w), p, w), p)
      BY <2>2
    <3> HIDE DEF s2
    <3>4. Safe(s, s2)
      BY <3>2, <3>3, <1>4, SafeTransitive
    <3>5. \A d \in Scopes : s2.cd[d].probe # w
      BY <3>2, <3>3, <1>6 DEF NoNewLease
    <3> QED BY <3>4, <3>5
  <2> QED BY <2>1, <2>2
<1> HIDE DEF s2, p
<1>8. Safe(s2, Cleared(wk, s2, c)) /\ NoNewLease(s2, Cleared(wk, s2, c), w)
  BY <1>7, ClearedSafe DEF Safe
<1>9. Safe(s, Cleared(wk, s2, c))
  BY <1>7, <1>8, SafeTransitive
<1> QED BY <1>1, <1>7, <1>8, <1>9 DEF NoNewLease

Free(s, w, c) == \A d \in Scopes : s.cd[d].probe = w => d = c

LEMMA EpisodeSafe ==
    ASSUME NEW s, Sound(s), Clock, NEW w \in Items, NEW c \in Scopes, Free(s, w, c),
           NEW status \in Statuses, NEW at \in Stamps, NEW gen \in Nat,
           status = "scheduled" <=> at # Null,
           status = "scheduled" /\ at > now => ~TooLong(Started(s, w), at)
    PROVE  LET t == Episode(s, w, status, c, at, gen)
           IN  Safe(s, t) /\ t.cd = s.cd /\ t.ep[w].scope = c
<1> DEFINE e == [status |-> status, scope |-> c, at |-> at, gen |-> gen,
                 started |-> Started(s, w)]
<1>1. Started(s, w) \in Times
  <2>1. s.ep[w].started \in Times
    BY DEF Sound, Databases, Episodes
  <2> QED BY <2>1 DEF Started, Clock
<1>2. e \in Episodes
  BY <1>1 DEF Episodes, Statuses
<1>3. /\ e.status = status /\ e.scope = c /\ e.at = at
      /\ e.started = Started(s, w)
  OBVIOUS
<1>4. Episode(s, w, status, c, at, gen) = [s EXCEPT !.ep[w] = e]
  BY DEF Episode
<1> HIDE DEF e
<1>5. Dated(e) /\ InTime(e)
  BY <1>3 DEF Dated, InTime
<1>6. \A d \in Scopes : s.cd[d].probe = w => e.scope = d
  BY <1>3 DEF Free
<1>7. Safe(s, [s EXCEPT !.ep[w] = e])
  BY <1>2, <1>5, <1>6, EpisodeWritten
<1>8. [s EXCEPT !.ep[w] = e].cd = s.cd /\ [s EXCEPT !.ep[w] = e].ep[w] = e
  BY DEF Sound, Databases
<1> QED BY <1>3, <1>4, <1>7, <1>8

LEMMA GaveUpSafe ==
    ASSUME NEW s, Sound(s), Clock, NEW wk, NEW w \in Items, NEW c \in Scopes, Free(s, w, c),
           NEW gen \in Nat
    PROVE  Safe(s, GaveUp(wk, s, w, c, gen))
<1> DEFINE t == Episode(s, w, "exhausted", c, Null, gen)
<1>1. Null \in Stamps /\ "exhausted" \in Statuses
  BY DEF Stamps, Statuses
<1>2. Safe(s, t)
  BY <1>1, EpisodeSafe
<1>3. GaveUp(wk, s, w, c, gen) = DeletedIfIdle(Promoted(wk, Dropped(t, c, w), c, w), c)
  BY DEF GaveUp
<1> HIDE DEF t
<1>4. Safe(t, DeletedIfIdle(Promoted(wk, Dropped(t, c, w), c, w), c))
  BY <1>2, ReplacedSafe DEF Safe
<1> QED BY <1>2, <1>3, <1>4, SafeTransitive

LEMMA PlannedSafe ==
    ASSUME NEW s, Sound(s), Clock, NEW wk, NEW w \in Items, NEW c \in Scopes, Free(s, w, c),
           NEW plan \in Times, NEW floor \in Stamps
    PROVE  Safe(s, Planned(wk, s, w, c, plan, floor))
<1> DEFINE cool     == s.cd[c]
           follows  == cool.probe \notin {NoItem, w}
           standing == IF cool.at > now THEN cool.at ELSE Null
           shared   == IF follows
                       THEN Latest(IF cool.at = Null THEN now ELSE cool.at, floor)
                       ELSE Latest(plan, floor)
           deadline == Latest(plan, shared)
           gen      == Generation(s, w)
           s1       == Episode(s, w, "scheduled", c, deadline, gen)
           probe    == IF follows THEN cool.probe ELSE w
           q        == [cool EXCEPT !.at = shared, !.probe = probe]
           s0       == [s1 EXCEPT !.cd[c] = q]
           s2       == [s0 EXCEPT !.jobs = @ \union {Wake(s1, w, gen, deadline)}]
           s3       == Realigned(s2, c, shared, w)
<1>1. s.ep \in [Items -> Episodes] /\ s.cd \in [Scopes -> Cooldowns]
  BY DEF Sound, Databases
<1>2. cool \in Cooldowns /\ cool.at \in Stamps /\ cool.probe \in Items \union {NoItem}
  BY <1>1 DEF Cooldowns
<1>3. gen \in Nat
  BY <1>1 DEF Generation, Episodes
<1>4. shared \in Times /\ shared \in Stamps
  <2>1. plan \in Stamps /\ now \in Times /\ (cool.at = Null \/ cool.at \in Times)
    BY <1>2 DEF Stamps, Clock
  <2>2. (IF cool.at = Null THEN now ELSE cool.at) \in Times
    BY <2>1, <1>2 DEF Stamps, Clock
  <2>3. (IF cool.at = Null THEN now ELSE cool.at) \in Stamps
    BY <2>2 DEF Stamps
  <2> HIDE DEF cool, follows
  <2>4. Latest(IF cool.at = Null THEN now ELSE cool.at, floor) \in Times
    BY <2>2, <2>3, LatestTime
  <2>5. Latest(plan, floor) \in Times
    BY LatestTime DEF Stamps
  <2> QED BY <2>4, <2>5 DEF Stamps
<1>5. deadline \in Times /\ deadline \in Stamps /\ deadline # Null
  <2> HIDE DEF shared
  <2>1. plan \in Stamps
    BY DEF Stamps
  <2> QED BY <2>1, <1>4, LatestTime DEF Stamps
<1>6. Planned(wk, s, w, c, plan, floor) =
        IF TooLong(Started(s, w), now) \/ TooLong(Started(s, w), plan) THEN GaveUp(wk, s, w, c, 0)
        ELSE IF TooLong(Started(s, w), deadline) THEN GaveUp(wk, s, w, c, gen)
        ELSE IF standing = shared /\ cool.probe # w THEN s2
        ELSE Manned(wk, s3, c)
  <2>1. s1.cd = s.cd
    BY DEF Episode
  <2>2. s2 = [s1 EXCEPT !.cd[c].at = shared, !.cd[c].probe = probe,
                        !.jobs = @ \union {Wake(s1, w, gen, deadline)}]
    <3> HIDE DEF shared, probe, gen, deadline, s1
    <3> QED BY <2>1
  <2> HIDE DEF s2
  <2> QED BY <2>2 DEF Planned
<1>7. Safe(s, GaveUp(wk, s, w, c, 0)) /\ Safe(s, GaveUp(wk, s, w, c, gen))
  BY <1>3, GaveUpSafe
<1>8. probe \in Items /\ q \in Cooldowns /\ q.probe = probe
  <2>1. probe \in Items
    BY <1>2
  <2> HIDE DEF probe, shared, cool
  <2> QED BY <2>1, <1>2, <1>4 DEF Cooldowns
<1> HIDE DEF deadline, gen, s3
<1>9. ASSUME ~TooLong(Started(s, w), deadline)
      PROVE  Safe(s, s2) /\ Safe(s, Manned(wk, s3, c))
  <2>1. "scheduled" \in Statuses
    BY DEF Statuses
  <2>2. Safe(s, s1) /\ s1.cd = s.cd /\ s1.ep[w].scope = c
    BY <1>3, <1>5, <1>9, <2>1, EpisodeSafe
  <2> HIDE DEF s1
  <2>3. Sound(s1)
    BY <2>2 DEF Safe
  <2>4. Inside(s1, c, q)
    <3>1. CASE follows
      <4>1. s1.cd[c].probe = probe /\ probe # NoItem
        BY <2>2, <3>1
      <4> QED BY <2>3, <4>1, <1>8, OwnScope DEF Inside
    <3>2. CASE ~follows
      <4>1. probe = w
        BY <3>2
      <4> QED BY <2>2, <4>1, <1>8 DEF Inside
    <3> QED BY <3>1, <3>2
  <2> HIDE DEF q, probe, follows, shared, cool
  <2>5. Safe(s1, s0)
    BY <2>3, <2>4, <1>8, CooldownWritten
  <2> HIDE DEF s0
  <2>6. Safe(s1, s2)
    BY <2>3, <2>5, <1>3, <1>5, WakeEnqueued
  <2>7. Safe(s, s2)
    BY <2>2, <2>6, SafeTransitive
  <2> HIDE DEF s2
  <2>8. Safe(s2, s3)
    BY <2>7, <1>4, RealignedSafe DEF Safe, s3
  <2>9. Safe(s, s3)
    BY <2>7, <2>8, SafeTransitive
  <2>10. Safe(s3, Manned(wk, s3, c))
    BY <2>9, PromotedSafe, SafeReflexive DEF Safe, Manned
  <2> QED BY <2>7, <2>9, <2>10, SafeTransitive
<1> HIDE DEF s2, shared, standing, cool
<1> QED BY <1>6, <1>7, <1>9

LEMMA CoordinatedSafe ==
    ASSUME NEW s, Sound(s), Clock, NEW wk, NEW w \in Items, NEW c \in Scopes,
           NEW plan \in Times, NEW floor \in Stamps
    PROVE  Safe(s, Coordinated(wk, s, w, c, plan, floor))
<1> DEFINE t == Joining(wk, s, w, c)
<1>1. Safe(s, t) /\ Free(t, w, c)
  BY JoiningSafe DEF Free
<1> HIDE DEF t
<1>2. Safe(t, Planned(wk, t, w, c, plan, floor))
  BY <1>1, PlannedSafe DEF Safe
<1> QED BY <1>1, <1>2, SafeTransitive DEF Coordinated, t

\* The row of an episode is moved in place: it keeps its scope and its start.
LEMMA MovedSafe ==
    ASSUME NEW s, Sound(s), NEW w \in Items, NEW status \in Statuses, NEW at \in Stamps,
           NEW gen \in Nat, status = "scheduled" <=> at # Null
    PROVE  LET t == [s EXCEPT !.ep[w] = Moved(s.ep[w], status, at, gen)]
           IN  /\ Sound(t) /\ t.cd = s.cd /\ t.jobs = s.jobs
               /\ (status = "scheduled" /\ at > now /\ at # s.ep[w].at
                      => ~TooLong(s.ep[w].started, at)) => Safe(s, t)
<1> DEFINE e == Moved(s.ep[w], status, at, gen)
           t == [s EXCEPT !.ep[w] = e]
<1>1. s.ep[w] \in Episodes
  BY DEF Sound, Databases
<1>2. /\ e \in Episodes /\ e.status = status /\ e.at = at
      /\ e.scope = s.ep[w].scope /\ e.started = s.ep[w].started
  BY <1>1, EpisodeMoved
<1> HIDE DEF e
<1>3. Dated(e)
  BY <1>2 DEF Dated
<1>4. \A c \in Scopes : s.cd[c].probe = w => e.scope = c
  BY <1>2, OwnScope
<1>5. Sound(t) /\ t.cd = s.cd /\ t.jobs = s.jobs
  BY <1>2, <1>3, <1>4, EpisodeSound
<1>6. ASSUME status = "scheduled" /\ at > now /\ at # s.ep[w].at => ~TooLong(s.ep[w].started, at)
      PROVE  Safe(s, t)
  <2>1. InTime(e) \/ (e.at = s.ep[w].at /\ e.started = s.ep[w].started)
    BY <1>2, <1>6 DEF InTime
  <2> QED BY <2>1, <1>2, <1>3, <1>4, EpisodeWritten
<1> QED BY <1>5, <1>6 DEF t, e

\* The Work Item loses every lease.
NoLease(s, w) == [d \in Scopes |-> IF s.cd[d].probe = w
                                   THEN [s.cd[d] EXCEPT !.probe = NoItem] ELSE s.cd[d]]

LEMMA LeasesTaken ==
    ASSUME NEW s, Sound(s), NEW w \in Items
    PROVE  LET t == [s EXCEPT !.cd = NoLease(s, w)]
           IN  /\ Safe(s, t) /\ t.ep = s.ep /\ t.jobs = s.jobs
               /\ \A d \in Scopes : t.cd[d].probe # w
<1> DEFINE C == NoLease(s, w)
           t == [s EXCEPT !.cd = C]
<1>1. s \in Databases /\ s.cd \in [Scopes -> Cooldowns]
  BY DEF Sound, Databases
<1>2. \A d \in Scopes : s.cd[d] \in Cooldowns
  BY <1>1
<1>3. \A d \in Scopes : /\ C[d] \in Cooldowns
                         /\ C[d].probe = IF s.cd[d].probe = w THEN NoItem ELSE s.cd[d].probe
  BY <1>2 DEF Cooldowns, NoLease
<1>4. C \in [Scopes -> Cooldowns]
  BY <1>3 DEF NoLease
<1> HIDE DEF C
<1>5. t \in Databases /\ t.ep = s.ep /\ t.jobs = s.jobs /\ t.cd = C
  BY <1>1, <1>4 DEF Databases
<1> HIDE DEF t
<1>6. \A d \in Scopes : Inside(t, d, t.cd[d])
  <2> TAKE d \in Scopes
  <2>1. Inside(s, d, s.cd[d])
    BY DEF Sound
  <2> QED BY <2>1, <1>3, <1>5 DEF Inside
<1>7. \A d \in Scopes : t.cd[d].probe # w
  BY <1>3, <1>5, Constants
<1>8. Safe(s, t)
  BY <1>5, <1>6 DEF Safe, Sound, Timely
<1> QED BY <1>5, <1>7, <1>8 DEF t, C

LEMMA ParkedSafe ==
    ASSUME NEW s, Sound(s), Clock, NEW wk, NEW w \in Items
    PROVE  Safe(s, Parked(wk, s, w))
<1> DEFINE e  == s.ep[w]
           at == IF e.at = Null THEN now ELSE e.at
           s0 == [s EXCEPT !.cd = NoLease(s, w)]
           s1 == [s0 EXCEPT !.ep[w] = Moved(s0.ep[w], "scheduled", at, s0.ep[w].gen)]
<1>1. s \in Databases /\ e \in Episodes /\ Dated(e)
  BY DEF Sound, Databases
<1>2. Safe(s, s0) /\ s0.ep = s.ep
  BY LeasesTaken
<1>3. Parked(wk, s, w) = IF e.status # "in_attempt" \/ wk[w].run = "active" THEN s
                         ELSE IF e.scope = NoScope THEN s1
                         ELSE Promoted(wk, s1, e.scope, w)
  <2>1. s1 = [s EXCEPT !.ep[w] = [e EXCEPT !.status = "scheduled", !.at = at],
                       !.cd = NoLease(s, w)]
    <3>1. Moved(e, "scheduled", at, e.gen) = [e EXCEPT !.status = "scheduled", !.at = at]
      BY <1>1 DEF Moved, Episodes
    <3> HIDE DEF e, at
    <3>2. s0.ep[w] = e
      BY <1>2 DEF e
    <3>3. s1 = [s0 EXCEPT !.ep[w] = [e EXCEPT !.status = "scheduled", !.at = at]]
      BY <3>1, <3>2
    <3> QED BY <3>3, <1>1 DEF Databases
  <2> HIDE DEF s1
  <2> QED BY <2>1 DEF Parked, NoLease
<1>4. ASSUME e.status = "in_attempt" PROVE Safe(s, s1)
  <2>1. at = now /\ at \in Stamps /\ at # Null
    BY <1>1, <1>4, Constants DEF Dated, Stamps, Clock, Times, Null
  <2>2. Sound(s0) /\ s0.ep[w].gen \in Nat /\ "scheduled" \in Statuses
    BY <1>1, <1>2 DEF Safe, Episodes, Statuses
  <2>3. ~(at > now)
    BY <2>1 DEF Clock, Times
  <2> HIDE DEF s0, at
  <2>4. Safe(s0, s1)
    BY <2>1, <2>2, <2>3, MovedSafe
  <2> QED BY <2>4, <1>2, SafeTransitive
<1> HIDE DEF s1
<1>5. ASSUME e.status = "in_attempt", e.scope # NoScope
      PROVE  Safe(s, Promoted(wk, s1, e.scope, w))
  <2>1. e.scope \in Scopes
    BY <1>5, ScopeType
  <2>2. Safe(s1, Promoted(wk, s1, e.scope, w))
    BY <2>1, <1>4, <1>5, PromotedSafe DEF Safe
  <2> QED BY <2>2, <1>4, <1>5, SafeTransitive
<1> QED BY <1>3, <1>4, <1>5, SafeReflexive

LEMMA ResumedSafe ==
    ASSUME NEW s, Sound(s), Clock, NEW w \in Items
    PROVE  Safe(s, Resumed(s, w))
<1> DEFINE e    == s.ep[w]
           at   == Latest(e.at, now)
           same == e.status = "scheduled" /\ e.at = at
           gen  == IF same THEN e.gen ELSE e.gen + 1
           t    == [s EXCEPT !.ep[w] = Moved(e, "scheduled", at, gen)]
<1>1. s \in Databases /\ e \in Episodes
  BY DEF Sound, Databases
<1>2. /\ at \in Times /\ at \in Stamps /\ at # Null
      /\ at > now => at = e.at
      /\ gen \in Nat
  <2>1. e.at \in Stamps /\ now \in Stamps /\ now \in Times /\ e.gen \in Nat
    BY <1>1 DEF Episodes, Clock, Stamps
  <2>2. at \in Times /\ at # Null
    BY <2>1, LatestTime
  <2>3. at > now => at = e.at
    BY <2>1 DEF Latest, Times, Stamps, Null
  <2> QED BY <2>1, <2>2, <2>3 DEF Stamps
<1>3. Resumed(s, w) = [t EXCEPT !.jobs = @ \union {Wake(s, w, gen, at)}]
  <2> HIDE DEF at, gen, same
  <2> QED BY <1>1 DEF Databases, Resumed, Moved, at, gen, same
<1> HIDE DEF at, gen
<1>4. Safe(s, t)
  <2>1. "scheduled" \in Statuses
    BY DEF Statuses
  <2> QED BY <2>1, <1>2, MovedSafe
<1> HIDE DEF t
<1> QED BY <1>2, <1>3, <1>4, WakeEnqueued

LEMMA SupersededSafe ==
    ASSUME NEW s, Sound(s), NEW w \in Items
    PROVE  Safe(s, Superseded(s, w))
<1> DEFINE e == s.ep[w]
           t == [s EXCEPT !.ep[w] = Moved(e, "in_attempt", Null, e.gen + 1)]
<1>1. Superseded(s, w) = IF e.status = "scheduled" THEN t ELSE s
  BY DEF Superseded, Moved
<1>2. e.gen + 1 \in Nat /\ "in_attempt" \in Statuses /\ Null \in Stamps
  BY DEF Sound, Databases, Episodes, Statuses, Stamps
<1>3. Safe(s, t)
  BY <1>2, MovedSafe
<1> HIDE DEF t
<1> QED BY <1>1, <1>3, SafeReflexive

LEMMA LeaseTaken ==
    ASSUME NEW s, Sound(s), NEW c \in Scopes, NEW w \in Items, s.ep[w].scope = c
    PROVE  LET t == [s EXCEPT !.cd[c].probe = w] IN Safe(s, t) /\ t.ep = s.ep
<1> DEFINE q == [s.cd[c] EXCEPT !.probe = w]
           t == [s EXCEPT !.cd[c] = q]
<1>1. s \in Databases /\ s.cd \in [Scopes -> Cooldowns]
  BY DEF Sound, Databases
<1>2. q \in Cooldowns /\ q.probe = w
  BY <1>1 DEF Cooldowns
<1>3. t = [s EXCEPT !.cd[c].probe = w]
  BY <1>1
<1> HIDE DEF q
<1>4. Safe(s, t) /\ t.ep = s.ep
  BY <1>1, <1>2, CooldownWritten DEF Inside, Databases
<1> QED BY <1>3, <1>4

LEMMA NotedSafe ==
    ASSUME NEW s, Sound(s), NEW wk, NEW w \in Items
    PROVE  Safe(s, Noted(wk, s, w))
<1> DEFINE c == s.ep[w].scope
           t == [s EXCEPT !.cd[c].probe = w]
<1>1. Noted(wk, s, w) \in {s, t} /\ (c = NoScope => Noted(wk, s, w) = s)
  BY DEF Noted
<1>2. ASSUME c # NoScope PROVE Safe(s, t)
  <2>1. c \in Scopes
    BY <1>2, ScopeType
  <2> QED BY <2>1, LeaseTaken
<1> HIDE DEF t
<1> QED BY <1>1, <1>2, SafeReflexive

-----------------------------------------------------------------------------
(* The start-up repair: it keeps the database sound. *)

LEMMA RequeuedSound ==
    ASSUME NEW s, Sound(s), NEW c \in Scopes
    PROVE  Sound(Requeued(s, c))
<1> DEFINE p == Probe(s, c)
           e == s.ep[p]
           t == [s EXCEPT !.jobs = @ \union {Wake(s, p, e.gen, e.at)}]
<1>1. /\ Requeued(s, c) \in {s, t}
      /\ ~(p # NoItem /\ e.status = "scheduled") => Requeued(s, c) = s
  BY DEF Requeued
<1>2. ASSUME p # NoItem, e.status = "scheduled" PROVE Sound(t)
  <2>1. p \in Items
    BY <1>2 DEF Sound, Databases, Cooldowns, Probe
  <2>2. e.gen \in Nat /\ e.at \in Times
    BY <1>2, <2>1 DEF Sound, Databases, Episodes, Dated, Stamps
  <2> HIDE DEF p, e
  <2> QED BY <2>1, <2>2, WakeAdded DEF Safe
<1> HIDE DEF t
<1> QED BY <1>1, <1>2

LEMMA ReconciledSound ==
    ASSUME NEW s, Sound(s), Clock, NEW wk, NEW c \in Scopes
    PROVE  Sound(ReconciledScope(wk, s, c))
<1> DEFINE p  == Probe(s, c)
           at == Latest(now, s.cd[c].at)
           e  == s.ep[p]
           t0 == [s EXCEPT !.ep[p] = Moved(e, "scheduled", at, e.gen + 1)]
           t1 == [t0 EXCEPT !.jobs = @ \union {Wake(s, p, e.gen + 1, at)}]
           t2 == Promoted(wk, s, c, NoItem)
           t3 == Promoted(wk, Unowned(s, c), c, p)
           t  == IF p = NoItem THEN t2
                 ELSE IF Stuck(wk, s, p) THEN t1
                 ELSE IF ~Valid(wk, s, p) THEN t3
                 ELSE s
<1>1. ReconciledScope(wk, s, c) = Requeued(t, c)
  <2>1. t1 = [s EXCEPT !.ep[p] = [e EXCEPT !.status = "scheduled", !.at = at, !.gen = e.gen + 1],
                       !.jobs = @ \union {Wake(s, p, e.gen + 1, at)}]
    BY DEF Sound, Databases, Moved
  <2> HIDE DEF t1
  <2> QED BY <2>1 DEF ReconciledScope
<1>2. Sound(t2)
  BY PromotedSafe DEF Safe
<1>3. Sound(t3)
  <2>1. Sound(Unowned(s, c))
    BY UnownedSafe DEF Safe
  <2> QED BY <2>1, PromotedSafe DEF Safe
<1>4. ASSUME p # NoItem PROVE Sound(t1)
  <2>1. p \in Items
    BY <1>4 DEF Sound, Databases, Cooldowns, Probe
  <2>2. e.gen + 1 \in Nat /\ s.cd[c].at \in Stamps
    BY <2>1 DEF Sound, Databases, Episodes, Cooldowns
  <2>3. at \in Times /\ at \in Stamps /\ at # Null
    <3>1. now \in Times /\ now \in Stamps
      BY DEF Clock, Stamps
    <3> QED BY <2>2, <3>1, LatestTime DEF Stamps
  <2>4. "scheduled" \in Statuses
    BY DEF Statuses
  <2> HIDE DEF at, p
  <2>5. Sound(t0)
    BY <2>1, <2>2, <2>3, <2>4, MovedSafe
  <2> HIDE DEF t0
  <2> QED BY <2>1, <2>2, <2>3, <2>5, WakeAdded DEF Safe
<1> HIDE DEF t1, t2, t3
<1>5. Sound(t)
  BY <1>2, <1>3, <1>4
<1> HIDE DEF t
<1> QED BY <1>1, <1>5, RequeuedSound

LEMMA UnsentSound ==
    ASSUME NEW s, Sound(s), NEW t, Sound(t)
    PROVE  Sound(Unsent(s, t)) /\ Unsent(s, t).ep = t.ep /\ Unsent(s, t).cd = t.cd
<1>1. s.jobs \in SUBSET WakeJobs /\ IsFiniteSet(s.jobs)
  BY DEF Sound, Databases
<1>2. Unsent(s, t).ep = t.ep /\ Unsent(s, t).cd = t.cd
  BY DEF Unsent, Sound, Databases
<1> QED BY <1>1, <1>2, JobsWritten DEF Safe, Unsent

\* The exhausted of a torn turn: Work Items of the scope.
LEMMA WeededRows ==
    ASSUME NEW s, Sound(s), Clock, NEW wk, NEW c \in Scopes, NEW t \in Weeded(wk, s, c)
    PROVE  LET at == Latest(now, s.cd[c].at)
           IN  /\ at \in Times
               /\ ~Valid(wk, s, Probe(s, c))
               /\ \E L \in SUBSET {v \in WaitingIn(s, c) : TooLong(s.ep[v].started, at)} :
                      t = Rescheduled(Unowned(s, c), L, [v \in L |-> at])
<1> DEFINE at == Latest(now, s.cd[c].at)
<1>1. at \in Times
  BY LatestTime DEF Clock, Stamps, Sound, Databases, Cooldowns
<1> HIDE DEF at
<1> QED BY <1>1 DEF Weeded, at

LEMMA WeededSound ==
    ASSUME NEW s, Sound(s), Clock, NEW wk, NEW c \in Scopes, NEW t \in Weeded(wk, s, c)
    PROVE  Sound(t)
<1> DEFINE at == Latest(now, s.cd[c].at)
<1>1. at \in Times
  BY WeededRows
<1>2. PICK L \in SUBSET {v \in WaitingIn(s, c) : TooLong(s.ep[v].started, at)} :
         t = Rescheduled(Unowned(s, c), L, [v \in L |-> at])
  BY WeededRows
<1>3. L \in SUBSET Items
  BY DEF WaitingIn, OpenIn
<1> DEFINE f == [v \in L |-> at]
<1>4. \A v \in L : f[v] \in Times
  BY <1>1
<1> HIDE DEF f, at
<1>5. Sound(Unowned(s, c))
  BY UnownedSafe DEF Safe
<1> QED BY <1>2, <1>3, <1>4, <1>5, RescheduledSafe DEF Safe, f

LEMMA LeaseOnlySound ==
    ASSUME NEW s, Sound(s), NEW t, Sound(t), NEW c \in Scopes, NEW u \in LeaseOnly(s, t, c)
    PROVE  Sound(u)
<1> DEFINE p == Probe(t, c)
           e == s.ep[p]
<1>1. p \in Items
  BY DEF LeaseOnly, Sound, Databases, Cooldowns, Probe
<1>2. u = [t EXCEPT !.ep[p] = Moved(t.ep[p], e.status, e.at, e.gen)]
  <2>1. u = [t EXCEPT !.ep[p].status = e.status, !.ep[p].at = e.at, !.ep[p].gen = e.gen]
    BY DEF LeaseOnly
  <2> HIDE DEF p, e
  <2> QED BY <1>1, <2>1 DEF Moved, Sound, Databases
<1>3. /\ e.status \in Statuses /\ e.at \in Stamps /\ e.gen \in Nat
      /\ e.status = "scheduled" <=> e.at # Null
  BY <1>1 DEF Sound, Databases, Episodes, Statuses, Dated
<1> HIDE DEF p, e
<1> QED BY <1>1, <1>2, <1>3, MovedSafe

\* What a crash leaves of the turn of one cooldown.
LEMMA TornSound ==
    ASSUME NEW s, Sound(s), Clock, NEW wk, NEW c \in Scopes, NEW t \in Torn(wk, s, c)
    PROVE  Sound(t)
<1> DEFINE r == Unsent(s, ReconciledScope(wk, s, c))
<1>1. Sound(r)
  BY ReconciledSound, UnsentSound
<1>2. t = r \/ t \in Weeded(wk, s, c) \/ t \in LeaseOnly(s, r, c)
  BY DEF Torn
<1> HIDE DEF r
<1> QED BY <1>1, <1>2, WeededSound, LeaseOnlySound

-----------------------------------------------------------------------------
(* The delivery of a wake. *)

\* The claim of a wake, and the deadline it looks at before it admits one.
LEMMA ClaimSafe ==
    ASSUME NEW s, Sound(s), Clock, NEW j, j.item \in Items
    PROVE  /\ Safe(s, Claim(s, j).db)
           /\ Claim(s, j).is = "claimed" =>
                 \A d \in Scopes : s.ep[j.item].scope = d => s.cd[d].at <= now
<1> DEFINE w  == j.item
           e  == s.ep[w]
           c  == e.scope
           s1 == IF c = NoScope THEN s ELSE Cleared(work, s, c)
           s2 == IF c = NoScope THEN s ELSE [s1 EXCEPT !.cd[c].probe = w]
           moved(status) == [s2 EXCEPT !.ep[w] = Moved(e, status, Null, e.gen + 1)]
           lost == Settled(work, moved("exhausted"), w, "exhausted")
           due == ~(c # NoScope /\ s1.cd[c].at > now)
           r == IF e.status # "scheduled" \/ e.gen # j.gen \/ e.at # j.at
                THEN [is |-> "stale", db |-> s]
                ELSE IF ~due THEN [is |-> "not_due", db |-> s1]
                ELSE IF c # NoScope /\ Probe(s1, c) \notin {NoItem, w} THEN [is |-> "deferred", db |-> s1]
                ELSE IF TooLong(e.started, now) THEN [is |-> "exhausted", db |-> lost]
                ELSE [is |-> "claimed", db |-> moved("in_attempt")]
<1>1. Claim(s, j) = r
  BY DEF Claim, Moved
<1>2. c \in Scopes \union {NoScope} /\ s \in Databases /\ e.gen + 1 \in Nat
  BY ScopeType DEF Sound, Databases, Episodes
<1>3. /\ Safe(s, s1)
      /\ s1.ep[w] = e
      /\ c # NoScope => s1.cd[c].at = s.cd[c].at /\ s.cd[c].at \in Stamps
  <2>1. CASE c = NoScope
    BY <2>1, SafeReflexive
  <2>2. CASE c # NoScope
    <3>1. c \in Scopes
      BY <1>2, <2>2
    <3>2. Safe(s, Cleared(work, s, c)) /\ Cleared(work, s, c).ep[w] = e
      BY <3>1, ClearedSafe
    <3>3. Cleared(work, s, c).cd[c].at = s.cd[c].at
      BY <3>1, <1>2 DEF Cleared, Unowned, Databases, Cooldowns
    <3>4. s.cd[c].at \in Stamps
      BY <3>1, <1>2 DEF Databases, Cooldowns
    <3> QED BY <2>2, <3>2, <3>3, <3>4
  <2> QED BY <2>1, <2>2
<1>4. Safe(s, s2) /\ s2.ep[w] = e
  <2>1. CASE c = NoScope
    BY <2>1, SafeReflexive
  <2>2. CASE c # NoScope
    <3> DEFINE u == [s1 EXCEPT !.cd[c].probe = w]
    <3>1. c \in Scopes /\ s1.ep[w].scope = c /\ Sound(s1)
      BY <1>2, <1>3, <2>2 DEF Safe
    <3>2. s2 = u
      BY <2>2
    <3> HIDE DEF s1, c, s2, e
    <3>3. Safe(s1, u) /\ u.ep = s1.ep
      BY <3>1, LeaseTaken
    <3> HIDE DEF u
    <3>4. Safe(s, u)
      BY <3>3, <1>3, SafeTransitive
    <3> QED BY <3>2, <3>3, <3>4, <1>3
  <2> QED BY <2>1, <2>2
<1> HIDE DEF s2
<1>5. ASSUME NEW status \in {"exhausted", "in_attempt"} PROVE Safe(s, moved(status))
  <2>1. status \in Statuses /\ Null \in Stamps /\ status # "scheduled"
    BY DEF Statuses, Stamps
  <2>2. moved(status) = [s2 EXCEPT !.ep[w] = Moved(s2.ep[w], status, Null, e.gen + 1)]
    BY <1>4
  <2>3. Safe(s2, [s2 EXCEPT !.ep[w] = Moved(s2.ep[w], status, Null, e.gen + 1)])
    <3>1. Sound(s2)
      BY <1>4 DEF Safe
    <3> HIDE DEF e
    <3> QED BY <3>1, <2>1, <1>2, MovedSafe
  <2> HIDE DEF moved, e
  <2> QED BY <2>2, <2>3, <1>4, SafeTransitive
<1> HIDE DEF moved
<1>6. Safe(s, lost)
  <2> DEFINE u == moved("exhausted")
  <2>1. Safe(s, u)
    BY <1>5
  <2>2. lost = Settled(work, u, w, "exhausted")
    OBVIOUS
  <2> HIDE DEF u, lost
  <2>3. Safe(u, Settled(work, u, w, "exhausted"))
    BY <2>1, SettledSafe DEF Safe
  <2> QED BY <2>1, <2>2, <2>3, SafeTransitive
<1> HIDE DEF lost
<1>7. Safe(s, r.db)
  BY <1>3, <1>5, <1>6, SafeReflexive
<1>8. r.is = "claimed" => due
  BY DEF r
<1>9. due => \A d \in Scopes : c = d => s.cd[d].at <= now
  BY <1>3, Constants DEF Clock, Times, Stamps, Null
<1> HIDE DEF r, due
<1> QED BY <1>1, <1>7, <1>8, <1>9

\* What the rest of the delivery makes of the claim r.
LEMMA HandledSafe ==
    ASSUME NEW j, j.item \in Items, NEW row, NEW r, Sound(r.db), Clock,
           NEW h \in Handled(j, row, r)
    PROVE  /\ Safe(r.db, h[2])
           /\ h[3] = auto \/ (r.is = "claimed" /\ h[3] = auto \union {j.item})
<1> DEFINE w == j.item
           hold == [work EXCEPT ![w].held = TRUE, ![w].waiting = FALSE]
           outcome == IF row.paused THEN "cancelled" ELSE "exited"
<1>1. /\ h[2] \in {r.db, Closed(work, r.db, w, outcome), Parked(hold, r.db, w)}
      /\ h[3] = auto \/ (r.is = "claimed" /\ h[3] = auto \union {w})
  <2>1. CASE r.is # "claimed"
    BY <2>1 DEF Handled
  <2>2. CASE r.is = "claimed" /\ (row.paused \/ row.over \/ row.run = "active")
    BY <2>2 DEF Handled
  <2>3. CASE r.is = "claimed" /\ ~(row.paused \/ row.over \/ row.run = "active") /\ GateHolds(w)
    BY <2>3 DEF Handled
  <2>4. CASE r.is = "claimed" /\ ~(row.paused \/ row.over \/ row.run = "active") /\ ~GateHolds(w)
    <3>1. PICK n \in Acquired(w, row) : h = <<[work EXCEPT ![w] = n], r.db, auto \union {w}>>
      BY <2>4 DEF Handled
    <3> QED BY <3>1, <2>4
  <2> QED BY <2>1, <2>2, <2>3, <2>4
<1> HIDE DEF hold, outcome
<1>2. Safe(r.db, Closed(work, r.db, w, outcome))
  BY ClosedSafe
<1>3. Safe(r.db, Parked(hold, r.db, w))
  BY ParkedSafe
<1> QED BY <1>1, <1>2, <1>3, SafeReflexive

-----------------------------------------------------------------------------
(* The inductive invariant, and what every step does.                       *)

Rows == [paused : BOOLEAN, held : BOOLEAN, waiting : BOOLEAN, over : BOOLEAN,
         run : {"none", "active", "failed", "postponed", "interrupted"}]

Types ==
    /\ Clock /\ maxWait \in MaxWaits /\ closed \in BOOLEAN
    /\ work \in [Items -> Rows]
    /\ worker \in {"up", "down", "starting"}
    /\ todo \subseteq Scopes /\ auto \subseteq Items /\ spent \subseteq Items \X Nat
    /\ may \in [Calls -> Nat]

IInv == Types /\ Sound(db)

\* A wake begins an attempt when the deadline of the scope has come.
Due(w) == \A c \in Scopes : db.ep[w].scope = c => db.cd[c].at <= now

Effect ==
    /\ Types' /\ Sound(db')
    /\ worker # "starting" => Timely(db, db')
    /\ \A w \in auto' \ auto : Due(w)

LEMMA Initially == Init => IInv
<1> SUFFICES ASSUME Init PROVE IInv
  OBVIOUS
<1>1. Clock /\ maxWait \in MaxWaits /\ closed \in BOOLEAN
  <2>1. now = 0 /\ maxWait \in MaxWaits /\ closed = FALSE
    BY DEF Init
  <2>2. 0 \in 0..MaxTime
    BY Constants
  <2> QED BY <2>1, <2>2 DEF Clock, Times
<1>2. work \in [Items -> Rows]
  BY DEF Init, NoWork, Rows
<1>3. may \in [Calls -> Nat]
  BY RecoveryAssumption DEF Init, RecoveryAssumption
<1>4. Types
  BY <1>1, <1>2, <1>3 DEF Types, Init
<1>5. Sound(db)
  <2>1. NoEpisode \in Episodes /\ Dated(NoEpisode)
    BY Constants DEF NoEpisode, Episodes, Dated, Stamps, Times
  <2>2. NoCooldown \in Cooldowns /\ NoCooldown.probe = NoItem
    BY DEF NoCooldown, Cooldowns, Stamps
  <2>3. db = [ep |-> [w \in Items |-> NoEpisode], cd |-> [c \in Scopes |-> NoCooldown], jobs |-> {}]
    BY DEF Init
  <2>4. db \in Databases
    BY <2>1, <2>2, <2>3 DEF Databases
  <2>5. IsFiniteSet(db.jobs)
    BY <2>3, FS_EmptySet
  <2>6. \A w \in Items : Dated(db.ep[w])
    BY <2>1, <2>3
  <2>7. \A c \in Scopes : Inside(db, c, db.cd[c])
    BY <2>2, <2>3 DEF Inside
  <2> QED BY <2>4, <2>5, <2>6, <2>7 DEF Sound
<1> QED BY <1>4, <1>5 DEF IInv

LEMMA Budget == ASSUME Types, NEW call \in Calls, Once(call) PROVE may' \in [Calls -> Nat]
BY DEF Types, Once

LEMMA AcquiredType ==
    ASSUME NEW w, NEW row \in Rows PROVE Acquired(w, row) \subseteq Rows
BY DEF Acquired, Rows

\* What a call made while the process is up has to establish.
LEMMA Called ==
    ASSUME IInv, Safe(db, db'), UNCHANGED World, UNCHANGED Engine,
           work' \in [Items -> Rows], auto' \subseteq auto, may' \in [Calls -> Nat]
    PROVE  Effect
<1>1. Types'
  BY DEF IInv, Types, World, Engine, Clock
<1>2. Sound(db') /\ Timely(db, db')
  BY DEF Safe
<1> QED BY <1>1, <1>2 DEF Effect

LEMMA Silent ==
    ASSUME IInv, UNCHANGED db PROVE Safe(db, db')
BY SafeReflexive DEF IInv

LEMMA TickStep == ASSUME IInv, Tick PROVE Effect
<1>1. Safe(db, db')
  BY Silent DEF Tick
<1>2. now' \in Times
  BY Constants DEF IInv, Types, Clock, Tick, Times
<1>3. Types'
  BY <1>2 DEF IInv, Types, Clock, Tick, Engine
<1> QED BY <1>1, <1>3 DEF Effect, Safe, Tick

LEMMA MoveGateStep == ASSUME IInv, MoveGate PROVE Effect
<1>1. Safe(db, db')
  BY Silent DEF MoveGate
<1>2. may' \in [Calls -> Nat] /\ closed' \in BOOLEAN
  BY Budget DEF MoveGate, IInv, Types, Calls
<1>3. Types'
  BY <1>2 DEF IInv, Types, Clock, MoveGate, Engine
<1> QED BY <1>1, <1>3 DEF Effect, Safe, MoveGate

LEMMA FailTransientStep ==
    ASSUME IInv, NEW w \in Items, NEW c \in Scopes, NEW d \in Delays, NEW f \in Floors,
           FailTransient(w, c, d, f)
    PROVE  Effect
<1> DEFINE wk    == [work EXCEPT ![w].run = "failed", ![w].waiting = FALSE]
           retry == IF f = 0 THEN Null ELSE now + f
           plan  == Latest(now + d, retry)
<1>1. /\ work' = wk
      /\ Once(IF f = 0 THEN "fail" ELSE "floor") /\ plan <= MaxTime
      /\ db' = IF work[w].paused THEN Closed(wk, db, w, "cancelled")
               ELSE Coordinated(wk, db, w, c, plan, retry)
      /\ auto' = auto \ {w} /\ UNCHANGED World /\ UNCHANGED Engine
  BY DEF FailTransient
<1>2. work' \in [Items -> Rows]
  BY <1>1 DEF IInv, Types, Rows
<1>3. may' \in [Calls -> Nat]
  <2>1. (IF f = 0 THEN "fail" ELSE "floor") \in Calls
    BY DEF Calls
  <2> QED BY <1>1, <2>1, Budget DEF IInv
<1>4. plan \in Times /\ retry \in Stamps
  <2>1. d \in Nat /\ f \in Nat /\ now \in Nat /\ MaxTime \in Nat
    BY Constants, RecoveryAssumption DEF RecoveryAssumption, IInv, Types, Clock, Times
  <2> QED BY <1>1, <2>1 DEF Latest, Times, Stamps, Null
<1> HIDE DEF wk, plan, retry
<1>5. Sound(db) /\ Clock
  BY DEF IInv, Types
<1>6. Safe(db, Closed(wk, db, w, "cancelled"))
  BY <1>5, ClosedSafe
<1>7. Safe(db, Coordinated(wk, db, w, c, plan, retry))
  BY <1>4, <1>5, CoordinatedSafe
<1>8. Safe(db, db')
  BY <1>1, <1>6, <1>7
<1> QED BY <1>1, <1>2, <1>3, <1>8, Called

LEMMA FailOtherStep == ASSUME IInv, NEW w \in Items, FailOther(w) PROVE Effect
<1> DEFINE wk == [work EXCEPT ![w].run = "failed", ![w].waiting = FALSE]
<1>1. /\ Once("other") /\ work' = wk /\ db' = Closed(wk, db, w, "exited")
      /\ auto' = auto \ {w} /\ UNCHANGED World /\ UNCHANGED Engine
  BY DEF FailOther
<1>2. work' \in [Items -> Rows]
  BY <1>1 DEF IInv, Types, Rows
<1>3. may' \in [Calls -> Nat]
  BY <1>1, Budget DEF IInv, Calls
<1> HIDE DEF wk
<1>4. Safe(db, db')
  BY <1>1, ClosedSafe DEF IInv, Types
<1> QED BY <1>1, <1>2, <1>3, <1>4, Called

LEMMA SucceedStep == ASSUME IInv, NEW w \in Items, Succeed(w) PROVE Effect
<1> DEFINE wk == [work EXCEPT ![w].run = "none"]
<1>1. /\ work' = [work EXCEPT ![w].run = IF work[w].paused THEN "none" ELSE "active"]
      /\ db' = Closed(wk, db, w, "recovered")
      /\ auto' = auto \ {w} /\ UNCHANGED World /\ UNCHANGED Engine /\ may' = may
  BY DEF Succeed
<1>2. work' \in [Items -> Rows] /\ may' \in [Calls -> Nat]
  BY <1>1 DEF IInv, Types, Rows
<1> HIDE DEF wk
<1>3. Safe(db, db')
  BY <1>1, ClosedSafe DEF IInv, Types
<1> QED BY <1>1, <1>2, <1>3, Called

LEMMA FinishStep == ASSUME IInv, NEW w \in Items, Finish(w) PROVE Effect
<1> DEFINE wk == [work EXCEPT ![w].run = "none", ![w].over = TRUE]
<1>1. /\ Once("finish") /\ work' = wk
      /\ \E outcome : db' = Closed(wk, db, w, outcome)
      /\ auto' = auto \ {w} /\ UNCHANGED World /\ UNCHANGED Engine
  BY DEF Finish
<1>2. work' \in [Items -> Rows]
  BY <1>1 DEF IInv, Types, Rows
<1>3. may' \in [Calls -> Nat]
  BY <1>1, Budget DEF IInv, Calls
<1> HIDE DEF wk
<1>4. Safe(db, db')
  BY <1>1, ClosedSafe DEF IInv, Types
<1> QED BY <1>1, <1>2, <1>3, <1>4, Called

\* Calls that leave the database alone.
LEMMA PostponeStep == ASSUME IInv, NEW w \in Items, Postpone(w) PROVE Effect
<1>1. work' \in [Items -> Rows]
  BY DEF Postpone, IInv, Types, Rows
<1>2. may' \in [Calls -> Nat]
  BY Budget DEF Postpone, IInv, Calls
<1> QED BY <1>1, <1>2, Silent, Called DEF Postpone

LEMMA OrphanInterruptStep == ASSUME IInv, NEW w \in Items, OrphanInterrupt(w) PROVE Effect
<1>1. work' \in [Items -> Rows]
  BY DEF OrphanInterrupt, IInv, Types, Rows
<1>2. may' \in [Calls -> Nat]
  BY Budget DEF OrphanInterrupt, IInv, Calls
<1> QED BY <1>1, <1>2, Silent, Called DEF OrphanInterrupt

LEMMA WakePostponedStep == ASSUME IInv, NEW w \in Items, WakePostponed(w) PROVE Effect
<1>1. PICK r \in Acquired(w, work[w]) : work' = [work EXCEPT ![w] = r]
  BY DEF WakePostponed
<1>2. work[w] \in Rows /\ may' \in [Calls -> Nat]
  BY DEF WakePostponed, IInv, Types
<1>3. work' \in [Items -> Rows]
  BY <1>1, <1>2, AcquiredType DEF IInv, Types
<1> QED BY <1>2, <1>3, Silent, Called DEF WakePostponed

LEMMA AdmitStep == ASSUME IInv, NEW w \in Items, Admit(w) PROVE Effect
<1>1. PICK r \in Acquired(w, work[w]) : work' = [work EXCEPT ![w] = r]
  BY DEF Admit
<1>2. work[w] \in Rows /\ may' \in [Calls -> Nat]
  BY DEF Admit, IInv, Types
<1>3. work' \in [Items -> Rows]
  BY <1>1, <1>2, AcquiredType DEF IInv, Types
<1> QED BY <1>2, <1>3, Silent, Called DEF Admit

LEMMA StartStep == ASSUME IInv, NEW w \in Items, Start(w) PROVE Effect
<1> DEFINE row == [work[w] EXCEPT !.paused = FALSE]
<1>1. row \in Rows /\ may' \in [Calls -> Nat]
  BY DEF Start, IInv, Types, Rows
<1>2. PICK r \in IF row.run = "none" THEN Acquired(w, row) ELSE {row} :
         work' = [work EXCEPT ![w] = r]
  BY DEF Start
<1> HIDE DEF row
<1>3. work' \in [Items -> Rows]
  BY <1>1, <1>2, AcquiredType DEF IInv, Types
<1> QED BY <1>1, <1>3, Silent, Called DEF Start

LEMMA PauseStep == ASSUME IInv, NEW w \in Items, Pause(w) PROVE Effect
<1> DEFINE row    == [work[w] EXCEPT !.paused = TRUE]
           queued == [row EXCEPT !.run = "none", !.waiting = FALSE]
           rows   == IF row.run = "active" THEN {row, queued} ELSE {[row EXCEPT !.waiting = FALSE]}
<1>1. rows \subseteq Rows
  BY DEF IInv, Types, Rows
<1>2. PICK r \in rows : /\ work' = [work EXCEPT ![w] = r]
                        /\ db' = Closed([work EXCEPT ![w] = r], db, w, "cancelled")
  BY DEF Pause
<1>3. may' \in [Calls -> Nat]
  BY Budget DEF Pause, IInv, Calls
<1> HIDE DEF rows
<1>4. work' \in [Items -> Rows]
  BY <1>1, <1>2 DEF IInv, Types
<1> DEFINE wk == [work EXCEPT ![w] = r]
<1>5. db' = Closed(wk, db, w, "cancelled")
  BY <1>2
<1> HIDE DEF wk
<1>6. Safe(db, db')
  BY <1>5, ClosedSafe DEF IInv, Types
<1> QED BY <1>3, <1>4, <1>6, Called DEF Pause

LEMMA InterruptStep == ASSUME IInv, NEW w \in Items, Interrupt(w) PROVE Effect
<1> DEFINE wk == [work EXCEPT ![w].run = "interrupted", ![w].paused = FALSE, ![w].waiting = FALSE]
<1>1. /\ work' = wk /\ db' = Closed(wk, db, w, "cancelled")
      /\ auto' = auto \ {w} /\ UNCHANGED World /\ UNCHANGED Engine /\ may' = may
  BY DEF Interrupt
<1>2. work' \in [Items -> Rows] /\ may' \in [Calls -> Nat]
  BY <1>1 DEF IInv, Types, Rows
<1> HIDE DEF wk
<1>3. Safe(db, db')
  BY <1>1, ClosedSafe DEF IInv, Types
<1> QED BY <1>1, <1>2, <1>3, Called

LEMMA RetryStep == ASSUME IInv, NEW w \in Items, Retry(w) PROVE Effect
<1> DEFINE s == Superseded(db, w)
<1>1. PICK r \in Acquired(w, work[w]) : work' = [work EXCEPT ![w] = r]
  BY DEF Retry
<1>2. work[w] \in Rows /\ may' \in [Calls -> Nat]
  BY Budget DEF Retry, IInv, Types, Calls
<1>3. work' \in [Items -> Rows]
  BY <1>1, <1>2, AcquiredType DEF IInv, Types
<1>4. db' = db \/ db' = Noted(work, s, w)
  BY DEF Retry
<1>5. Safe(db, s)
  BY SupersededSafe DEF IInv
<1> HIDE DEF s
<1>6. Safe(s, Noted(work, s, w))
  BY <1>5, NotedSafe DEF Safe
<1>7. Safe(db, db')
  BY <1>4, <1>5, <1>6, SafeTransitive, SafeReflexive DEF IInv
<1> QED BY <1>2, <1>3, <1>7, Called DEF Retry

LEMMA LeaveStep == ASSUME IInv, NEW w \in Items, NEW reset \in BOOLEAN, Leave(w, reset) PROVE Effect
<1> DEFINE wk == [work EXCEPT ![w] = [NoWork EXCEPT !.run = "none", !.over = TRUE]]
           s  == Settled(work, db, w, "cancelled")
           s1 == [s EXCEPT !.cd = NoLease(s, w)]
           s2 == [s1 EXCEPT !.ep[w] = NoEpisode]
<1>1. Safe(db, s)
  BY SettledSafe DEF IInv, Types
<1>2. /\ Once("leave") /\ work' = wk
      /\ db' = IF reset THEN [s EXCEPT !.ep[w] = NoEpisode, !.cd = NoLease(s, w)]
               ELSE Closed(work, db, w, "cancelled")
      /\ auto' = auto \ {w} /\ UNCHANGED World /\ UNCHANGED Engine
  BY DEF Leave, NoLease
<1>3. work' \in [Items -> Rows]
  BY <1>2 DEF IInv, Types, Rows, NoWork
<1>4. may' \in [Calls -> Nat]
  BY <1>2, Budget DEF IInv, Calls
<1> HIDE DEF wk, s
<1>5. Safe(s, s1) /\ \A d \in Scopes : s1.cd[d].probe # w
  BY <1>1, LeasesTaken DEF Safe
<1>6. [s EXCEPT !.ep[w] = NoEpisode, !.cd = NoLease(s, w)] = s2
  BY <1>1 DEF Safe, Sound, Databases
<1> HIDE DEF s1
<1>7. Safe(s1, s2)
  <2>1. NoEpisode \in Episodes /\ Dated(NoEpisode) /\ InTime(NoEpisode)
    BY Constants DEF NoEpisode, Episodes, Dated, InTime, Stamps, Times
  <2>2. Sound(s1)
    BY <1>5 DEF Safe
  <2> QED BY <2>1, <2>2, <1>5, EpisodeWritten
<1> HIDE DEF s2
<1>8. Safe(db, s2)
  <2>1. Safe(db, s1)
    BY <1>1, <1>5, SafeTransitive
  <2> QED BY <2>1, <1>7, SafeTransitive
<1>9. Safe(db, Closed(work, db, w, "cancelled"))
  BY ClosedSafe DEF IInv, Types
<1>10. Safe(db, db')
  BY <1>2, <1>6, <1>8, <1>9
<1> QED BY <1>2, <1>3, <1>4, <1>10, Called

LEMMA ReleaseHeldStep == ASSUME IInv, NEW w \in Items, ReleaseHeld(w) PROVE Effect
<1> DEFINE row == [work[w] EXCEPT !.held = FALSE]
           own == Open(db.ep[w]) /\ row.run # "active"
<1>1. row \in Rows /\ may' \in [Calls -> Nat]
  BY DEF ReleaseHeld, IInv, Types, Rows
<1>2. PICK r \in IF row.paused \/ own \/ row.run = "active" THEN {row} ELSE Acquired(w, row) :
         work' = [work EXCEPT ![w] = r]
  BY DEF ReleaseHeld
<1>3. db' \in {db, Resumed(db, w)}
  BY DEF ReleaseHeld
<1> HIDE DEF row, own
<1>4. work' \in [Items -> Rows]
  BY <1>1, <1>2, AcquiredType DEF IInv, Types
<1>5. Safe(db, db')
  BY <1>3, ResumedSafe, SafeReflexive DEF IInv, Types
<1> QED BY <1>1, <1>4, <1>5, Called DEF ReleaseHeld

LEMMA HandledType ==
    ASSUME work \in [Items -> Rows], NEW j, j.item \in Items, NEW r,
           NEW h \in Handled(j, work[j.item], r)
    PROVE  h[1] \in [Items -> Rows]
<1> DEFINE w == j.item
           row == work[w]
           hold == [work EXCEPT ![w].held = TRUE, ![w].waiting = FALSE]
<1>1. row \in Rows
  OBVIOUS
<1>2. hold \in [Items -> Rows]
  BY DEF Rows
<1> HIDE DEF hold, row
<1>3. h[1] \in {work, hold} \/ \E n \in Acquired(w, row) : h[1] = [work EXCEPT ![w] = n]
  BY DEF Handled, hold, row
<1>4. \A n \in Acquired(w, row) : [work EXCEPT ![w] = n] \in [Items -> Rows]
  BY <1>1, AcquiredType
<1> QED BY <1>2, <1>3, <1>4

LEMMA DeliverStep ==
    ASSUME IInv, NEW j \in db.jobs, NEW dies \in {"no", "claimed", "handled"}, Deliver(j, dies)
    PROVE  Effect
<1> DEFINE left    == j.left - 1
           locked  == IF left = 0 THEN {} ELSE {[j EXCEPT !.left = left, !.lock = TRUE]}
           jobs    == (db.jobs \ {j}) \union locked
           claimed == [db EXCEPT !.jobs = jobs]
           r       == Claim(claimed, j)
           rest    == r.db.jobs \ locked
           acked   == [is |-> r.is, db |-> [r.db EXCEPT !.jobs = rest]]
           w       == j.item
           row     == work[w]
<1>1. /\ Sound(db) /\ Clock /\ w \in Items /\ j \in WakeJobs
      /\ db \in Databases /\ IsFiniteSet(db.jobs)
  BY DEF IInv, Types, Sound, Databases, WakeJobs
<1>2. jobs \in SUBSET WakeJobs /\ IsFiniteSet(jobs)
  <2>1. locked \subseteq WakeJobs
    <3>1. left \in {0, 1}
      BY <1>1 DEF WakeJobs
    <3> HIDE DEF left
    <3>2. left # 0 => [j EXCEPT !.left = left, !.lock = TRUE] \in WakeJobs
      BY <1>1, <3>1 DEF WakeJobs
    <3> QED BY <3>2
  <2>2. IsFiniteSet(locked)
    BY FS_EmptySet, FS_Singleton
  <2> HIDE DEF locked
  <2>3. IsFiniteSet(db.jobs \ {j})
    BY <1>1, FS_Subset
  <2> QED BY <2>1, <2>2, <2>3, <1>1, FS_Union DEF Databases
<1> HIDE DEF jobs, locked
<1>3. Safe(db, claimed) /\ claimed.ep = db.ep /\ claimed.cd = db.cd
  BY <1>1, <1>2, JobsWritten DEF Databases
<1> HIDE DEF claimed
<1>4. /\ Safe(claimed, r.db)
      /\ r.is = "claimed" => Due(w)
  <2>1. Safe(claimed, r.db) /\ (r.is = "claimed" =>
           \A d \in Scopes : claimed.ep[w].scope = d => claimed.cd[d].at <= now)
    BY <1>1, <1>3, ClaimSafe DEF Safe
  <2> HIDE DEF r
  <2> QED BY <2>1, <1>3 DEF Due
<1>5. Safe(db, r.db)
  BY <1>3, <1>4, SafeTransitive
<1>6. r = [is |-> r.is, db |-> r.db]
  BY DEF Claim
<1>7. \A h \in {<<work, claimed, auto>>} \union Handled(j, row, r) \union Handled(j, row, acked) :
        /\ h[1] \in [Items -> Rows]
        /\ Safe(db, h[2])
        /\ h[3] = auto \/ (Due(w) /\ h[3] = auto \union {w})
  <2> HIDE DEF r
  <2>1. Sound(r.db) /\ r.db \in Databases /\ IsFiniteSet(r.db.jobs)
    BY <1>5 DEF Safe, Sound
  <2>2. rest \in SUBSET WakeJobs /\ IsFiniteSet(rest)
    BY <2>1, FS_Subset DEF Databases
  <2> HIDE DEF rest
  <2>3. Safe(r.db, acked.db) /\ acked.is = r.is
    BY <2>1, <2>2, JobsWritten
  <2> HIDE DEF acked
  <2>4. Safe(db, acked.db)
    BY <2>3, <1>5, SafeTransitive
  <2>5. work \in [Items -> Rows]
    BY DEF IInv, Types
  <2>6. ASSUME NEW h \in Handled(j, row, r)
        PROVE  /\ h[1] \in [Items -> Rows] /\ Safe(db, h[2])
               /\ h[3] = auto \/ (Due(w) /\ h[3] = auto \union {w})
    <3>1. Safe(r.db, h[2]) /\ (h[3] = auto \/ (r.is = "claimed" /\ h[3] = auto \union {w}))
      BY <1>1, <2>1, HandledSafe
    <3>2. h[1] \in [Items -> Rows]
      BY <1>1, <2>5, HandledType
    <3> QED BY <3>1, <3>2, <1>4, <1>5, SafeTransitive
  <2>7. ASSUME NEW h \in Handled(j, row, acked)
        PROVE  /\ h[1] \in [Items -> Rows] /\ Safe(db, h[2])
               /\ h[3] = auto \/ (Due(w) /\ h[3] = auto \union {w})
    <3>1. Safe(acked.db, h[2]) /\ (h[3] = auto \/ (acked.is = "claimed" /\ h[3] = auto \union {w}))
      BY <1>1, <2>3, HandledSafe DEF Safe
    <3>2. h[1] \in [Items -> Rows]
      BY <1>1, <2>5, HandledType
    <3>3. Safe(db, h[2])
      BY <3>1, <2>4, SafeTransitive
    <3> QED BY <3>1, <3>2, <3>3, <1>4, <2>3
  <2> QED BY <2>5, <2>6, <2>7, <1>3
<1>8. PICK h \in {<<work, claimed, auto>>} \union Handled(j, row, r) \union Handled(j, row, acked) :
        work' = h[1] /\ db' = h[2] /\ auto' = h[3]
  <2>1. acked = [r EXCEPT !.db.jobs = @ \ locked]
    BY <1>6
  <2> HIDE DEF acked, r, row
  <2> QED BY <2>1 DEF Deliver, r, row, claimed, jobs, locked
<1> HIDE DEF r, acked, row
<1>9. work' \in [Items -> Rows] /\ Safe(db, db') /\ (auto' = auto \/ (Due(w) /\ auto' = auto \union {w}))
  BY <1>7, <1>8
<1>10. may' \in [Calls -> Nat] /\ worker' \in {"up", "down", "starting"}
  BY Budget DEF Deliver, IInv, Types, Calls
<1>11. spent' \subseteq Items \X Nat
  <2>1. <<j.item, j.gen>> \in Items \X Nat
    BY <1>1 DEF WakeJobs
  <2> QED BY <2>1 DEF Deliver, IInv, Types
<1>12. Types'
  BY <1>1, <1>9, <1>10, <1>11 DEF IInv, Types, Clock, Deliver, World
<1> QED BY <1>9, <1>12 DEF Effect, Safe

LEMMA LeaseExpiresStep == ASSUME IInv, NEW j \in db.jobs, LeaseExpires(j) PROVE Effect
<1> DEFINE J == (db.jobs \ {j}) \union {[j EXCEPT !.lock = FALSE]}
<1>1. J \in SUBSET WakeJobs /\ IsFiniteSet(J)
  <2>1. db.jobs \subseteq WakeJobs /\ IsFiniteSet(db.jobs)
    BY DEF IInv, Sound, Databases
  <2>2. [j EXCEPT !.lock = FALSE] \in WakeJobs
    BY <2>1 DEF WakeJobs
  <2>3. IsFiniteSet(db.jobs \ {j})
    BY <2>1, FS_Subset
  <2> QED BY <2>1, <2>2, <2>3, FS_AddElement
<1>2. db' = [db EXCEPT !.jobs = J]
  BY DEF LeaseExpires
<1> HIDE DEF J
<1>3. Safe(db, db')
  BY <1>1, <1>2, JobsWritten DEF IInv
<1> QED BY <1>3, Called DEF LeaseExpires, IInv, Types

LEMMA CrashStep == ASSUME IInv, Crash PROVE Effect
<1>1. may' \in [Calls -> Nat]
  BY Budget DEF Crash, IInv, Calls
<1>2. Safe(db, db')
  BY Silent DEF Crash
<1>3. Types'
  BY <1>1 DEF IInv, Types, Clock, Crash, World
<1> QED BY <1>2, <1>3 DEF Effect, Safe, Crash

LEMMA CrashReconcileStep == ASSUME IInv, CrashReconcile PROVE Effect
<1>1. may' \in [Calls -> Nat]
  BY Budget DEF CrashReconcile, IInv, Calls
<1>2. Sound(db')
  <2>1. db' = db \/ \E c \in todo : db' \in Torn(work, db, c)
    BY DEF CrashReconcile
  <2> QED BY <2>1, TornSound DEF IInv, Types
<1>3. spent' \subseteq Items \X Nat
  <2> DEFINE lost == {v \in Items :
                db'.ep[v].gen # db.ep[v].gen \/ \E c \in Scopes : Probe(db', c) = v /\ Probe(db, c) # v}
  <2>1. spent' = spent \union {<<w, db'.ep[w].gen>> : w \in lost}
    BY DEF CrashReconcile
  <2>2. lost \subseteq Items
    OBVIOUS
  <2> HIDE DEF lost
  <2>3. \A w \in Items : db'.ep[w].gen \in Nat
    BY <1>2 DEF Sound, Databases, Episodes
  <2>4. spent \subseteq Items \X Nat
    BY DEF IInv, Types
  <2> QED BY <2>1, <2>2, <2>3, <2>4
<1>4. Types'
  BY <1>1, <1>3 DEF IInv, Types, Clock, CrashReconcile, World
<1> QED BY <1>2, <1>4 DEF Effect, CrashReconcile

LEMMA RestartStep == ASSUME IInv, NEW stopped \in SUBSET Items, Restart(stopped) PROVE Effect
<1>1. Safe(db, db')
  BY Silent DEF Restart
<1>2. work' \in [Items -> Rows]
  BY DEF Restart, IInv, Types, Rows
<1>3. todo' \subseteq Scopes /\ worker' \in {"up", "starting"} /\ auto' \subseteq auto
  BY DEF Restart
<1>4. Types'
  BY <1>2, <1>3 DEF IInv, Types, Clock, Restart, World
<1> QED BY <1>1, <1>3, <1>4 DEF Effect, Safe

LEMMA ReconcileStep == ASSUME IInv, NEW c \in Scopes, Reconcile(c) PROVE Effect
<1>1. Sound(db') /\ worker = "starting"
  BY ReconciledSound DEF Reconcile, IInv, Types
<1>2. todo' \subseteq Scopes /\ worker' \in {"up", "starting"} /\ auto' = auto
  BY DEF Reconcile, IInv, Types
<1>3. Types'
  BY <1>2 DEF IInv, Types, Clock, Reconcile, World
<1> QED BY <1>1, <1>2, <1>3 DEF Effect

LEMMA Step == ASSUME IInv, Next PROVE Effect
<1>1. CASE Tick
  BY <1>1, TickStep
<1>2. CASE MoveGate
  BY <1>2, MoveGateStep
<1>3. ASSUME NEW w \in Items, NEW c \in Scopes, NEW d \in Delays, NEW f \in Floors,
             FailTransient(w, c, d, f)
      PROVE  Effect
  BY <1>3, FailTransientStep
<1>4. ASSUME NEW w \in Items, NEW b \in BOOLEAN,
             Succeed(w) \/ Finish(w) \/ Leave(w, b) \/ FailOther(w) \/ Postpone(w)
      PROVE  Effect
  BY <1>4, SucceedStep, FinishStep, LeaveStep, FailOtherStep, PostponeStep
<1>5. ASSUME NEW w \in Items,
             WakePostponed(w) \/ OrphanInterrupt(w) \/ Admit(w) \/ ReleaseHeld(w)
      PROVE  Effect
  BY <1>5, WakePostponedStep, OrphanInterruptStep, AdmitStep, ReleaseHeldStep
<1>6. ASSUME NEW w \in Items, Pause(w) \/ Start(w) \/ Interrupt(w) \/ Retry(w) PROVE Effect
  BY <1>6, PauseStep, StartStep, InterruptStep, RetryStep
<1>7. ASSUME NEW j \in db.jobs, NEW dies \in {"no", "claimed", "handled"},
             Deliver(j, dies) \/ LeaseExpires(j)
      PROVE  Effect
  BY <1>7, DeliverStep, LeaseExpiresStep
<1>8. CASE Crash \/ CrashReconcile
  BY <1>8, CrashStep, CrashReconcileStep
<1>9. ASSUME NEW stopped \in SUBSET Items, Restart(stopped) PROVE Effect
  BY <1>9, RestartStep
<1>10. ASSUME NEW c \in Scopes, Reconcile(c) PROVE Effect
  BY <1>10, ReconcileStep
<1> QED BY <1>1, <1>2, <1>3, <1>4, <1>5, <1>6, <1>7, <1>8, <1>9, <1>10 DEF Next

LEMMA Stutter == ASSUME IInv, UNCHANGED vars PROVE Effect
<1>1. UNCHANGED World /\ UNCHANGED Engine /\ work' = work /\ db' = db /\ auto' = auto /\ may' = may
  BY DEF vars, World, Engine
<1> QED BY <1>1, Silent, Called DEF IInv, Types

LEMMA Inductive == Spec => []IInv
<1>1. IInv /\ [Next]_vars => IInv'
  BY Step, Stutter DEF Effect, IInv
<1> QED BY Initially, <1>1, PTL DEF Spec

-----------------------------------------------------------------------------
(* The theorems. *)

\* Types, and a deadline exactly where one waits.
THEOREM TypeCorrect == Spec => []TypeOK
<1>1. IInv => TypeOK
  <2> SUFFICES ASSUME IInv PROVE TypeOK
    OBVIOUS
  <2>1. /\ db.cd \in [Scopes -> Cooldowns] /\ db.ep \in [Items -> Episodes]
        /\ db.jobs \subseteq WakeJobs
    BY DEF IInv, Sound, Databases
  <2>2. \A w \in Items : db.ep[w].status = "scheduled" <=> db.ep[w].at # Null
    BY DEF IInv, Sound, Dated
  <2>3. Types
    BY DEF IInv
  <2> QED BY <2>1, <2>2, <2>3
          DEF TypeOK, Types, Clock, Times, Stamps, Cooldowns, Episodes, WakeJobs, Rows
<1> QED BY Inductive, <1>1, PTL

\* The lease of a scope is held inside the scope: whatever fails, moves to
\* another provider, is paused, reset or abandoned, and in whatever order, no
\* lease is left with a Work Item whose settlement would not find it.
THEOREM LeaseInsideScope == Spec => []ProbeBelongsToScope
<1>1. IInv => ProbeBelongsToScope
  BY DEF IInv, Sound, Inside, ProbeBelongsToScope, Probe
<1> QED BY Inductive, <1>1, PTL

\* No wake begins an attempt before the deadline of its scope.
THEOREM NoEarlyAttempt == Spec => NoAttemptInCooldown
<1>1. IInv /\ [Next]_vars => [\A w \in auto' \ auto : \A c \in Scopes :
                                 db.ep[w].scope = c => db.cd[c].at <= now]_vars
  BY Step, Stutter DEF Effect, Due
<1> QED BY Inductive, <1>1, PTL DEF Spec, NoAttemptInCooldown

\* No call puts a deadline past the limit of the Work Item.
THEOREM LimitKept == Spec => LimitShown
<1>1. IInv /\ [Next]_vars =>
         [worker # "starting" =>
            \A w \in Items :
               LET e == db'.ep[w]
               IN  e.status = "scheduled" /\ e.at > now /\ e.at # db.ep[w].at
                      => ~TooLong(e.started, e.at)]_vars
  BY Step, Stutter DEF Effect, Timely, InTime
<1> QED BY Inductive, <1>1, PTL DEF Spec, LimitShown
=============================================================================
