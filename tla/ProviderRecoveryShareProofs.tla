--------------------- MODULE ProviderRecoveryShareProofs ---------------------
(***************************************************************************)
(* Proofs about what the Work Items of a provider scope owe each other,    *)
(* for any number of them: one recovery attempt at a time, no deadline     *)
(* shown before that of the scope, and the repair of the leases at a       *)
(* restart.                                                                *)
(***************************************************************************)
EXTENDS ProviderRecoveryProofs

-----------------------------------------------------------------------------
(* What the calls of one Work Item may do to another one.                   *)

\* The row does not stop an attempt of w, and w is in one.
Trying(wk, w) ==
    /\ ~wk[w].paused /\ ~wk[w].held /\ ~wk[w].over
    /\ wk[w].run = "active" \/ wk[w].waiting

\* w holds the lease of its scope, if it has one.
Leased(s, w) == s.ep[w].scope = NoScope \/ Probe(s, s.ep[w].scope) = w

\* While the episode of w is open, the lease w uses in its attempt stays its own.
Spared(wk, s, t, w) ==
    /\ Open(t.ep[w])
    /\ s.ep[w].status = "in_attempt" /\ Trying(wk, w) /\ Leased(s, w)
    => Leased(t, w)

\* The episode of w stays as it was or ends: it is put into no attempt.
Steady(s, t, w) == Open(t.ep[w]) => t.ep[w].status = s.ep[w].status

\* Nothing is taken from the Work Items other than w.
Kept(wk, s, t, w) == \A v \in Items \ {w} : Steady(s, t, v) /\ Spared(wk, s, t, v)

\* No deadline is shown before that of the scope, while that is to come.
Aligned(s) ==
    \A w \in Items \ Gated, c \in Scopes :
        s.ep[w].status = "scheduled" /\ s.ep[w].scope = c /\ s.cd[c].at > now
            => s.ep[w].at >= s.cd[c].at

\* The scope of an episode has a cooldown.
Existing(s) == \A w \in Items : s.ep[w].scope # NoScope => s.cd[s.ep[w].scope].exists

Tidy(s) == Sound(s) /\ Aligned(s) /\ Existing(s)

\* A statement made for w that gives nobody an attempt.
Calm(wk, s, t, w) == Tidy(t) /\ Kept(wk, s, t, w) /\ \A v \in Items : Steady(s, t, v)

LEMMA CalmReflexive == ASSUME NEW wk, NEW s, NEW w, Tidy(s) PROVE Calm(wk, s, s, w)
BY DEF Calm, Kept, Spared, Steady

LEMMA SteadyTransitive ==
    ASSUME NEW s, NEW t, NEW u, NEW w, Steady(s, t, w), Steady(t, u, w) PROVE Steady(s, u, w)
BY DEF Steady, Open

LEMMA KeptTransitive ==
    ASSUME NEW wk, NEW s, NEW t, NEW u, NEW w, Kept(wk, s, t, w), Kept(wk, t, u, w)
    PROVE  Kept(wk, s, u, w)
<1> SUFFICES ASSUME NEW v \in Items \ {w} PROVE Steady(s, u, v) /\ Spared(wk, s, u, v)
  BY DEF Kept
<1>1. Steady(s, t, v) /\ Spared(wk, s, t, v) /\ Steady(t, u, v) /\ Spared(wk, t, u, v)
  BY DEF Kept
<1>2. Steady(s, u, v)
  BY <1>1, SteadyTransitive
<1>3. Open(u.ep[v]) => Open(t.ep[v]) /\ t.ep[v].status = u.ep[v].status
  BY <1>1 DEF Steady, Open
<1>4. Spared(wk, s, u, v)
  BY <1>1, <1>2, <1>3 DEF Spared, Steady
<1> QED BY <1>2, <1>4

LEMMA CalmTransitive ==
    ASSUME NEW wk, NEW s, NEW t, NEW u, NEW w, Calm(wk, s, t, w), Calm(wk, t, u, w)
    PROVE  Calm(wk, s, u, w)
BY KeptTransitive, SteadyTransitive DEF Calm

\* A row of provider_recovery_cooldown is written.
LEMMA CooldownIs ==
    ASSUME NEW s, Sound(s), NEW c \in Scopes, NEW q
    PROVE  LET t == [s EXCEPT !.cd[c] = q]
           IN  /\ t.ep = s.ep /\ t.jobs = s.jobs
               /\ \A d \in Scopes : t.cd[d] = IF d = c THEN q ELSE s.cd[d]
BY DEF Sound, Databases

LEMMA UnownedIs ==
    ASSUME NEW s, Sound(s), NEW c \in Scopes
    PROVE  LET t == Unowned(s, c)
           IN  /\ Sound(t) /\ t.ep = s.ep /\ t.jobs = s.jobs
               /\ \A d \in Scopes \ {c} : t.cd[d] = s.cd[d]
               /\ t.cd[c].exists = s.cd[c].exists /\ t.cd[c].at = s.cd[c].at
               /\ t.cd[c].probe = NoItem
<1>1. Sound(Unowned(s, c))
  BY UnownedSafe DEF Safe
<1>2. s.cd[c] \in Cooldowns
  BY DEF Sound, Databases
<1> DEFINE q == [s.cd[c] EXCEPT !.probe = NoItem]
<1>3. q.exists = s.cd[c].exists /\ q.at = s.cd[c].at /\ q.probe = NoItem
  BY <1>2 DEF Cooldowns
<1>4. Unowned(s, c) = [s EXCEPT !.cd[c] = q]
  BY DEF Unowned, Sound, Databases
<1> HIDE DEF q
<1> QED BY <1>1, <1>3, <1>4, CooldownIs

\* Those in W have got the deadlines at, or have run out of time; the others
\* stay as they are.
Shifted(s, t, W, at) ==
    /\ t.cd = s.cd
    /\ \A v \in Items \ W : t.ep[v] = s.ep[v]
    /\ \A v \in W : t.ep[v].scope = s.ep[v].scope /\ t.ep[v].started = s.ep[v].started
    /\ \A v \in W : TooLong(s.ep[v].started, Latest(now, at[v])) =>
                       t.ep[v].status = "exhausted" /\ t.ep[v].at = Null
    /\ \A v \in W : ~TooLong(s.ep[v].started, Latest(now, at[v])) =>
                       t.ep[v].status = "scheduled" /\ t.ep[v].at = at[v]

LEMMA RescheduledIs ==
    ASSUME NEW s, Sound(s), Clock, NEW W \in SUBSET Items, NEW at,
           \A w \in W : at[w] \in Times
    PROVE  Sound(Rescheduled(s, W, at)) /\ Shifted(s, Rescheduled(s, W, at), W, at)
<1> DEFINE t == Rescheduled(s, W, at)
           F == {w \in W : ~TooLong(s.ep[w].started, Latest(now, at[w]))}
           J == {Wake(s, w, s.ep[w].gen + 1, at[w]) : w \in F}
           go(w) == Moved(s.ep[w], "scheduled", at[w], s.ep[w].gen + 1)
           stop(w) == Moved(s.ep[w], "exhausted", Null, s.ep[w].gen + 1)
<1>1. s \in Databases /\ s.ep \in [Items -> Episodes]
  BY DEF Sound, Databases
<1>2. t = [s EXCEPT !.ep = [w \in Items |-> IF w \notin W THEN s.ep[w]
                                             ELSE IF w \in F THEN go(w) ELSE stop(w)],
                    !.jobs = s.jobs \union J]
  BY DEF Rescheduled, Moved
<1>3. Sound(t) /\ t.cd = s.cd
  BY RescheduledSafe DEF Safe
<1> HIDE DEF t, go, stop, J
<1>4. /\ t.jobs = s.jobs \union J
      /\ t.ep = [w \in Items |-> IF w \notin W THEN s.ep[w]
                                  ELSE IF w \in F THEN go(w) ELSE stop(w)]
  BY <1>1, <1>2 DEF Databases
<1>5. ASSUME NEW v \in W, v \in F
      PROVE  /\ t.ep[v].scope = s.ep[v].scope /\ t.ep[v].started = s.ep[v].started
             /\ t.ep[v].status = "scheduled" /\ t.ep[v].at = at[v]
  <2>1. s.ep[v] \in Episodes
    BY <1>1
  <2>2. t.ep[v] = go(v)
    BY <1>4, <1>5
  <2>3. /\ go(v).scope = s.ep[v].scope /\ go(v).started = s.ep[v].started
        /\ go(v).status = "scheduled" /\ go(v).at = at[v] /\ go(v).gen = s.ep[v].gen + 1
    BY <2>1 DEF go, Moved, Episodes
  <2> QED BY <2>2, <2>3
<1>6. ASSUME NEW v \in W, v \notin F
      PROVE  /\ t.ep[v].scope = s.ep[v].scope /\ t.ep[v].started = s.ep[v].started
             /\ t.ep[v].status = "exhausted" /\ t.ep[v].at = Null
  <2>1. s.ep[v] \in Episodes
    BY <1>1
  <2>2. t.ep[v] = stop(v)
    BY <1>4, <1>6
  <2> QED BY <2>1, <2>2 DEF stop, Moved, Episodes
<1>7. \A v \in Items \ W : t.ep[v] = s.ep[v]
  BY <1>4
<1>8. \A v \in W : t.ep[v].scope = s.ep[v].scope /\ t.ep[v].started = s.ep[v].started
  BY <1>5, <1>6
<1>9. Shifted(s, t, W, at)
  BY <1>3, <1>5, <1>6, <1>7, <1>8 DEF Shifted
<1> QED BY <1>3, <1>9 DEF t

\* Deleted.
LEMMA DeletedIs ==
    ASSUME NEW s, Sound(s), NEW c \in Scopes
    PROVE  LET t == Deleted(s, c)
           IN  /\ Sound(t) /\ t.jobs = s.jobs
               /\ \A d \in Scopes : t.cd[d] = IF d = c THEN NoCooldown ELSE s.cd[d]
               /\ \A v \in Items : /\ t.ep[v].status = s.ep[v].status /\ t.ep[v].at = s.ep[v].at
                                   /\ t.ep[v].gen = s.ep[v].gen
                                   /\ t.ep[v].started = s.ep[v].started
                                   /\ t.ep[v].scope = IF s.ep[v].scope = c THEN NoScope ELSE s.ep[v].scope
                                   /\ s.ep[v].scope # c => t.ep[v] = s.ep[v]
<1> DEFINE t == Deleted(s, c)
<1>1. s \in Databases /\ s.ep \in [Items -> Episodes] /\ s.cd \in [Scopes -> Cooldowns]
  BY DEF Sound, Databases
<1>2. Sound(t)
  BY DeletedSafe DEF Safe
<1>3. /\ t.jobs = s.jobs
      /\ t.cd = [s.cd EXCEPT ![c] = NoCooldown]
      /\ t.ep = [w \in Items |-> IF s.ep[w].scope = c
                                  THEN [s.ep[w] EXCEPT !.scope = NoScope] ELSE s.ep[w]]
  BY <1>1 DEF Deleted, Databases
<1> HIDE DEF t
<1>4. \A d \in Scopes : t.cd[d] = IF d = c THEN NoCooldown ELSE s.cd[d]
  BY <1>1, <1>3
<1>5. ASSUME NEW v \in Items
      PROVE  /\ t.ep[v].status = s.ep[v].status /\ t.ep[v].at = s.ep[v].at
             /\ t.ep[v].gen = s.ep[v].gen
             /\ t.ep[v].started = s.ep[v].started
             /\ t.ep[v].scope = IF s.ep[v].scope = c THEN NoScope ELSE s.ep[v].scope
             /\ s.ep[v].scope # c => t.ep[v] = s.ep[v]
  BY <1>1, <1>3 DEF Episodes
<1> QED BY <1>2, <1>3, <1>4, <1>5 DEF t

-----------------------------------------------------------------------------
(* The statements are calm.                                                 *)

\* Whoever is in an attempt with the lease of its scope has a right to it.
LEMMA RightfulOwner ==
    ASSUME NEW wk, NEW s, NEW w \in Items,
           s.ep[w].status = "in_attempt", Trying(wk, w)
    PROVE  Valid(wk, s, w)
BY Constants DEF Trying, Valid

\* A row of the cooldowns is written. What is shown stays, and nobody but w
\* loses a lease it uses.
LEMMA CooldownCalm ==
    ASSUME NEW wk, NEW s, Tidy(s), NEW t, Sound(t), NEW c \in Scopes, NEW w,
           t.ep = s.ep, \A d \in Scopes \ {c} : t.cd[d] = s.cd[d],
           t.cd[c].exists \/ ~s.cd[c].exists,
           t.cd[c].at = s.cd[c].at \/ ~(t.cd[c].at > now),
           \/ Probe(t, c) = Probe(s, c)
           \/ Probe(s, c) \in {NoItem, w}
           \/ ~(Valid(wk, s, Probe(s, c)) /\ s.ep[Probe(s, c)].status = "in_attempt")
    PROVE  Calm(wk, s, t, w)
<1>1. Aligned(t)
  BY DEF Tidy, Aligned
<1>2. Existing(t)
  BY ScopeType DEF Tidy, Existing
<1>3. ASSUME NEW v \in Items \ {w} PROVE Spared(wk, s, t, v)
  <2>1. v # NoItem
    BY Constants
  <2>2. CASE s.ep[v].scope = NoScope
    BY <2>2 DEF Spared, Leased
  <2>3. CASE s.ep[v].scope \in Scopes
    BY <2>1, <2>3, RightfulOwner DEF Spared, Leased, Probe
  <2> QED BY <2>2, <2>3, ScopeType DEF Tidy
<1> QED BY <1>1, <1>2, <1>3 DEF Calm, Tidy, Kept, Steady

LEMMA UnownedCalm ==
    ASSUME NEW wk, NEW s, Tidy(s), NEW c \in Scopes, NEW w,
           Probe(s, c) \in {NoItem, w} \/ ~Valid(wk, s, Probe(s, c))
    PROVE  Calm(wk, s, Unowned(s, c), w)
<1> DEFINE t == Unowned(s, c)
<1>1. /\ Sound(t) /\ t.ep = s.ep
      /\ \A d \in Scopes \ {c} : t.cd[d] = s.cd[d]
      /\ t.cd[c].exists = s.cd[c].exists /\ t.cd[c].at = s.cd[c].at
  BY UnownedIs DEF Tidy
<1> HIDE DEF t
<1> QED BY <1>1, CooldownCalm DEF t

LEMMA ClearedCalm ==
    ASSUME NEW wk, NEW s, Tidy(s), NEW c \in Scopes, NEW w
    PROVE  Calm(wk, s, Cleared(wk, s, c), w)
BY UnownedCalm, CalmReflexive DEF Cleared

LEMMA DroppedCalm ==
    ASSUME NEW wk, NEW s, Tidy(s), NEW c \in Scopes, NEW w
    PROVE  Calm(wk, s, Dropped(s, c, w), w)
BY UnownedCalm, CalmReflexive DEF Dropped

\* Waiting Work Items get deadlines, none of them before that of its scope.
LEMMA RescheduledCalm ==
    ASSUME NEW wk, NEW s, Tidy(s), Clock, NEW w, NEW W \in SUBSET Items, NEW at,
           \A v \in W : at[v] \in Times /\ s.ep[v].status = "scheduled",
           \A v \in W, d \in Scopes : s.ep[v].scope = d /\ s.cd[d].at > now => at[v] >= s.cd[d].at
    PROVE  Calm(wk, s, Rescheduled(s, W, at), w)
<1> DEFINE t == Rescheduled(s, W, at)
<1>1. /\ Sound(t) /\ t.cd = s.cd
      /\ \A v \in Items \ W : t.ep[v] = s.ep[v]
      /\ \A v \in W : t.ep[v].scope = s.ep[v].scope
      /\ \A v \in W : TooLong(s.ep[v].started, Latest(now, at[v])) => t.ep[v].status = "exhausted"
      /\ \A v \in W : ~TooLong(s.ep[v].started, Latest(now, at[v])) =>
                         t.ep[v].status = "scheduled" /\ t.ep[v].at = at[v]
  <2>1. Sound(s) /\ \A v \in W : at[v] \in Times
    BY DEF Tidy
  <2>2. Sound(t) /\ Shifted(s, t, W, at)
    BY <2>1, RescheduledIs
  <2> HIDE DEF t
  <2> QED BY <2>2 DEF Shifted
<1> HIDE DEF t
<1>2. \A v \in W : t.ep[v].status = "scheduled" => t.ep[v].at = at[v]
  BY <1>1
<1>3. Aligned(t)
  BY <1>1, <1>2 DEF Tidy, Aligned
<1>4. Existing(t)
  BY <1>1 DEF Tidy, Existing
<1>5. ASSUME NEW v \in Items PROVE Steady(s, t, v) /\ Spared(wk, s, t, v)
  BY <1>1 DEF Steady, Open, Spared, Leased, Probe
<1> QED BY <1>1, <1>3, <1>4, <1>5 DEF Calm, Tidy, Kept, t

LEMMA DeletedCalm ==
    ASSUME NEW wk, NEW s, Tidy(s), NEW c \in Scopes, NEW w
    PROVE  Calm(wk, s, Deleted(s, c), w)
<1> DEFINE t == Deleted(s, c)
<1>1. /\ Sound(t)
      /\ \A d \in Scopes : t.cd[d] = IF d = c THEN NoCooldown ELSE s.cd[d]
      /\ \A v \in Items : /\ t.ep[v].status = s.ep[v].status /\ t.ep[v].at = s.ep[v].at
                          /\ t.ep[v].scope = IF s.ep[v].scope = c THEN NoScope ELSE s.ep[v].scope
  BY DeletedIs DEF Tidy
<1> HIDE DEF t
<1>2. NoScope \notin Scopes
  BY Constants
<1>3. Aligned(t)
  BY <1>1, <1>2 DEF Tidy, Aligned
<1>4. Existing(t)
  BY <1>1, <1>2, ScopeType DEF Tidy, Existing
<1>5. ASSUME NEW v \in Items PROVE Steady(s, t, v) /\ Spared(wk, s, t, v)
  <2>1. s.ep[v].scope \in Scopes \union {NoScope}
    BY ScopeType DEF Tidy
  <2> QED BY <1>1, <1>2, <2>1 DEF Steady, Open, Spared, Leased, Probe
<1> QED BY <1>1, <1>3, <1>4, <1>5 DEF Calm, Tidy, Kept, t

LEMMA DeletedIfIdleCalm ==
    ASSUME NEW wk, NEW s, Tidy(s), NEW c \in Scopes, NEW w
    PROVE  Calm(wk, s, DeletedIfIdle(s, c), w)
BY DeletedCalm, CalmReflexive DEF DeletedIfIdle

-----------------------------------------------------------------------------
(* The next probe. *)

\* The candidates of PromotedFrom, and its three outcomes: the lease is taken,
\* nobody has time left, or next gets it and those in lost have run out of time.
Candidates(wk, s, c, x) == {v \in WaitingIn(s, c) \ {x} : Valid(wk, s, v)}

NextDue(s, c) == Latest(now, s.cd[c].at)

OutOfTime(s, c, W) == Rescheduled(s, W, [v \in W |-> NextDue(s, c)])

Chosen(s, t, c, w) == Rescheduled([t EXCEPT !.cd[c].at = NextDue(s, c), !.cd[c].probe = w],
                                  {w}, [v \in {w} |-> NextDue(s, c)])

Outcome(wk, s, t, c, x) ==
    LET C == Candidates(wk, s, c, x)
    IN  \/ Probe(s, c) \notin {NoItem, x} /\ t = s
        \/ /\ Probe(s, c) \in {NoItem, x}
           /\ \A v \in C : TooLong(s.ep[v].started, NextDue(s, c))
           /\ t = DeletedIfIdle(OutOfTime(s, c, C), c)
        \/ /\ Probe(s, c) \in {NoItem, x}
           /\ \E next \in C, lost \in SUBSET C :
                 /\ next \notin lost
                 /\ ~TooLong(s.ep[next].started, NextDue(s, c))
                 /\ t = Chosen(s, OutOfTime(s, c, lost), c, next)

LEMMA PromotedFromIs ==
    ASSUME NEW s, Sound(s), Clock, NEW wk, NEW c \in Scopes, NEW x
    PROVE  Outcome(wk, s, PromotedFrom(wk, s, c, x), c, x)
<1> DEFINE deadline == Latest(now, s.cd[c].at)
           before(v, u) == s.ep[v].at < s.ep[u].at \/ (s.ep[v].at = s.ep[u].at /\ v < u)
           eligible == {v \in WaitingIn(s, c) \ {x} : Valid(wk, s, v)}
           inTime   == {v \in eligible : ~TooLong(s.ep[v].started, deadline)}
           next     == CHOOSE v \in inTime : \A u \in inTime \ {v} : before(v, u)
           lost     == IF inTime = {} THEN eligible ELSE {v \in eligible \ inTime : before(v, next)}
           s1       == Rescheduled(s, lost, [v \in lost |-> deadline])
           s2       == [s1 EXCEPT !.cd[c].at = deadline, !.cd[c].probe = next]
           g        == [v \in {next} |-> deadline]
<1>1. PromotedFrom(wk, s, c, x) =
        IF Probe(s, c) \notin {NoItem, x} THEN s
        ELSE IF inTime = {} THEN DeletedIfIdle(s1, c)
        ELSE Rescheduled(s2, {next}, g)
  BY DEF PromotedFrom
<1>2. s.ep \in [Items -> Episodes]
  BY DEF Sound, Databases
<1>3. eligible = Candidates(wk, s, c, x) /\ deadline = NextDue(s, c)
  BY DEF Candidates, NextDue
<1>4. eligible \subseteq Items /\ \A v \in eligible : s.ep[v].status = "scheduled"
  BY DEF WaitingIn, OpenIn
<1>5. inTime = {v \in eligible : ~TooLong(s.ep[v].started, deadline)}
  OBVIOUS
<1>6. inTime # {} => lost = {v \in eligible \ inTime : before(v, next)}
  OBVIOUS
<1>7. inTime = {} => lost = eligible
  OBVIOUS
<1>8. s1 = OutOfTime(s, c, lost)
  <2> HIDE DEF lost
  <2> QED BY <1>3 DEF OutOfTime
<1>9. Rescheduled(s2, {next}, g) = Chosen(s, s1, c, next)
  <2> HIDE DEF s1, next
  <2> QED BY <1>3 DEF Chosen
<1> HIDE DEF deadline, eligible, lost, s1, s2, g
<1>10. ASSUME inTime # {} PROVE next \in inTime
  <2> DEFINE at == [v \in Items |-> s.ep[v].at]
  <2>1. inTime \in SUBSET Items
    BY <1>4, <1>5
  <2>2. \A v \in inTime : at[v] \in Nat
    <3> TAKE v \in inTime
    <3>1. v \in Items /\ s.ep[v].status = "scheduled"
      BY <1>4, <1>5
    <3>2. Dated(s.ep[v]) /\ s.ep[v].at \in Stamps
      BY <3>1, <1>2 DEF Sound, Episodes
    <3> QED BY <3>1, <3>2 DEF Dated, Stamps, Times
  <2>3. \A v \in Items : at[v] = s.ep[v].at
    OBVIOUS
  <2> HIDE DEF at, inTime
  <2>4. \E v \in inTime : \A u \in inTime \ {v} : at[v] < at[u] \/ (at[v] = at[u] /\ v < u)
    BY <1>10, <2>1, <2>2, FirstExists
  <2>5. \E v \in inTime : \A u \in inTime \ {v} : before(v, u)
    BY <2>1, <2>3, <2>4
  <2> HIDE DEF before
  <2> QED BY <2>5
<1> HIDE DEF inTime, next, before
<1>11. CASE Probe(s, c) \notin {NoItem, x}
  BY <1>1, <1>11 DEF Outcome
<1>12. CASE Probe(s, c) \in {NoItem, x} /\ inTime = {}
  <2>1. PromotedFrom(wk, s, c, x) = DeletedIfIdle(OutOfTime(s, c, eligible), c)
    BY <1>1, <1>7, <1>8, <1>12
  <2>2. \A v \in eligible : TooLong(s.ep[v].started, deadline)
    BY <1>5, <1>12
  <2> QED BY <1>3, <1>12, <2>1, <2>2 DEF Outcome
<1>13. CASE Probe(s, c) \in {NoItem, x} /\ inTime # {}
  <2>1. next \in eligible /\ ~TooLong(s.ep[next].started, deadline) /\ next \in inTime
    BY <1>5, <1>10, <1>13
  <2>2. lost \in SUBSET eligible /\ next \notin lost
    BY <1>6, <1>13, <2>1
  <2>3. PromotedFrom(wk, s, c, x) = Chosen(s, OutOfTime(s, c, lost), c, next)
    BY <1>1, <1>8, <1>9, <1>13
  <2> QED BY <1>3, <1>13, <2>1, <2>2, <2>3 DEF Outcome
<1> QED BY <1>11, <1>12, <1>13

\* What the choice of a probe takes from a scope: those in W, who wait there
\* with a right to the lease, have run out of time.
LEMMA OutOfTimeCalm ==
    ASSUME NEW wk, NEW s, Tidy(s), Clock, NEW w, NEW c \in Scopes,
           NEW W \in SUBSET WaitingIn(s, c)
    PROVE  LET t == OutOfTime(s, c, W)
           IN  /\ Calm(wk, s, t, w)
               /\ t.cd = s.cd
               /\ \A v \in Items : t.ep[v].scope = s.ep[v].scope
               /\ \A v \in Items \ W : t.ep[v] = s.ep[v]
               /\ \A v \in W : TooLong(s.ep[v].started, NextDue(s, c)) => t.ep[v].status = "exhausted"
<1> DEFINE d == NextDue(s, c)
           at == [v \in W |-> d]
           t == Rescheduled(s, W, at)
<1>1. s.cd[c].at \in Stamps /\ d \in Times /\ d >= s.cd[c].at /\ d >= now
  <2>1. s.cd[c].at \in Stamps /\ now \in Stamps /\ now \in Times
    BY DEF Tidy, Sound, Databases, Cooldowns, Clock, Stamps
  <2> QED BY <2>1, LatestTime DEF NextDue
<1>2. /\ W \in SUBSET Items
      /\ \A v \in W : s.ep[v].status = "scheduled" /\ s.ep[v].scope = c
  BY DEF WaitingIn, OpenIn
<1>3. /\ \A v \in W : at[v] \in Times /\ s.ep[v].status = "scheduled"
      /\ \A v \in W, e \in Scopes : s.ep[v].scope = e /\ s.cd[e].at > now => at[v] >= s.cd[e].at
  BY <1>1, <1>2
<1>4. \A v \in W : at[v] = d
  OBVIOUS
<1>5. t = OutOfTime(s, c, W)
  BY DEF OutOfTime
<1> HIDE DEF at, d
<1>6. Calm(wk, s, t, w)
  BY <1>2, <1>3, RescheduledCalm
<1>7. /\ t.cd = s.cd
      /\ \A v \in Items \ W : t.ep[v] = s.ep[v]
      /\ \A v \in W : t.ep[v].scope = s.ep[v].scope
      /\ \A v \in W : TooLong(s.ep[v].started, Latest(now, at[v])) => t.ep[v].status = "exhausted"
  <2>1. Sound(s) /\ \A v \in W : at[v] \in Times
    BY <1>3 DEF Tidy
  <2>2. Shifted(s, t, W, at)
    BY <1>2, <2>1, RescheduledIs
  <2> HIDE DEF t
  <2> QED BY <2>2 DEF Shifted
<1> HIDE DEF t
<1>8. Latest(now, d) = d
  BY <1>1 DEF Latest, Clock, Times
<1>9. \A v \in W : TooLong(s.ep[v].started, d) => t.ep[v].status = "exhausted"
  BY <1>4, <1>7, <1>8
<1>10. \A v \in Items : t.ep[v].scope = s.ep[v].scope
  BY <1>7
<1> QED BY <1>5, <1>6, <1>7, <1>9, <1>10 DEF d

\* The one that is chosen holds the lease and waits until the deadline.
LEMMA ChosenCalm ==
    ASSUME NEW wk, NEW s, NEW t, Tidy(t), Sound(s), Clock, NEW c \in Scopes, NEW w, NEW x,
           t.cd = s.cd, x \in WaitingIn(t, c), t.ep[x] = s.ep[x],
           ~TooLong(s.ep[x].started, NextDue(s, c)),
           Probe(s, c) \in {NoItem, w}
    PROVE  LET u == Chosen(s, t, c, x)
           IN  /\ Calm(wk, t, u, w)
               /\ \A d \in Scopes \ {c} : u.cd[d] = t.cd[d]
               /\ \A v \in Items \ {x} : u.ep[v] = t.ep[v]
               /\ u.ep[x].scope = c /\ u.ep[x].status = "scheduled"
               /\ u.cd[c].exists = t.cd[c].exists /\ Probe(u, c) = x
<1> DEFINE d  == NextDue(s, c)
           q  == [t.cd[c] EXCEPT !.at = d, !.probe = x]
           t1 == [t EXCEPT !.cd[c].at = d, !.cd[c].probe = x]
           at == [v \in {x} |-> d]
           u  == Rescheduled(t1, {x}, at)
<1>1. s.cd[c].at \in Stamps /\ d \in Times /\ d \in Stamps /\ d >= s.cd[c].at /\ d >= now
      /\ d \in {now, s.cd[c].at}
  <2>1. s.cd[c].at \in Stamps /\ now \in Stamps /\ now \in Times
    BY DEF Sound, Databases, Cooldowns, Clock, Stamps
  <2> QED BY <2>1, LatestTime DEF NextDue, Stamps
<1>2. /\ x \in Items /\ t.ep[x].status = "scheduled" /\ t.ep[x].scope = c
      /\ Sound(t) /\ t \in Databases
  BY DEF WaitingIn, OpenIn, Tidy, Sound
<1>3. t1 = [t EXCEPT !.cd[c] = q]
  BY <1>2 DEF Databases
<1>4. Sound(t1)
  <2> HIDE DEF d
  <2> QED BY <1>1, <1>2, LeaseGiven DEF Safe
<1>5. q.exists = t.cd[c].exists /\ q.at = d /\ q.probe = x
  BY <1>2 DEF Databases, Cooldowns
<1>6. u = Chosen(s, t, c, x)
  BY DEF Chosen
<1> HIDE DEF q
<1>7. /\ t1.ep = t.ep
      /\ \A e \in Scopes : t1.cd[e] = IF e = c THEN q ELSE t.cd[e]
  <2> HIDE DEF t1
  <2> QED BY <1>2, <1>3, CooldownIs
<1>8. /\ \A v \in {x} : at[v] \in Times /\ t1.ep[v].status = "scheduled"
      /\ \A v \in {x}, e \in Scopes : t1.ep[v].scope = e /\ t1.cd[e].at > now => at[v] >= t1.cd[e].at
      /\ at[x] = d
  <2> HIDE DEF t1, d
  <2> QED BY <1>1, <1>2, <1>5, <1>7
<1> HIDE DEF t1, at, d
<1>9. Calm(wk, t, t1, w)
  <2>1. Probe(t1, c) = x /\ Probe(t, c) \in {NoItem, w}
    BY <1>5, <1>7 DEF Probe
  <2>2. t1.cd[c].at = t.cd[c].at \/ ~(t1.cd[c].at > now)
    BY <1>1, <1>5, <1>7 DEF Clock, Times
  <2> QED BY <1>4, <1>5, <1>7, <2>1, <2>2, CooldownCalm
<1>10. Tidy(t1)
  BY <1>9 DEF Calm
<1>11. Calm(wk, t1, u, w)
  BY <1>2, <1>8, <1>10, RescheduledCalm
<1>12. /\ u.cd = t1.cd
       /\ \A v \in Items \ {x} : u.ep[v] = t1.ep[v]
       /\ u.ep[x].scope = t1.ep[x].scope
       /\ ~TooLong(t1.ep[x].started, Latest(now, at[x])) => u.ep[x].status = "scheduled"
  <2>1. {x} \in SUBSET Items /\ \A v \in {x} : at[v] \in Times
    BY <1>2, <1>8
  <2>2. Shifted(t1, u, {x}, at)
    BY <1>4, <2>1, RescheduledIs
  <2> HIDE DEF u
  <2> QED BY <2>2 DEF Shifted
<1> HIDE DEF u
<1>13. Latest(now, d) = d
  BY <1>1 DEF Latest, Clock, Times
<1>14. u.ep[x].status = "scheduled"
  BY <1>7, <1>8, <1>12, <1>13 DEF d
<1>15. Calm(wk, t, u, w)
  BY <1>9, <1>11, CalmTransitive
<1>16. u.cd[c].exists = t.cd[c].exists /\ Probe(u, c) = x /\ \A e \in Scopes \ {c} : u.cd[e] = t.cd[e]
  BY <1>5, <1>7, <1>12 DEF Probe
<1>17. u.ep[x].scope = c /\ \A v \in Items \ {x} : u.ep[v] = t.ep[v]
  BY <1>2, <1>7, <1>12
<1> QED BY <1>6, <1>14, <1>15, <1>16, <1>17

\* A statement for the scope c leaves the other scopes alone.
Local(s, t, c) ==
    /\ \A d \in Scopes \ {c} : t.cd[d] = s.cd[d]
    /\ \A v \in Items : /\ t.ep[v].scope \in {s.ep[v].scope, NoScope}
                        /\ s.ep[v].scope # c => t.ep[v] = s.ep[v]

LEMMA LocalReflexive == ASSUME NEW s, NEW c PROVE Local(s, s, c)
BY DEF Local

LEMMA LocalTransitive ==
    ASSUME NEW s, NEW t, NEW u, NEW c \in Scopes, Local(s, t, c), Local(t, u, c)
    PROVE  Local(s, u, c)
BY Constants DEF Local

LEMMA UnownedLocal == ASSUME NEW s, Sound(s), NEW c \in Scopes PROVE Local(s, Unowned(s, c), c)
<1> DEFINE t == Unowned(s, c)
<1>1. t.ep = s.ep /\ \A d \in Scopes \ {c} : t.cd[d] = s.cd[d]
  BY UnownedIs
<1> HIDE DEF t
<1> QED BY <1>1 DEF Local, t

LEMMA ClearedLocal ==
    ASSUME NEW wk, NEW s, Sound(s), NEW c \in Scopes PROVE Local(s, Cleared(wk, s, c), c)
BY UnownedLocal, LocalReflexive DEF Cleared

LEMMA DeletedIfIdleLocal ==
    ASSUME NEW s, Sound(s), NEW c \in Scopes PROVE Local(s, DeletedIfIdle(s, c), c)
<1> DEFINE t == Deleted(s, c)
<1>1. /\ \A d \in Scopes : t.cd[d] = IF d = c THEN NoCooldown ELSE s.cd[d]
      /\ \A v \in Items : /\ t.ep[v].scope = IF s.ep[v].scope = c THEN NoScope ELSE s.ep[v].scope
                          /\ s.ep[v].scope # c => t.ep[v] = s.ep[v]
  BY DeletedIs
<1> HIDE DEF t
<1>2. Local(s, t, c)
  BY <1>1 DEF Local
<1> QED BY <1>2, LocalReflexive DEF DeletedIfIdle, t

LEMMA PromotedFromCalm ==
    ASSUME NEW wk, NEW s, Tidy(s), Clock, NEW c \in Scopes, NEW x, NEW w,
           Probe(s, c) = NoItem \/ x \in {NoItem, w}
    PROVE  Calm(wk, s, PromotedFrom(wk, s, c, x), w) /\ Local(s, PromotedFrom(wk, s, c, x), c)
<1> DEFINE t == PromotedFrom(wk, s, c, x)
           C == Candidates(wk, s, c, x)
<1>1. Outcome(wk, s, t, c, x) /\ Sound(s)
  BY PromotedFromIs DEF Tidy
<1>2. C \subseteq WaitingIn(s, c) /\ \A v \in C : v \in Items /\ s.ep[v].scope = c
  BY DEF Candidates, WaitingIn, OpenIn
<1> HIDE DEF t, C
<1>3. ASSUME NEW W \in SUBSET C
      PROVE  LET u == OutOfTime(s, c, W)
             IN  /\ Calm(wk, s, u, w) /\ Local(s, u, c)
                 /\ u.cd = s.cd
                 /\ \A v \in Items \ W : u.ep[v] = s.ep[v]
                 /\ \A v \in Items : u.ep[v].scope = s.ep[v].scope
  <2> DEFINE u == OutOfTime(s, c, W)
  <2>1. /\ Calm(wk, s, u, w)
        /\ u.cd = s.cd
        /\ \A v \in Items : u.ep[v].scope = s.ep[v].scope
        /\ \A v \in Items \ W : u.ep[v] = s.ep[v]
    <3>1. W \in SUBSET WaitingIn(s, c)
      BY <1>2
    <3> QED BY <3>1, OutOfTimeCalm
  <2> HIDE DEF u
  <2>2. Local(s, u, c)
    BY <1>2, <2>1 DEF Local
  <2> QED BY <2>1, <2>2 DEF u
<1>4. CASE t = s
  BY <1>4, CalmReflexive, LocalReflexive DEF t
<1>5. CASE t = DeletedIfIdle(OutOfTime(s, c, C), c)
  <2> DEFINE u == OutOfTime(s, c, C)
  <2>1. Calm(wk, s, u, w) /\ Local(s, u, c)
    BY <1>3
  <2> HIDE DEF u
  <2>2. Calm(wk, u, DeletedIfIdle(u, c), w) /\ Local(u, DeletedIfIdle(u, c), c)
    BY <2>1, DeletedIfIdleCalm, DeletedIfIdleLocal DEF Calm, Tidy
  <2> QED BY <1>5, <2>1, <2>2, CalmTransitive, LocalTransitive DEF t, u
<1>6. ASSUME NEW next \in C, NEW lost \in SUBSET C, next \notin lost, Probe(s, c) \in {NoItem, x},
             ~TooLong(s.ep[next].started, NextDue(s, c)),
             t = Chosen(s, OutOfTime(s, c, lost), c, next)
      PROVE  Calm(wk, s, t, w) /\ Local(s, t, c)
  <2> DEFINE u == OutOfTime(s, c, lost)
  <2>1. /\ Calm(wk, s, u, w) /\ Local(s, u, c) /\ u.cd = s.cd
        /\ u.ep[next] = s.ep[next]
        /\ \A v \in Items : u.ep[v].scope = s.ep[v].scope
    BY <1>2, <1>3, <1>6
  <2> HIDE DEF u
  <2>2. next \in WaitingIn(u, c) /\ u.ep[next].scope = c /\ Tidy(u)
    BY <1>2, <2>1 DEF WaitingIn, OpenIn, Calm
  <2>3. Probe(s, c) \in {NoItem, w}
    BY <1>6
  <2>4. /\ Calm(wk, u, t, w)
        /\ \A d \in Scopes \ {c} : t.cd[d] = u.cd[d]
        /\ \A v \in Items \ {next} : t.ep[v] = u.ep[v]
        /\ t.ep[next].scope = c
    <3> DEFINE z == Chosen(s, u, c, next)
    <3>1. /\ Calm(wk, u, z, w)
          /\ \A d \in Scopes \ {c} : z.cd[d] = u.cd[d]
          /\ \A v \in Items \ {next} : z.ep[v] = u.ep[v]
          /\ z.ep[next].scope = c
      BY <1>1, <1>6, <2>1, <2>2, <2>3, ChosenCalm
    <3>2. t = z
      BY <1>6 DEF u
    <3> HIDE DEF z
    <3> QED BY <3>1, <3>2
  <2>5. Local(u, t, c)
    BY <2>2, <2>4 DEF Local
  <2> QED BY <2>1, <2>4, <2>5, CalmTransitive, LocalTransitive
<1> QED BY <1>1, <1>4, <1>5, <1>6 DEF Outcome, C, t

LEMMA PromotedCalm ==
    ASSUME NEW wk, NEW s, Tidy(s), Clock, NEW c \in Scopes, NEW x, NEW w,
           Probe(s, c) = NoItem \/ x \in {NoItem, w}
    PROVE  Calm(wk, s, Promoted(wk, s, c, x), w) /\ Local(s, Promoted(wk, s, c, x), c)
<1> DEFINE t == Cleared(wk, s, c)
           u == PromotedFrom(wk, t, c, x)
<1>1. Calm(wk, s, t, w) /\ Local(s, t, c)
  BY ClearedCalm, ClearedLocal DEF Tidy
<1>2. Probe(t, c) \in {Probe(s, c), NoItem}
  BY UnownedIs DEF Cleared, Probe, Tidy
<1>3. Promoted(wk, s, c, x) = IF s.cd[c].exists THEN u ELSE s
  BY DEF Promoted
<1> HIDE DEF t
<1>4. Calm(wk, t, u, w) /\ Local(t, u, c)
  BY <1>1, <1>2, PromotedFromCalm DEF Calm
<1> HIDE DEF u
<1>5. Calm(wk, s, u, w) /\ Local(s, u, c)
  BY <1>1, <1>4, CalmTransitive, LocalTransitive
<1> QED BY <1>3, <1>5, CalmReflexive, LocalReflexive

-----------------------------------------------------------------------------
(* The calls of the cooldown. *)

LEMMA ReleasedCalm ==
    ASSUME NEW wk, NEW s, Tidy(s), Clock, NEW c \in Scopes, NEW w
    PROVE  Calm(wk, s, Released(s, c), w)
<1> DEFINE W == WaitingIn(s, c)
           at == [v \in W |-> now]
           t == Rescheduled(s, W, at)
           u == Deleted(t, c)
<1>1. /\ W \in SUBSET Items /\ \A v \in W : at[v] \in Times
      /\ \A v \in W : s.ep[v].status = "scheduled" /\ s.ep[v].scope = c
  BY DEF WaitingIn, OpenIn, Clock
<1>2. Released(s, c) = u
  BY DEF Released
<1> HIDE DEF W, at
<1>3. Sound(t) /\ Shifted(s, t, W, at)
  BY <1>1, RescheduledIs DEF Tidy
<1> HIDE DEF t
<1>4. /\ Sound(u)
      /\ \A d \in Scopes : u.cd[d] = IF d = c THEN NoCooldown ELSE t.cd[d]
      /\ \A v \in Items : /\ u.ep[v].status = t.ep[v].status /\ u.ep[v].at = t.ep[v].at
                          /\ u.ep[v].scope = IF t.ep[v].scope = c THEN NoScope ELSE t.ep[v].scope
  BY <1>3, DeletedIs
<1> HIDE DEF u
<1>5. /\ \A d \in Scopes \ {c} : u.cd[d] = s.cd[d]
      /\ \A v \in Items : u.ep[v].scope = IF s.ep[v].scope = c THEN NoScope ELSE s.ep[v].scope
      /\ \A v \in Items : s.ep[v].scope # c => u.ep[v].status = s.ep[v].status /\ u.ep[v].at = s.ep[v].at
  BY <1>1, <1>3, <1>4 DEF Shifted
<1>6. \A v \in Items : u.ep[v].status \in {s.ep[v].status, "exhausted"}
  BY <1>1, <1>3, <1>4 DEF Shifted
<1>7. NoScope \notin Scopes
  BY Constants
<1>8. Aligned(u)
  BY <1>5, <1>7 DEF Tidy, Aligned
<1>9. Existing(u)
  BY <1>5, <1>7, ScopeType DEF Tidy, Existing
<1>10. ASSUME NEW v \in Items PROVE Steady(s, u, v) /\ Spared(wk, s, u, v)
  <2>1. Steady(s, u, v)
    BY <1>6 DEF Steady, Open
  <2>2. Spared(wk, s, u, v)
    BY <1>5, <1>7, ScopeType DEF Tidy, Spared, Leased, Probe
  <2> QED BY <2>1, <2>2
<1> QED BY <1>2, <1>4, <1>8, <1>9, <1>10 DEF Calm, Tidy, Kept

LEMMA ReplacedCalm ==
    ASSUME NEW wk, NEW s, Tidy(s), Clock, NEW c \in Scopes, NEW w
    PROVE  LET t == DeletedIfIdle(Promoted(wk, Dropped(s, c, w), c, w), c)
           IN  Calm(wk, s, t, w) /\ Local(s, t, c)
<1> DEFINE d == Dropped(s, c, w)
           p == Promoted(wk, d, c, w)
           t == DeletedIfIdle(p, c)
<1>1. Calm(wk, s, d, w) /\ Local(s, d, c)
  BY DroppedCalm, UnownedLocal, LocalReflexive DEF Dropped, Tidy
<1> HIDE DEF d
<1>2. Calm(wk, d, p, w) /\ Local(d, p, c)
  BY <1>1, PromotedCalm DEF Calm
<1> HIDE DEF p
<1>3. Calm(wk, p, t, w) /\ Local(p, t, c)
  BY <1>2, DeletedIfIdleCalm, DeletedIfIdleLocal DEF Calm, Tidy
<1> HIDE DEF t
<1>4. Calm(wk, s, t, w)
  BY <1>1, <1>2, <1>3, CalmTransitive
<1>5. Local(s, t, c)
  BY <1>1, <1>2, <1>3, LocalTransitive
<1> QED BY <1>4, <1>5 DEF t, p, d

LEMMA SettledCalm ==
    ASSUME NEW wk, NEW s, Tidy(s), Clock, NEW w \in Items, NEW outcome
    PROVE  Calm(wk, s, Settled(wk, s, w, outcome), w)
<1> DEFINE c == s.ep[w].scope
<1>1. CASE c = NoScope
  BY <1>1, CalmReflexive DEF Settled
<1>2. CASE c # NoScope
  <2>1. c \in Scopes
    BY <1>2, ScopeType DEF Tidy
  <2>2. Settled(wk, s, w, outcome) =
          IF outcome = "recovered"
          THEN IF Probe(s, c) = w THEN Released(s, c) ELSE DeletedIfIdle(s, c)
          ELSE DeletedIfIdle(Promoted(wk, Dropped(s, c, w), c, w), c)
    BY <1>2 DEF Settled
  <2> HIDE DEF c
  <2> QED BY <2>1, <2>2, ReleasedCalm, ReplacedCalm, DeletedIfIdleCalm
<1> QED BY <1>1, <1>2

LEMMA EndedCalm ==
    ASSUME NEW wk, NEW s, Tidy(s), NEW w \in Items, NEW status \in {"exhausted", "closed"}
    PROVE  Calm(wk, s, Ended(s, w, status), w) /\ ~Open(Ended(s, w, status).ep[w])
<1> DEFINE e == Moved(s.ep[w], status, Null, s.ep[w].gen + 1)
           t == [s EXCEPT !.ep[w] = e]
<1>1. s.ep[w] \in Episodes /\ Sound(s)
  BY DEF Tidy, Sound, Databases
<1>2. e \in Episodes /\ e.status = status /\ e.at = Null /\ e.scope = s.ep[w].scope
  <2>1. Null \in Stamps /\ status \in Statuses /\ s.ep[w].gen + 1 \in Nat
    BY <1>1 DEF Stamps, Statuses, Episodes
  <2> QED BY <1>1, <2>1, EpisodeMoved
<1>3. Ended(s, w, status) = IF Open(s.ep[w]) THEN t ELSE s
  BY DEF Ended, Moved
<1> HIDE DEF e
<1>4. Dated(e) /\ \A c \in Scopes : s.cd[c].probe = w => e.scope = c
  BY <1>1, <1>2, OwnScope DEF Dated
<1>5. /\ Sound(t) /\ t.cd = s.cd
      /\ \A v \in Items : t.ep[v] = IF v = w THEN e ELSE s.ep[v]
  BY <1>1, <1>2, <1>4, EpisodeSound
<1> HIDE DEF t
<1>6. Aligned(t)
  BY <1>2, <1>5 DEF Tidy, Aligned
<1>7. Existing(t)
  BY <1>2, <1>5 DEF Tidy, Existing
<1>8. ASSUME NEW v \in Items PROVE Steady(s, t, v) /\ Spared(wk, s, t, v)
  BY <1>2, <1>5 DEF Steady, Open, Spared, Leased, Probe
<1>9. Calm(wk, s, t, w)
  BY <1>5, <1>6, <1>7, <1>8 DEF Calm, Tidy, Kept
<1>10. ~Open(t.ep[w])
  BY <1>2, <1>5 DEF Open
<1> QED BY <1>3, <1>9, <1>10, CalmReflexive

\* An episode that is closed stays closed while its cooldown is settled.
LEMMA ClosedCalm ==
    ASSUME NEW wk, NEW s, Tidy(s), Clock, NEW w \in Items, NEW outcome
    PROVE  Calm(wk, s, Closed(wk, s, w, outcome), w) /\ ~Open(Closed(wk, s, w, outcome).ep[w])
<1> DEFINE t == Ended(s, w, "closed")
           u == Settled(wk, t, w, outcome)
<1>1. Calm(wk, s, t, w) /\ ~Open(t.ep[w])
  BY EndedCalm
<1> HIDE DEF t
<1>2. Calm(wk, t, u, w)
  BY <1>1, SettledCalm DEF Calm
<1> HIDE DEF u
<1>3. ~Open(u.ep[w])
  BY <1>1, <1>2 DEF Calm, Steady, Open
<1>4. Calm(wk, s, u, w)
  BY <1>1, <1>2, CalmTransitive
<1> QED BY <1>3, <1>4 DEF Closed, u, t

-----------------------------------------------------------------------------
(* A failure moves the deadline of its scope. *)

\* What is shown in every scope but c, and by w, respects the deadlines.
AlignedBut(s, c, w) ==
    /\ \A v \in Items \ Gated, d \in Scopes \ {c} :
          s.ep[v].status = "scheduled" /\ s.ep[v].scope = d /\ s.cd[d].at > now
             => s.ep[v].at >= s.cd[d].at
    /\ s.ep[w].status = "scheduled" /\ s.ep[w].scope = c => s.ep[w].at >= s.cd[c].at

\* The deadline of c is shared already; the episodes follow it.
LEMMA RealignedFair ==
    ASSUME NEW wk, NEW s, Sound(s), Existing(s), Clock, NEW c \in Scopes, NEW shared \in Times,
           NEW w \in Items, s.cd[c].at = shared, AlignedBut(s, c, w)
    PROVE  LET t == Realigned(s, c, shared, w)
           IN  Tidy(t) /\ Kept(wk, s, t, w)
<1> DEFINE probe == Probe(s, c)
           W     == WaitingIn(s, c) \ {w, probe}
           f     == [v \in W |-> Latest(s.ep[v].at, shared)]
           g     == [v \in {probe} |-> shared]
           s1    == Rescheduled(s, W, f)
           late  == probe \in WaitingIn(s, c) \ {w}
           s2    == Rescheduled(s1, {probe}, g)
           long  == TooLong(s.ep[probe].started, Latest(now, shared))
           Good(t) ==
              /\ Sound(t)
              /\ \A d \in Scopes \ {c} : t.cd[d] = s.cd[d]
              /\ t.cd[c].at = shared /\ t.cd[c].exists = s.cd[c].exists
              /\ Probe(t, c) = probe \/ (Probe(t, c) = NoItem /\ ~Open(t.ep[probe]))
              /\ \A v \in Items : t.ep[v].scope = s.ep[v].scope
              /\ \A v \in Items : t.ep[v] = s.ep[v]
                    \/ (s.ep[v].scope = c /\ s.ep[v].status = "scheduled"
                          /\ t.ep[v].status \in {"scheduled", "exhausted"})
              /\ \A v \in Items : t.ep[v].scope = c /\ t.ep[v].status = "scheduled"
                    => t.ep[v].at >= shared
<1>1. /\ W \in SUBSET Items
      /\ \A v \in W : f[v] \in Times /\ f[v] >= shared
      /\ \A v \in W : s.ep[v].status = "scheduled" /\ s.ep[v].scope = c
      /\ \A v \in Items \ W : s.ep[v].status = "scheduled" /\ s.ep[v].scope = c => v \in {w, probe}
  <2>1. /\ W \in SUBSET Items
        /\ \A v \in W : s.ep[v].status = "scheduled" /\ s.ep[v].scope = c
        /\ \A v \in Items \ W : s.ep[v].status = "scheduled" /\ s.ep[v].scope = c => v \in {w, probe}
    BY DEF WaitingIn, OpenIn, Open
  <2>2. \A v \in Items : s.ep[v].at \in Stamps
    BY DEF Sound, Databases, Episodes
  <2>3. shared \in Stamps
    BY DEF Stamps
  <2>4. \A v \in Items : Latest(s.ep[v].at, shared) \in Times /\ Latest(s.ep[v].at, shared) >= shared
    BY <2>2, <2>3, LatestTime
  <2>5. \A v \in W : f[v] = Latest(s.ep[v].at, shared)
    OBVIOUS
  <2> HIDE DEF W, f
  <2> QED BY <2>1, <2>4, <2>5
<1>2. late => /\ probe \in Items /\ probe # w
              /\ s.ep[probe].status = "scheduled" /\ s.ep[probe].scope = c
  BY DEF WaitingIn, OpenIn
<1>3. ~late => probe = w \/ probe \notin Items
                \/ ~(s.ep[probe].status = "scheduled" /\ s.ep[probe].scope = c)
  BY DEF WaitingIn, OpenIn, Open
<1>4. g[probe] = shared /\ probe \notin W
  OBVIOUS
<1>5. Realigned(s, c, shared, w) = IF ~late THEN s1
        ELSE IF long THEN Unowned(s2, c)
        ELSE IF s.ep[probe].at # shared THEN s2
        ELSE s1
  BY DEF Realigned
<1>6. Probe(s, c) = probe
  OBVIOUS
<1> HIDE DEF late, f, W, probe
<1>7. Sound(s1) /\ Shifted(s, s1, W, f)
  BY <1>1, RescheduledIs
<1>8. late => Sound(s2) /\ Shifted(s1, s2, {probe}, g)
  <2> SUFFICES ASSUME late PROVE Sound(s2) /\ Shifted(s1, s2, {probe}, g)
    OBVIOUS
  <2>1. {probe} \in SUBSET Items /\ \A v \in {probe} : g[v] \in Times
    BY <1>2
  <2> HIDE DEF s1, g
  <2> QED BY <1>7, <2>1, RescheduledIs
<1> HIDE DEF s1, s2, g
<1>9. s.ep[w].status = "scheduled" /\ s.ep[w].scope = c => s.ep[w].at >= shared
  BY DEF AlignedBut
<1>10. ASSUME ~late \/ s.ep[probe].at = shared PROVE Good(s1)
  <2>1. ASSUME NEW v \in Items, s1.ep[v].scope = c, s1.ep[v].status = "scheduled"
        PROVE  s1.ep[v].at >= shared
    <3>1. CASE v \in W
      BY <1>1, <1>7, <2>1, <3>1 DEF Shifted
    <3>2. CASE v \notin W
      <4>1. s1.ep[v] = s.ep[v]
        BY <1>7, <3>2 DEF Shifted
      <4>2. v \in {w, probe}
        BY <1>1, <2>1, <3>2, <4>1
      <4>3. v = probe => v = w \/ s.ep[v].at = shared
        BY <1>3, <1>10, <2>1, <4>1
      <4>4. shared >= shared
        BY Constants DEF Times
      <4> QED BY <1>9, <2>1, <4>1, <4>2, <4>3, <4>4
    <3> QED BY <3>1, <3>2
  <2>2. s1.cd = s.cd /\ Probe(s1, c) = probe
    BY <1>6, <1>7 DEF Shifted, Probe
  <2>3. \A v \in Items : s1.ep[v].scope = s.ep[v].scope
    BY <1>7 DEF Shifted
  <2>4. \A v \in Items : s1.ep[v] = s.ep[v]
                    \/ (s.ep[v].scope = c /\ s.ep[v].status = "scheduled"
                          /\ s1.ep[v].status \in {"scheduled", "exhausted"})
    BY <1>1, <1>7 DEF Shifted
  <2> QED BY <1>7, <2>1, <2>2, <2>3, <2>4
<1>11. ASSUME late PROVE Good(s2) /\ (long => ~Open(s2.ep[probe]))
  <2>0. s1.ep[probe] = s.ep[probe] /\ probe \in Items
    BY <1>2, <1>4, <1>7, <1>11 DEF Shifted
  <2>1. ASSUME NEW v \in Items, s2.ep[v].scope = c, s2.ep[v].status = "scheduled"
        PROVE  s2.ep[v].at >= shared
    <3>1. CASE v = probe
      <4>1. s2.ep[v].at = shared
        BY <1>4, <1>8, <1>11, <2>1, <3>1 DEF Shifted
      <4> QED BY <4>1, Constants DEF Times
    <3>2. CASE v # probe
      <4>0. s2.ep[v] = s1.ep[v]
        BY <1>8, <1>11, <3>2 DEF Shifted
      <4>1. CASE v \in W
        BY <1>1, <1>7, <2>1, <4>0, <4>1 DEF Shifted
      <4>2. CASE v \notin W
        <5>1. s1.ep[v] = s.ep[v]
          BY <1>7, <4>2 DEF Shifted
        <5> QED BY <1>1, <1>9, <2>1, <3>2, <4>0, <4>2, <5>1
      <4> QED BY <4>1, <4>2
    <3> QED BY <3>1, <3>2
  <2>2. s2.cd = s.cd /\ Probe(s2, c) = probe
    BY <1>6, <1>7, <1>8, <1>11 DEF Shifted, Probe
  <2>3. \A v \in Items : s2.ep[v].scope = s.ep[v].scope
    BY <1>7, <1>8, <1>11 DEF Shifted
  <2>4. \A v \in Items : s2.ep[v] = s.ep[v]
                    \/ (s.ep[v].scope = c /\ s.ep[v].status = "scheduled"
                          /\ s2.ep[v].status \in {"scheduled", "exhausted"})
    BY <1>1, <1>2, <1>7, <1>8, <1>11, <2>0 DEF Shifted
  <2>5. long => s2.ep[probe].status = "exhausted"
    BY <1>4, <1>8, <1>11, <2>0 DEF Shifted
  <2>6. Sound(s2)
    BY <1>8, <1>11
  <2> QED BY <2>1, <2>2, <2>3, <2>4, <2>5, <2>6 DEF Open
<1>12. ASSUME late, long PROVE Good(Unowned(s2, c))
  <2> DEFINE t == Unowned(s2, c)
  <2>1. Good(s2) /\ ~Open(s2.ep[probe])
    BY <1>11, <1>12
  <2>2. /\ Sound(t) /\ t.ep = s2.ep
        /\ \A d \in Scopes \ {c} : t.cd[d] = s2.cd[d]
        /\ t.cd[c].exists = s2.cd[c].exists /\ t.cd[c].at = s2.cd[c].at
        /\ t.cd[c].probe = NoItem
    BY <2>1, UnownedIs
  <2> HIDE DEF t, long
  <2>3. Good(t)
    BY <2>1, <2>2 DEF Probe
  <2> QED BY <2>3 DEF t
<1> DEFINE t == Realigned(s, c, shared, w)
<1>13. Good(t)
  BY <1>5, <1>10, <1>11, <1>12
<1> HIDE DEF t, long
<1>14. Aligned(t)
  BY <1>13 DEF Aligned, AlignedBut
<1>15. Existing(t)
  BY <1>13, ScopeType DEF Existing
<1>16. ASSUME NEW v \in Items PROVE Steady(s, t, v) /\ Spared(wk, s, t, v)
  <2>1. Steady(s, t, v)
    BY <1>13 DEF Steady, Open
  <2>2. Spared(wk, s, t, v)
    <3> SUFFICES ASSUME Open(t.ep[v]), Leased(s, v) PROVE Leased(t, v)
      BY DEF Spared
    <3>1. CASE s.ep[v].scope = NoScope
      BY <1>13, <3>1 DEF Leased
    <3>2. CASE s.ep[v].scope \in Scopes \ {c}
      BY <1>13, <3>2, Constants DEF Leased, Probe
    <3>3. CASE s.ep[v].scope = c
      <4>1. v = probe
        BY <1>6, <3>3, Constants DEF Leased
      <4> QED BY <1>13, <3>3, <4>1 DEF Leased
    <3> QED BY <3>1, <3>2, <3>3, ScopeType
  <2> QED BY <2>1, <2>2
<1>17. Tidy(t) /\ Kept(wk, s, t, w)
  BY <1>13, <1>14, <1>15, <1>16 DEF Tidy, Kept
<1> QED BY <1>17 DEF t

\* A failed item that joins c leaves the others what they have.
LEMMA JoiningCalm ==
    ASSUME NEW wk, NEW s, Tidy(s), Clock, NEW w \in Items, NEW c \in Scopes
    PROVE  Calm(wk, s, Joining(wk, s, w, c), w) /\ Joining(wk, s, w, c).cd[c].exists
<1> DEFINE p  == s.ep[w].scope
           q  == [exists |-> TRUE, at |-> Null, probe |-> NoItem]
           s0 == [s EXCEPT !.cd[c] = q]
           s1 == IF s.cd[c].exists THEN s ELSE s0
           s2 == IF p \in {NoScope, c} THEN s1
                 ELSE DeletedIfIdle(Promoted(wk, Dropped(s1, p, w), p, w), p)
           t  == Cleared(wk, s2, c)
<1>1. Joining(wk, s, w, c) = t
  BY DEF Joining
<1>2. Sound(s)
  BY DEF Tidy
<1>3. q \in Cooldowns /\ Inside(s, c, q) /\ q.exists /\ q.at = Null /\ q.probe = NoItem
  BY DEF Cooldowns, Stamps, Inside
<1> HIDE DEF q
<1>4. Sound(s0)
  BY <1>2, <1>3, CooldownWritten DEF Safe
<1>5. s0.ep = s.ep /\ \A d \in Scopes : s0.cd[d] = IF d = c THEN q ELSE s.cd[d]
  BY <1>2, CooldownIs
<1> HIDE DEF s0
<1>6. ASSUME ~s.cd[c].exists PROVE Calm(wk, s, s0, w)
  <2>1. Probe(s, c) = NoItem
    <3>1. Probe(s, c) \in Items \union {NoItem}
      BY <1>2 DEF Sound, Databases, Cooldowns, Probe
    <3>2. ASSUME Probe(s, c) \in Items PROVE FALSE
      <4>1. s.ep[Probe(s, c)].scope = c
        BY <1>2, <3>2, OwnScope DEF Probe
      <4> QED BY <1>6, <3>2, <4>1, Constants DEF Tidy, Existing
    <3> QED BY <3>1, <3>2
  <2>2. ~(s0.cd[c].at > now)
    BY <1>3, <1>5 DEF Clock, Times, Null
  <2>3. s0.cd[c].exists
    BY <1>3, <1>5
  <2> QED BY <1>4, <1>5, <2>1, <2>2, <2>3, CooldownCalm
<1>7. Calm(wk, s, s1, w) /\ s1.cd[c].exists
  BY <1>3, <1>5, <1>6, CalmReflexive
<1> HIDE DEF s1
<1>8. Calm(wk, s, s2, w) /\ s2.cd[c].exists
  <2>1. CASE p \in {NoScope, c}
    BY <1>7, <2>1
  <2>2. CASE p \notin {NoScope, c}
    <3> DEFINE u == DeletedIfIdle(Promoted(wk, Dropped(s1, p, w), p, w), p)
    <3>1. p \in Scopes /\ p # c
      BY <1>2, <2>2, ScopeType
    <3> HIDE DEF p
    <3>2. Calm(wk, s1, u, w) /\ Local(s1, u, p)
      BY <1>7, <3>1, ReplacedCalm DEF Calm
    <3> HIDE DEF u
    <3>3. u.cd[c].exists
      BY <1>7, <3>1, <3>2 DEF Local
    <3>4. Calm(wk, s, u, w)
      BY <1>7, <3>2, CalmTransitive
    <3>5. s2 = u
      BY <2>2 DEF u, p
    <3> QED BY <3>3, <3>4, <3>5
  <2> QED BY <2>1, <2>2
<1> HIDE DEF s2
<1>9. Calm(wk, s2, t, w)
  BY <1>8, ClearedCalm DEF Calm
<1>10. t.cd[c].exists
  BY <1>8, UnownedIs DEF Cleared, Calm, Tidy
<1> QED BY <1>1, <1>8, <1>9, <1>10, CalmTransitive

\* The others keep what they have.
Fair(wk, s, t, w) == Tidy(t) /\ Kept(wk, s, t, w)

LEMMA FairThenCalm ==
    ASSUME NEW wk, NEW s, NEW t, NEW u, NEW w, Fair(wk, s, t, w), Calm(wk, t, u, w)
    PROVE  Fair(wk, s, u, w)
BY KeptTransitive DEF Fair, Calm

LEMMA CalmThenFair ==
    ASSUME NEW wk, NEW s, NEW t, NEW u, NEW w, Calm(wk, s, t, w), Fair(wk, t, u, w)
    PROVE  Fair(wk, s, u, w)
BY KeptTransitive DEF Fair, Calm

LEMMA EpisodeIs ==
    ASSUME NEW s, Sound(s), Clock, NEW w \in Items, NEW c \in Scopes, Free(s, w, c),
           NEW status \in Statuses, NEW at \in Stamps, NEW gen \in Nat,
           status = "scheduled" <=> at # Null
    PROVE  LET t == Episode(s, w, status, c, at, gen)
           IN  /\ Sound(t) /\ t.cd = s.cd /\ t.jobs = s.jobs
               /\ t.ep[w].status = status /\ t.ep[w].scope = c /\ t.ep[w].at = at
               /\ \A v \in Items \ {w} : t.ep[v] = s.ep[v]
<1> DEFINE e == [status |-> status, scope |-> c, at |-> at, gen |-> gen,
                 started |-> Started(s, w)]
           t == [s EXCEPT !.ep[w] = e]
<1>1. Started(s, w) \in Times
  <2>1. s.ep[w].started \in Times
    BY DEF Sound, Databases, Episodes
  <2> QED BY <2>1 DEF Started, Clock
<1>2. e \in Episodes /\ e.status = status /\ e.scope = c /\ e.at = at
  BY <1>1 DEF Episodes, Statuses
<1>3. Episode(s, w, status, c, at, gen) = t
  BY DEF Episode
<1> HIDE DEF e
<1>4. Dated(e) /\ \A d \in Scopes : s.cd[d].probe = w => e.scope = d
  BY <1>2 DEF Dated, Free
<1>5. /\ Sound(t) /\ t.cd = s.cd /\ t.jobs = s.jobs
      /\ \A v \in Items : t.ep[v] = IF v = w THEN e ELSE s.ep[v]
  BY <1>2, <1>4, EpisodeSound
<1> HIDE DEF t
<1> QED BY <1>2, <1>3, <1>5

LEMMA GaveUpFair ==
    ASSUME NEW wk, NEW s, Tidy(s), Clock, NEW w \in Items, NEW c \in Scopes, Free(s, w, c),
           s.cd[c].exists, NEW gen \in Nat
    PROVE  Fair(wk, s, GaveUp(wk, s, w, c, gen), w)
<1> DEFINE t == Episode(s, w, "exhausted", c, Null, gen)
           u == DeletedIfIdle(Promoted(wk, Dropped(t, c, w), c, w), c)
<1>1. Null \in Stamps /\ "exhausted" \in Statuses
  BY DEF Stamps, Statuses
<1>2. /\ Sound(t) /\ t.cd = s.cd
      /\ t.ep[w].status = "exhausted" /\ t.ep[w].scope = c
      /\ \A v \in Items \ {w} : t.ep[v] = s.ep[v]
  BY <1>1, EpisodeIs DEF Tidy
<1>3. GaveUp(wk, s, w, c, gen) = u
  BY DEF GaveUp
<1> HIDE DEF t
<1>4. Aligned(t)
  BY <1>2 DEF Tidy, Aligned
<1>5. Existing(t)
  BY <1>2 DEF Tidy, Existing
<1>6. Kept(wk, s, t, w)
  BY <1>2 DEF Kept, Steady, Spared, Leased, Probe
<1>7. Fair(wk, s, t, w) /\ Tidy(t)
  BY <1>2, <1>4, <1>5, <1>6 DEF Fair, Tidy
<1>8. Calm(wk, t, u, w)
  BY <1>7, ReplacedCalm
<1> HIDE DEF u
<1> QED BY <1>3, <1>7, <1>8, FairThenCalm

\* The failure is written, with the deadline of the scope and its lease. The
\* deadline that is written is the one that the scope has already, or the
\* episodes follow it.
LEMMA PlannedFair ==
    ASSUME NEW wk, NEW s, Tidy(s), Clock, NEW w \in Items, NEW c \in Scopes, Free(s, w, c),
           s.cd[c].exists, NEW plan \in Times, NEW floor \in Stamps
    PROVE  Fair(wk, s, Planned(wk, s, w, c, plan, floor), w)
<1> DEFINE cool     == s.cd[c]
           follows  == cool.probe \notin {NoItem, w}
           standing == IF cool.at > now THEN cool.at ELSE Null
           shared   == IF follows
                       THEN Latest(IF cool.at = Null THEN now ELSE cool.at, floor)
                       ELSE Latest(plan, floor)
           deadline == Latest(plan, shared)
           gen      == Generation(s, w)
           s1       == Episode(s, w, "scheduled", c, deadline, gen)
           probe    == IF follows THEN cool.probe ELSE w
           q        == [cool EXCEPT !.at = shared, !.probe = probe]
           s0       == [s1 EXCEPT !.cd[c] = q]
           s2       == [s0 EXCEPT !.jobs = @ \union {Wake(s1, w, gen, deadline)}]
           s3       == Realigned(s2, c, shared, w)
<1>1. s.ep \in [Items -> Episodes] /\ s.cd \in [Scopes -> Cooldowns] /\ Sound(s)
  BY DEF Tidy, Sound, Databases
<1>2. cool \in Cooldowns /\ cool.at \in Stamps /\ cool.probe \in Items \union {NoItem}
  BY <1>1 DEF Cooldowns
<1>3. gen \in Nat
  BY <1>1 DEF Generation, Episodes
<1>4. shared \in Times /\ shared \in Stamps
  <2>1. plan \in Stamps /\ now \in Times /\ (cool.at = Null \/ cool.at \in Times)
    BY <1>2 DEF Stamps, Clock
  <2>2. (IF cool.at = Null THEN now ELSE cool.at) \in Times
    BY <2>1, <1>2 DEF Stamps, Clock
  <2>3. (IF cool.at = Null THEN now ELSE cool.at) \in Stamps
    BY <2>2 DEF Stamps
  <2> HIDE DEF cool, follows
  <2>4. Latest(IF cool.at = Null THEN now ELSE cool.at, floor) \in Times
    BY <2>2, <2>3, LatestTime
  <2>5. Latest(plan, floor) \in Times
    BY LatestTime DEF Stamps
  <2> QED BY <2>4, <2>5 DEF Stamps
<1>5. deadline \in Times /\ deadline \in Stamps /\ deadline # Null /\ deadline >= shared
  <2> HIDE DEF shared
  <2>1. plan \in Stamps
    BY DEF Stamps
  <2> QED BY <2>1, <1>4, LatestTime DEF Stamps
<1>6. Planned(wk, s, w, c, plan, floor) =
        IF TooLong(Started(s, w), now) \/ TooLong(Started(s, w), plan) THEN GaveUp(wk, s, w, c, 0)
        ELSE IF TooLong(Started(s, w), deadline) THEN GaveUp(wk, s, w, c, gen)
        ELSE IF standing = shared /\ cool.probe # w THEN s2
        ELSE Manned(wk, s3, c)
  <2>1. s1.cd = s.cd
    BY DEF Episode
  <2>2. s2 = [s1 EXCEPT !.cd[c].at = shared, !.cd[c].probe = probe,
                        !.jobs = @ \union {Wake(s1, w, gen, deadline)}]
    <3> HIDE DEF shared, probe, gen, deadline, s1
    <3> QED BY <2>1
  <2> HIDE DEF s2
  <2> QED BY <2>2 DEF Planned
<1>7. Fair(wk, s, GaveUp(wk, s, w, c, 0), w) /\ Fair(wk, s, GaveUp(wk, s, w, c, gen), w)
  BY <1>3, GaveUpFair
<1>8. /\ probe \in Items /\ q \in Cooldowns
      /\ q.probe = probe /\ q.at = shared /\ q.exists
  <2>1. probe \in Items /\ cool.exists
    BY <1>2
  <2> HIDE DEF probe, shared, cool
  <2> QED BY <2>1, <1>2, <1>4 DEF Cooldowns
<1>9. standing = shared => s.cd[c].at = shared
  <2> HIDE DEF shared
  <2> QED BY <1>4 DEF Times, Null
<1>10. Probe(s, c) = probe \/ Probe(s, c) \in {NoItem, w}
  BY DEF Probe
<1> HIDE DEF deadline, gen, s3
<1>11. /\ Sound(s1) /\ s1.cd = s.cd
       /\ s1.ep[w].status = "scheduled" /\ s1.ep[w].scope = c /\ s1.ep[w].at = deadline
       /\ \A v \in Items \ {w} : s1.ep[v] = s.ep[v]
  <2>1. "scheduled" \in Statuses
    BY DEF Statuses
  <2> HIDE DEF s1
  <2>2. s1 = Episode(s, w, "scheduled", c, deadline, gen)
    BY DEF s1
  <2> QED BY <1>1, <1>3, <1>5, <2>1, <2>2, EpisodeIs
<1> HIDE DEF s1
<1>12. Inside(s1, c, q)
  <2>1. CASE follows
    <3>1. s1.cd[c].probe = probe /\ probe # NoItem
      BY <1>11, <2>1
    <3> QED BY <1>11, <3>1, <1>8, OwnScope DEF Inside
  <2>2. CASE ~follows
    <3>1. probe = w
      BY <2>2
    <3> QED BY <1>11, <3>1, <1>8 DEF Inside
  <2> QED BY <2>1, <2>2
<1> HIDE DEF q, probe, follows, shared, standing, cool
<1>13. /\ Sound(s0) /\ s0.ep = s1.ep
       /\ \A d \in Scopes : s0.cd[d] = IF d = c THEN q ELSE s.cd[d]
  <2>1. Sound(s0)
    BY <1>8, <1>11, <1>12, CooldownWritten DEF Safe
  <2>2. s0.ep = s1.ep /\ \A d \in Scopes : s0.cd[d] = IF d = c THEN q ELSE s1.cd[d]
    BY <1>11, CooldownIs
  <2> HIDE DEF s0
  <2> QED BY <1>11, <2>1, <2>2
<1> HIDE DEF s0
<1>14. Sound(s2) /\ s2.ep = s1.ep /\ s2.cd = s0.cd
  <2>1. Sound(s2)
    BY <1>3, <1>5, <1>11, <1>13, WakeAdded DEF Safe
  <2>2. s2.ep = s0.ep /\ s2.cd = s0.cd
    BY <1>13 DEF Sound, Databases
  <2> QED BY <1>13, <2>1, <2>2
<1> HIDE DEF s2
<1>15. /\ s2.cd[c].at = shared /\ s2.cd[c].exists /\ Probe(s2, c) = probe
       /\ \A d \in Scopes \ {c} : s2.cd[d] = s.cd[d]
       /\ \A v \in Items \ {w} : s2.ep[v] = s.ep[v]
       /\ s2.ep[w].status = "scheduled" /\ s2.ep[w].scope = c /\ s2.ep[w].at = deadline
  BY <1>8, <1>11, <1>13, <1>14 DEF Probe
<1>16. Existing(s2)
  BY <1>15, ScopeType, <1>1 DEF Tidy, Existing
<1>17. Kept(wk, s, s2, w)
  <2> SUFFICES ASSUME NEW v \in Items \ {w}, Leased(s, v) PROVE Leased(s2, v)
    BY <1>15 DEF Kept, Steady, Spared
  <2>1. v # NoItem
    BY Constants
  <2>2. CASE s.ep[v].scope = c
    BY <1>10, <1>15, <2>1, <2>2, Constants DEF Leased
  <2>3. CASE s.ep[v].scope # c
    BY <1>1, <1>15, <2>3, ScopeType DEF Leased, Probe
  <2> QED BY <2>2, <2>3
<1>18. AlignedBut(s2, c, w)
  BY <1>5, <1>15 DEF AlignedBut, Tidy, Aligned
<1>19. ASSUME s.cd[c].at = shared PROVE Fair(wk, s, s2, w)
  <2>1. Aligned(s2)
    BY <1>5, <1>15, <1>19 DEF Tidy, Aligned
  <2> QED BY <1>14, <1>16, <1>17, <2>1 DEF Fair, Tidy
<1>20. Fair(wk, s, s3, w)
  <2>1. Tidy(s3) /\ Kept(wk, s2, s3, w)
    BY <1>4, <1>14, <1>15, <1>16, <1>18, RealignedFair DEF s3
  <2> QED BY <1>17, <2>1, KeptTransitive DEF Fair
<1>21. Fair(wk, s, Manned(wk, s3, c), w)
  <2>1. Calm(wk, s3, Manned(wk, s3, c), w)
    BY <1>20, PromotedCalm, CalmReflexive DEF Fair, Manned
  <2> QED BY <1>20, <2>1, FairThenCalm
<1> QED BY <1>6, <1>7, <1>9, <1>19, <1>21

LEMMA CoordinatedFair ==
    ASSUME NEW wk, NEW s, Tidy(s), Clock, NEW w \in Items, NEW c \in Scopes,
           NEW plan \in Times, NEW floor \in Stamps
    PROVE  Fair(wk, s, Coordinated(wk, s, w, c, plan, floor), w)
<1> DEFINE t == Joining(wk, s, w, c)
<1>1. Calm(wk, s, t, w) /\ t.cd[c].exists /\ Tidy(t)
  BY JoiningCalm DEF Calm
<1>2. Free(t, w, c)
  BY JoiningSafe DEF Tidy, Free
<1> HIDE DEF t
<1>3. Fair(wk, t, Planned(wk, t, w, c, plan, floor), w)
  BY <1>1, <1>2, PlannedFair
<1> QED BY <1>1, <1>3, CalmThenFair DEF Coordinated, t

-----------------------------------------------------------------------------
(* The statements of the other calls. *)

LEMMA JobsCalm ==
    ASSUME NEW wk, NEW s, Tidy(s), NEW t, Sound(t), t.ep = s.ep, t.cd = s.cd, NEW w
    PROVE  Calm(wk, s, t, w)
BY DEF Calm, Tidy, Aligned, Existing, Kept, Steady, Spared, Leased, Probe

\* The episode of w is moved in place and shows no deadline, or w is held by a
\* closed gate.
InPlace(s, w, status, at, gen) == [s EXCEPT !.ep[w] = Moved(s.ep[w], status, at, gen)]

Showable(s, w, status, at) ==
    /\ status = "scheduled" <=> at # Null
    /\ status = "scheduled" => w \in Gated \/
          \A c \in Scopes : s.ep[w].scope = c /\ s.cd[c].at > now => at >= s.cd[c].at

LEMMA InPlaceFair ==
    ASSUME NEW wk, NEW s, Tidy(s), NEW w \in Items, NEW status \in Statuses, NEW at \in Stamps,
           NEW gen \in Nat, Showable(s, w, status, at)
    PROVE  /\ Fair(wk, s, InPlace(s, w, status, at, gen), w)
           /\ InPlace(s, w, status, at, gen).cd = s.cd
           /\ InPlace(s, w, status, at, gen).ep[w].status = status
           /\ InPlace(s, w, status, at, gen).ep[w].scope = s.ep[w].scope
<1> DEFINE e == Moved(s.ep[w], status, at, gen)
           t == InPlace(s, w, status, at, gen)
<1>1. s.ep[w] \in Episodes /\ Sound(s)
  BY DEF Tidy, Sound, Databases
<1>2. e \in Episodes /\ e.status = status /\ e.at = at /\ e.scope = s.ep[w].scope
  BY <1>1, EpisodeMoved
<1> DEFINE u == [s EXCEPT !.ep[w] = e]
<1>3. t = u
  BY DEF InPlace
<1> HIDE DEF e, t
<1>4. Dated(e) /\ \A c \in Scopes : s.cd[c].probe = w => e.scope = c
  BY <1>1, <1>2, OwnScope DEF Dated, Showable
<1>5. /\ Sound(t) /\ t.cd = s.cd
      /\ \A v \in Items : t.ep[v] = IF v = w THEN e ELSE s.ep[v]
  <2>1. /\ Sound(u) /\ u.cd = s.cd
        /\ \A v \in Items : u.ep[v] = IF v = w THEN e ELSE s.ep[v]
    BY <1>1, <1>2, <1>4, EpisodeSound
  <2> HIDE DEF u
  <2> QED BY ONLY <1>3, <2>1
<1>6. Aligned(t)
  BY <1>2, <1>5 DEF Tidy, Aligned, Showable
<1>7. Existing(t)
  BY <1>2, <1>5 DEF Tidy, Existing
<1>8. Kept(wk, s, t, w)
  BY <1>5 DEF Kept, Steady, Spared, Leased, Probe
<1>9. /\ Fair(wk, s, t, w) /\ t.cd = s.cd
      /\ t.ep[w].status = status /\ t.ep[w].scope = s.ep[w].scope
  BY <1>2, <1>5, <1>6, <1>7, <1>8 DEF Fair, Tidy
<1> QED BY <1>9 DEF t

LEMMA MovedFair ==
    ASSUME NEW wk, NEW s, Tidy(s), NEW w \in Items, NEW status \in Statuses, NEW at \in Stamps,
           NEW gen \in Nat, status = "scheduled" <=> at # Null,
           status = "scheduled" => w \in Gated \/
              \A c \in Scopes : s.ep[w].scope = c /\ s.cd[c].at > now => at >= s.cd[c].at,
           NEW t, t = [s EXCEPT !.ep[w] = Moved(s.ep[w], status, at, gen)]
    PROVE  /\ Fair(wk, s, t, w) /\ t.cd = s.cd
           /\ t.ep[w].status = status /\ t.ep[w].scope = s.ep[w].scope
<1>1. Showable(s, w, status, at)
  BY DEF Showable
<1>2. t = InPlace(s, w, status, at, gen)
  BY DEF InPlace
<1> DEFINE u == InPlace(s, w, status, at, gen)
<1>3. /\ Fair(wk, s, u, w) /\ u.cd = s.cd
      /\ u.ep[w].status = status /\ u.ep[w].scope = s.ep[w].scope
  <2>1. /\ Tidy(s) /\ w \in Items /\ status \in Statuses /\ at \in Stamps /\ gen \in Nat
        /\ Showable(s, w, status, at)
    BY <1>1
  <2> QED BY ONLY <2>1, InPlaceFair
<1>4. t = u
  BY <1>2
<1> HIDE DEF u
<1> QED BY ONLY <1>3, <1>4

LEMMA LeasesTakenCalm ==
    ASSUME NEW wk, NEW s, Tidy(s), NEW w \in Items
    PROVE  Calm(wk, s, [s EXCEPT !.cd = NoLease(s, w)], w)
<1> DEFINE C == NoLease(s, w)
           t == [s EXCEPT !.cd = C]
<1>1. s \in Databases /\ s.cd \in [Scopes -> Cooldowns]
  BY DEF Tidy, Sound, Databases
<1>2. \A d \in Scopes : s.cd[d] \in Cooldowns
  BY <1>1
<1>3. \A d \in Scopes : /\ C[d].exists = s.cd[d].exists /\ C[d].at = s.cd[d].at
                        /\ s.cd[d].probe # w => C[d].probe = s.cd[d].probe
  BY <1>2 DEF NoLease, Cooldowns
<1>4. Sound(t)
  BY LeasesTaken DEF Tidy, Safe
<1> HIDE DEF C
<1>5. t.ep = s.ep /\ t.cd = C
  BY <1>1 DEF Databases
<1> HIDE DEF t
<1>6. Aligned(t)
  BY <1>3, <1>5 DEF Tidy, Aligned
<1>7. Existing(t)
  BY <1>3, <1>5, ScopeType DEF Tidy, Existing
<1>8. ASSUME NEW v \in Items \ {w} PROVE Spared(wk, s, t, v)
  BY <1>3, <1>5, ScopeType DEF Tidy, Spared, Leased, Probe
<1>9. Calm(wk, s, t, w)
  BY <1>4, <1>5, <1>6, <1>7, <1>8 DEF Calm, Tidy, Kept, Steady
<1> QED BY <1>9 DEF t, C

LEMMA ParkedFair ==
    ASSUME NEW wk, NEW s, Tidy(s), Clock, NEW w \in Items, w \in Gated
    PROVE  Fair(wk, s, Parked(wk, s, w), w)
<1> DEFINE e  == s.ep[w]
           at == IF e.at = Null THEN now ELSE e.at
           s0 == [s EXCEPT !.cd = NoLease(s, w)]
           s1 == [s0 EXCEPT !.ep[w] = Moved(s0.ep[w], "scheduled", at, s0.ep[w].gen)]
<1>1. s \in Databases /\ e \in Episodes /\ Sound(s)
  BY DEF Tidy, Sound, Databases
<1>2. Calm(wk, s, s0, w) /\ s0.ep = s.ep
  BY <1>1, LeasesTaken, LeasesTakenCalm
<1>3. Parked(wk, s, w) = IF e.status # "in_attempt" \/ wk[w].run = "active" THEN s
                         ELSE IF e.scope = NoScope THEN s1
                         ELSE Promoted(wk, s1, e.scope, w)
  <2>1. s1 = [s EXCEPT !.ep[w] = [e EXCEPT !.status = "scheduled", !.at = at],
                       !.cd = NoLease(s, w)]
    BY <1>1, <1>2 DEF Databases, Episodes, Moved
  <2> HIDE DEF s1
  <2> QED BY <2>1 DEF Parked, NoLease
<1>4. at \in Times /\ at \in Stamps /\ at # Null /\ s0.ep[w].gen \in Nat /\ "scheduled" \in Statuses
  BY <1>1, <1>2, Constants DEF Clock, Stamps, Times, Null, Episodes, Statuses
<1>5. e.scope \in Scopes \union {NoScope}
  BY <1>1, ScopeType
<1> HIDE DEF s0, at, e
<1>6. Fair(wk, s0, s1, w)
  <2>1. Tidy(s0)
    BY <1>2 DEF Calm
  <2> QED BY <1>4, <2>1, MovedFair
<1> HIDE DEF s1
<1>7. Fair(wk, s, s1, w)
  BY <1>2, <1>6, CalmThenFair
<1>8. e.scope # NoScope => Fair(wk, s, Promoted(wk, s1, e.scope, w), w)
  BY <1>5, <1>7, PromotedCalm, FairThenCalm DEF Fair
<1>9. Fair(wk, s, s, w)
  BY CalmReflexive DEF Calm, Fair
<1> QED BY <1>3, <1>7, <1>8, <1>9

LEMMA ResumedFair ==
    ASSUME NEW wk, NEW s, Tidy(s), Clock, NEW w \in Items, w \in Gated
    PROVE  Fair(wk, s, Resumed(s, w), w)
<1> DEFINE e    == s.ep[w]
           at   == Latest(e.at, now)
           same == e.status = "scheduled" /\ e.at = at
           gen  == IF same THEN e.gen ELSE e.gen + 1
           t    == [s EXCEPT !.ep[w] = Moved(e, "scheduled", at, gen)]
           u    == [t EXCEPT !.jobs = @ \union {Wake(s, w, gen, at)}]
<1>1. s \in Databases /\ e \in Episodes /\ Sound(s)
  BY DEF Tidy, Sound, Databases
<1>2. at \in Times /\ at \in Stamps /\ at # Null /\ gen \in Nat /\ "scheduled" \in Statuses
  <2>1. e.at \in Stamps /\ now \in Stamps /\ now \in Times /\ e.gen \in Nat
    BY <1>1 DEF Episodes, Clock, Stamps
  <2> HIDE DEF e
  <2> QED BY <2>1, LatestTime DEF Stamps, Statuses
<1>3. Resumed(s, w) = u
  <2>1. u = [s EXCEPT !.ep[w] = Moved(e, "scheduled", at, gen), !.jobs = @ \union {Wake(s, w, gen, at)}]
    BY <1>1 DEF Databases
  <2> HIDE DEF u
  <2> QED BY <2>1 DEF Resumed, Moved
<1> HIDE DEF at, gen
<1>4. Fair(wk, s, t, w)
  BY <1>2, MovedFair
<1> HIDE DEF t, e
<1>5. Sound(t) /\ Tidy(t)
  BY <1>4 DEF Fair, Tidy
<1>6. Sound(u)
  BY <1>1, <1>2, <1>5, WakeAdded DEF Safe
<1>7. u.ep = t.ep /\ u.cd = t.cd
  BY <1>5 DEF Sound, Databases
<1> HIDE DEF u
<1>8. Calm(wk, t, u, w)
  BY <1>5, <1>6, <1>7, JobsCalm
<1> QED BY <1>3, <1>4, <1>8, FairThenCalm

LEMMA SupersededFair ==
    ASSUME NEW wk, NEW s, Tidy(s), NEW w \in Items
    PROVE  Fair(wk, s, Superseded(s, w), w)
<1> DEFINE e == s.ep[w]
           t == [s EXCEPT !.ep[w] = Moved(e, "in_attempt", Null, e.gen + 1)]
<1>1. Superseded(s, w) = IF e.status = "scheduled" THEN t ELSE s
  BY DEF Superseded, Moved
<1>2. e.gen + 1 \in Nat /\ "in_attempt" \in Statuses /\ Null \in Stamps
  BY DEF Tidy, Sound, Databases, Episodes, Statuses, Stamps
<1>3. Fair(wk, s, t, w)
  BY <1>2, MovedFair
<1>4. Fair(wk, s, s, w)
  BY CalmReflexive DEF Calm, Fair
<1> HIDE DEF t
<1> QED BY <1>1, <1>3, <1>4

\* The lease of its scope is given to w, unless somebody is using it.
LEMMA LeaseTakenCalm ==
    ASSUME NEW wk, NEW s, Tidy(s), NEW w \in Items, NEW c \in Scopes, s.ep[w].scope = c,
           \/ Probe(s, c) \in {NoItem, w}
           \/ ~(Valid(wk, s, Probe(s, c)) /\ s.ep[Probe(s, c)].status = "in_attempt"),
           NEW t, t = [s EXCEPT !.cd[c].probe = w]
    PROVE  Calm(wk, s, t, w) /\ t.ep = s.ep /\ Leased(t, w)
<1> DEFINE q == [s.cd[c] EXCEPT !.probe = w]
<1>1. Sound(s) /\ s \in Databases /\ s.cd[c] \in Cooldowns
  BY DEF Tidy, Sound, Databases
<1>2. q.exists = s.cd[c].exists /\ q.at = s.cd[c].at /\ q.probe = w
  BY <1>1 DEF Cooldowns
<1> DEFINE u == [s EXCEPT !.cd[c] = q]
<1>3. t = u
  BY <1>1 DEF Databases
<1>4. Sound(t)
  BY <1>1, LeaseTaken DEF Safe
<1> HIDE DEF q
<1>5. t.ep = s.ep /\ \A d \in Scopes : t.cd[d] = IF d = c THEN q ELSE s.cd[d]
  <2>1. u.ep = s.ep /\ \A d \in Scopes : u.cd[d] = IF d = c THEN q ELSE s.cd[d]
    BY <1>1, CooldownIs
  <2> HIDE DEF u
  <2> QED BY ONLY <1>3, <2>1
<1>6. Calm(wk, s, t, w)
  <2>1. \A d \in Scopes \ {c} : t.cd[d] = s.cd[d]
    BY <1>5
  <2>2. t.cd[c].exists = s.cd[c].exists /\ t.cd[c].at = s.cd[c].at
    BY <1>2, <1>5
  <2>3. \/ Probe(t, c) = Probe(s, c)
        \/ Probe(s, c) \in {NoItem, w}
        \/ ~(Valid(wk, s, Probe(s, c)) /\ s.ep[Probe(s, c)].status = "in_attempt")
    OBVIOUS
  <2> QED BY ONLY Tidy(s), w \in Items, <1>4, <1>5, <2>1, <2>2, <2>3, CooldownCalm, c \in Scopes
<1> QED BY <1>2, <1>5, <1>6 DEF Leased, Probe

LEMMA NotedCalm ==
    ASSUME NEW wk, NEW s, Tidy(s), NEW w \in Items
    PROVE  Calm(wk, s, Noted(wk, s, w), w)
<1> DEFINE c == s.ep[w].scope
           t == [s EXCEPT !.cd[c].probe = w]
           used == /\ Probe(s, c) \notin {NoItem, w}
                   /\ Valid(wk, s, Probe(s, c))
                   /\ s.ep[Probe(s, c)].status = "in_attempt"
<1>1. Noted(wk, s, w) = IF c = NoScope \/ used THEN s ELSE t
  BY DEF Noted
<1>2. ASSUME c # NoScope, ~used PROVE Calm(wk, s, t, w)
  <2>1. c \in Scopes
    BY <1>2, ScopeType DEF Tidy
  <2> QED BY <1>2, <2>1, LeaseTakenCalm
<1> HIDE DEF t, used, c
<1> QED BY <1>1, <1>2, CalmReflexive

-----------------------------------------------------------------------------
(* What holds between the calls.                                            *)

\* The row of w and its episode.
Fits(row, s, w) ==
    /\ row.held => w \in Gated /\ row.run # "active" /\ ~row.waiting
    /\ row.waiting => row.run # "active"
    /\ row.over => row.run = "none" /\ ~row.waiting /\ ~Open(s.ep[w])
    /\ row.paused => ~Open(s.ep[w])

\* A wake that began an attempt took the lease, which is kept for the attempt.
Holds(row, s, w) ==
    s.ep[w].status = "in_attempt" =>
        row.held \/ ((row.run = "active" \/ row.waiting) /\ Leased(s, w))

Proper(wk, s, a) ==
    /\ Tidy(s)
    /\ \A w \in Items : Fits(wk[w], s, w)
    /\ \A w \in a : Holds(wk[w], s, w)

LEMMA FairRows ==
    ASSUME NEW wk, NEW wk2, NEW s, NEW t, NEW w, Fair(wk, s, t, w),
           \A v \in Items \ {w} : wk2[v] = wk[v]
    PROVE  Fair(wk2, s, t, w)
BY DEF Fair, Kept, Spared, Trying

LEMMA CalmFair == ASSUME NEW wk, NEW s, NEW t, NEW w, Calm(wk, s, t, w) PROVE Fair(wk, s, t, w)
BY DEF Calm, Fair

\* A call for w has to establish what concerns w only.
LEMMA OwnStep ==
    ASSUME NEW wk, NEW s, NEW a \in SUBSET Items, Proper(wk, s, a),
           NEW w, NEW n, \A v \in Items \ {w} : n[v] = wk[v],
           NEW m, \A v \in Items \ {w} : m[v] = wk[v],
           NEW t, Fair(m, s, t, w), NEW b \in SUBSET Items, b \subseteq a \union {w},
           w \in Items => Fits(n[w], t, w), w \in b => Holds(n[w], t, w)
    PROVE  Proper(n, t, b)
<1>1. Fair(wk, s, t, w)
  BY FairRows
<1>2. ASSUME NEW v \in Items \ {w} PROVE Fits(n[v], t, v) /\ (v \in b => Holds(n[v], t, v))
  <2>1. n[v] = wk[v] /\ Fits(wk[v], s, v) /\ Steady(s, t, v) /\ Spared(wk, s, t, v)
    BY <1>1 DEF Proper, Fair, Kept
  <2>2. Open(t.ep[v]) => Open(s.ep[v]) /\ s.ep[v].status = t.ep[v].status
    BY <2>1 DEF Steady, Open
  <2>3. Fits(n[v], t, v)
    BY <2>1, <2>2 DEF Fits
  <2>4. ASSUME v \in b PROVE Holds(n[v], t, v)
    <3>1. Holds(wk[v], s, v)
      BY <2>4 DEF Proper
    <3> SUFFICES ASSUME t.ep[v].status = "in_attempt", ~wk[v].held
                 PROVE  (wk[v].run = "active" \/ wk[v].waiting) /\ Leased(t, v)
      BY <2>1 DEF Holds
    <3>2. Open(t.ep[v]) /\ s.ep[v].status = "in_attempt" /\ Open(s.ep[v])
      BY <2>2 DEF Open
    <3>3. (wk[v].run = "active" \/ wk[v].waiting) /\ Leased(s, v)
      BY <3>1, <3>2 DEF Holds
    <3>4. ~wk[v].paused /\ ~wk[v].over
      BY <2>1, <3>2 DEF Fits
    <3> QED BY <2>1, <3>2, <3>3, <3>4 DEF Spared, Trying
  <2> QED BY <2>3, <2>4
<1>3. Tidy(t)
  BY <1>1 DEF Fair
<1> QED BY <1>2, <1>3 DEF Proper

-----------------------------------------------------------------------------
(* The delivery of a wake. *)

\* What a claim makes of the episode of w.
Claimed(s, r, w) ==
    IF r.is = "claimed"
    THEN s.ep[w].status = "scheduled" /\ r.db.ep[w].status = "in_attempt" /\ Leased(r.db, w)
    ELSE \/ r.db.ep = s.ep /\ r.db.cd = s.cd
         \/ Steady(s, r.db, w) /\ r.db.ep[w].status # "in_attempt"

LEMMA ClaimFair ==
    ASSUME NEW s, Tidy(s), Clock, NEW j, j.item \in Items
    PROVE  Fair(work, s, Claim(s, j).db, j.item) /\ Claimed(s, Claim(s, j), j.item)
<1> DEFINE w  == j.item
           e  == s.ep[w]
           c  == e.scope
           s1 == IF c = NoScope THEN s ELSE Cleared(work, s, c)
           s2 == IF c = NoScope THEN s ELSE [s1 EXCEPT !.cd[c].probe = w]
           moved(status) == [s2 EXCEPT !.ep[w] = Moved(e, status, Null, e.gen + 1)]
           lost == Settled(work, moved("exhausted"), w, "exhausted")
           due == ~(c # NoScope /\ s1.cd[c].at > now)
           free == ~(c # NoScope /\ Probe(s1, c) \notin {NoItem, w})
           r == IF e.status # "scheduled" \/ e.gen # j.gen \/ e.at # j.at
                THEN [is |-> "stale", db |-> s]
                ELSE IF ~due THEN [is |-> "not_due", db |-> s1]
                ELSE IF ~free THEN [is |-> "deferred", db |-> s1]
                ELSE IF TooLong(e.started, now) THEN [is |-> "exhausted", db |-> lost]
                ELSE [is |-> "claimed", db |-> moved("in_attempt")]
<1>1. Claim(s, j) = r
  BY DEF Claim, Moved
<1>2. c \in Scopes \union {NoScope} /\ Sound(s) /\ s \in Databases /\ e.gen + 1 \in Nat
  BY ScopeType DEF Tidy, Sound, Databases, Episodes
<1>3. Calm(work, s, s1, w) /\ s1.ep[w] = e
  <2>1. CASE c = NoScope
    BY <2>1, CalmReflexive
  <2>2. CASE c # NoScope
    <3>1. c \in Scopes
      BY <1>2, <2>2
    <3> QED BY <2>2, <3>1, <1>2, ClearedCalm, ClearedSafe
  <2> QED BY <2>1, <2>2
<1>4. ASSUME free PROVE Calm(work, s, s2, w) /\ s2.ep[w] = e /\ Leased(s2, w)
  <2>1. CASE c = NoScope
    BY <2>1, CalmReflexive DEF Leased
  <2>2. CASE c # NoScope
    <3> DEFINE u == [s1 EXCEPT !.cd[c].probe = w]
    <3>1. c \in Scopes /\ s1.ep[w].scope = c /\ Tidy(s1) /\ Probe(s1, c) \in {NoItem, w}
      BY <1>2, <1>3, <1>4, <2>2 DEF Calm
    <3>2. s2 = u
      BY <2>2
    <3> HIDE DEF s1, c, s2, e
    <3>3. Calm(work, s1, u, w) /\ u.ep = s1.ep /\ Leased(u, w)
      BY <3>1, LeaseTakenCalm
    <3> HIDE DEF u
    <3>4. Calm(work, s, u, w)
      BY <3>3, <1>3, CalmTransitive
    <3> QED BY <3>2, <3>3, <3>4, <1>3
  <2> QED BY <2>1, <2>2
<1> HIDE DEF s2
<1>5. ASSUME free, NEW status \in {"exhausted", "in_attempt"}
      PROVE  /\ Fair(work, s, moved(status), w) /\ moved(status).ep[w].status = status
             /\ Leased(moved(status), w)
  <2>1. status \in Statuses /\ Null \in Stamps /\ status # "scheduled"
    BY DEF Statuses, Stamps
  <2> DEFINE k == e.gen + 1
             m == InPlace(s2, w, status, Null, k)
  <2>2. moved(status) = m /\ k \in Nat
    BY <1>2, <1>4, <1>5 DEF InPlace
  <2>3. /\ Fair(work, s2, m, w) /\ m.cd = s2.cd
        /\ m.ep[w].status = status /\ m.ep[w].scope = s2.ep[w].scope
    <3>1. Tidy(s2) /\ w \in Items
      BY <1>4, <1>5 DEF Calm
    <3>2. Showable(s2, w, status, Null) /\ k \in Nat
      BY <2>1, <2>2 DEF Showable
    <3> HIDE DEF k, w
    <3> QED BY ONLY <3>1, <3>2, <2>1, InPlaceFair
  <2> HIDE DEF moved, e, m
  <2>4. Fair(work, s, m, w)
    BY <2>3, <1>4, <1>5, CalmThenFair
  <2>5. Leased(m, w)
    BY <2>3, <1>4, <1>5 DEF Leased, Probe
  <2> QED BY <2>2, <2>3, <2>4, <2>5 DEF m
<1> HIDE DEF moved
<1>6. ASSUME free PROVE Fair(work, s, lost, w) /\ ~Open(lost.ep[w])
  <2> DEFINE u == moved("exhausted")
  <2>1. Fair(work, s, u, w) /\ ~Open(u.ep[w])
    BY <1>5, <1>6 DEF Open
  <2>2. lost = Settled(work, u, w, "exhausted")
    OBVIOUS
  <2> HIDE DEF u, lost
  <2>3. Calm(work, u, Settled(work, u, w, "exhausted"), w)
    BY <2>1, SettledCalm DEF Fair
  <2>4. Fair(work, s, lost, w)
    BY <2>1, <2>2, <2>3, FairThenCalm
  <2>5. ~Open(lost.ep[w])
    BY <2>1, <2>2, <2>3 DEF Calm, Steady, Open
  <2> QED BY <2>4, <2>5
<1> HIDE DEF lost, free, due, s1
<1>7. Fair(work, s, s, w) /\ Fair(work, s, s1, w)
  BY <1>3, CalmReflexive, CalmFair
<1>8. e.status = "scheduled" => Steady(s, s1, w) /\ s1.ep[w].status # "in_attempt"
  BY <1>3 DEF Steady
<1>9. free => Steady(s, lost, w) /\ lost.ep[w].status # "in_attempt"
  BY <1>6 DEF Steady, Open
<1>10. Fair(work, s, r.db, w)
  BY <1>5, <1>6, <1>7
<1>11. Claimed(s, r, w)
  BY <1>5, <1>8, <1>9 DEF Claimed
<1> HIDE DEF r
<1> QED BY <1>1, <1>10, <1>11

-----------------------------------------------------------------------------
(* The calls of one Work Item. *)

\* Its row becomes r; the statements may look at any other row of it.
LEMMA RowStep ==
    ASSUME IInv, Proper(work, db, auto), NEW w \in Items, NEW r, work' = [work EXCEPT ![w] = r],
           NEW m, \A v \in Items \ {w} : m[v] = work[v], Fair(m, db, db', w),
           auto' \subseteq auto \union {w}, Fits(r, db', w), w \in auto' => Holds(r, db', w)
    PROVE  Proper(work', db', auto')
<1>1. work'[w] = r /\ \A v \in Items \ {w} : work'[v] = work[v]
  BY DEF IInv, Types
<1>2. auto \in SUBSET Items /\ auto' \in SUBSET Items
  BY DEF IInv, Types
<1>3. /\ \A v \in Items \ {w} : work'[v] = work[v]
      /\ w \in Items => Fits(work'[w], db', w)
      /\ w \in auto' => Holds(work'[w], db', w)
  BY <1>1
<1>4. Proper(work, db, auto) /\ (\A v \in Items \ {w} : m[v] = work[v]) /\ Fair(m, db, db', w)
      /\ auto' \subseteq auto \union {w}
  OBVIOUS
<1> QED BY ONLY <1>2, <1>3, <1>4, OwnStep

LEMMA Unwritten ==
    ASSUME NEW s, Tidy(s), NEW w, NEW wk PROVE Fair(wk, s, s, w)
BY CalmReflexive, CalmFair

\* The rows after tryAcquireWorkerSlot.
LEMMA AcquiredFits ==
    ASSUME NEW w \in Items, NEW row \in Rows, NEW s, Fits(row, s, w), row.run # "active", ~row.over,
           NEW r \in Acquired(w, row)
    PROVE  /\ Fits(r, s, w) /\ (r.held \/ r.run = "active" \/ r.waiting)
           /\ r.paused = row.paused /\ r.over = row.over
<1>1. CASE row.held
  BY <1>1 DEF Acquired
<1>2. CASE ~row.held /\ GateHolds(w)
  <2>1. r = [row EXCEPT !.held = TRUE, !.waiting = FALSE] /\ w \in Gated
    BY <1>2 DEF Acquired, GateHolds
  <2>2. /\ r.held /\ ~r.waiting /\ r.run = row.run /\ r.paused = row.paused
        /\ r.over = row.over
    BY <2>1 DEF Rows
  <2> QED BY <2>1, <2>2 DEF Fits
<1>3. CASE ~row.held /\ ~GateHolds(w)
  <2>1. r = [row EXCEPT !.waiting = FALSE, !.run = "active"] \/ r = [row EXCEPT !.waiting = TRUE]
    BY <1>3 DEF Acquired
  <2>2. CASE r = [row EXCEPT !.waiting = FALSE, !.run = "active"]
    <3>1. /\ ~r.held /\ ~r.waiting /\ r.run = "active" /\ r.paused = row.paused
          /\ r.over = row.over
      BY <2>2, <1>3 DEF Rows
    <3> QED BY <3>1 DEF Fits
  <2>3. CASE r = [row EXCEPT !.waiting = TRUE]
    <3>1. /\ ~r.held /\ r.waiting /\ r.run = row.run /\ r.paused = row.paused
          /\ r.over = row.over
      BY <2>3, <1>3 DEF Rows
    <3> QED BY <3>1 DEF Fits
  <2> QED BY <2>1, <2>2, <2>3
<1> QED BY <1>1, <1>2, <1>3

LEMMA FailTransientProper ==
    ASSUME IInv, Proper(work, db, auto), NEW w \in Items, NEW c \in Scopes,
           NEW d \in Delays, NEW f \in Floors, FailTransient(w, c, d, f)
    PROVE  Proper(work', db', auto')
<1> DEFINE r     == [work[w] EXCEPT !.run = "failed", !.waiting = FALSE]
           wk    == [work EXCEPT ![w] = r]
           retry == IF f = 0 THEN Null ELSE now + f
           plan  == Latest(now + d, retry)
<1>1. /\ work' = wk /\ work[w].run = "active" /\ plan <= MaxTime
      /\ db' = IF work[w].paused THEN Closed(wk, db, w, "cancelled")
               ELSE Coordinated(wk, db, w, c, plan, retry)
      /\ auto' = auto \ {w}
  <2>1. wk = [work EXCEPT ![w].run = "failed", ![w].waiting = FALSE]
    BY DEF IInv, Types
  <2> QED BY <2>1 DEF FailTransient
<1>2. Tidy(db) /\ Clock /\ Fits(work[w], db, w) /\ work \in [Items -> Rows]
  BY DEF Proper, IInv, Types
<1>3. plan \in Times /\ retry \in Stamps
  <2>1. d \in Nat /\ f \in Nat /\ now \in Nat /\ MaxTime \in Nat
    BY Constants, RecoveryAssumption DEF RecoveryAssumption, IInv, Types, Clock, Times
  <2> QED BY <1>1, <2>1 DEF Latest, Times, Stamps, Null
<1>4. \A v \in Items \ {w} : wk[v] = work[v]
  BY <1>2
<1>5. r.run = "failed" /\ ~r.waiting /\ r.held = work[w].held /\ r.over = work[w].over
      /\ r.paused = work[w].paused
  BY <1>2 DEF Rows
<1> DEFINE t == Closed(wk, db, w, "cancelled")
           u == Coordinated(wk, db, w, c, plan, retry)
<1> HIDE DEF wk, plan, retry, r
<1>6. Fair(wk, db, t, w) /\ ~Open(t.ep[w])
  BY <1>2, ClosedCalm, CalmFair
<1>7. Fair(wk, db, u, w)
  BY <1>2, <1>3, CoordinatedFair
<1> HIDE DEF t, u
<1>8. Fair(wk, db, db', w) /\ (work[w].paused => ~Open(db'.ep[w]))
  BY <1>1, <1>6, <1>7 DEF t, u
<1>9. Fits(r, db', w)
  BY <1>1, <1>2, <1>5, <1>8 DEF Fits
<1>10. work' = [work EXCEPT ![w] = r]
  BY <1>1 DEF wk
<1> QED BY <1>1, <1>4, <1>8, <1>9, <1>10, RowStep

LEMMA FailOtherProper ==
    ASSUME IInv, Proper(work, db, auto), NEW w \in Items, FailOther(w)
    PROVE  Proper(work', db', auto')
<1> DEFINE r  == [work[w] EXCEPT !.run = "failed", !.waiting = FALSE]
           wk == [work EXCEPT ![w] = r]
<1>1. /\ work' = wk /\ work[w].run = "active" /\ db' = Closed(wk, db, w, "exited")
      /\ auto' = auto \ {w}
  <2>1. wk = [work EXCEPT ![w].run = "failed", ![w].waiting = FALSE]
    BY DEF IInv, Types
  <2> QED BY <2>1 DEF FailOther
<1>2. Tidy(db) /\ Clock /\ Fits(work[w], db, w) /\ work \in [Items -> Rows]
  BY DEF Proper, IInv, Types
<1>3. /\ r.run = "failed" /\ ~r.waiting /\ r.held = work[w].held /\ r.over = work[w].over
      /\ \A v \in Items \ {w} : wk[v] = work[v]
  BY <1>2 DEF Rows
<1> HIDE DEF wk, r
<1>4. Fair(wk, db, db', w) /\ ~Open(db'.ep[w])
  BY <1>1, <1>2, ClosedCalm, CalmFair
<1>5. Fits(r, db', w)
  BY <1>1, <1>2, <1>3, <1>4 DEF Fits
<1>6. work' = [work EXCEPT ![w] = r]
  BY <1>1 DEF wk
<1> QED BY <1>1, <1>3, <1>4, <1>5, <1>6, RowStep

LEMMA SucceedProper ==
    ASSUME IInv, Proper(work, db, auto), NEW w \in Items, Succeed(w)
    PROVE  Proper(work', db', auto')
<1> DEFINE run == IF work[w].paused THEN "none" ELSE "active"
           r   == [work[w] EXCEPT !.run = run]
           wk  == [work EXCEPT ![w].run = "none"]
<1>1. /\ work' = [work EXCEPT ![w] = r] /\ work[w].run = "active"
      /\ db' = Closed(wk, db, w, "recovered") /\ auto' = auto \ {w}
  <2>1. [work EXCEPT ![w] = r] = [work EXCEPT ![w].run = run]
    BY DEF IInv, Types
  <2> QED BY <2>1 DEF Succeed
<1>2. Tidy(db) /\ Clock /\ Fits(work[w], db, w) /\ work \in [Items -> Rows]
  BY DEF Proper, IInv, Types
<1>3. /\ r.waiting = work[w].waiting /\ r.held = work[w].held /\ r.over = work[w].over
      /\ \A v \in Items \ {w} : wk[v] = work[v]
  BY <1>2 DEF Rows
<1> HIDE DEF wk, r
<1>4. Fair(wk, db, db', w) /\ ~Open(db'.ep[w])
  BY <1>1, <1>2, ClosedCalm, CalmFair
<1>5. Fits(r, db', w)
  BY <1>1, <1>2, <1>3, <1>4 DEF Fits
<1> QED BY <1>1, <1>3, <1>4, <1>5, RowStep

LEMMA FinishProper ==
    ASSUME IInv, Proper(work, db, auto), NEW w \in Items, Finish(w)
    PROVE  Proper(work', db', auto')
<1> DEFINE r  == [work[w] EXCEPT !.run = "none", !.over = TRUE]
           wk == [work EXCEPT ![w] = r]
<1>1. PICK outcome \in {"recovered", "cancelled"} :
         /\ work' = wk /\ work[w].run = "active" /\ db' = Closed(wk, db, w, outcome)
         /\ auto' = auto \ {w}
  <2>1. wk = [work EXCEPT ![w].run = "none", ![w].over = TRUE]
    BY DEF IInv, Types
  <2> QED BY <2>1 DEF Finish
<1>2. Tidy(db) /\ Clock /\ Fits(work[w], db, w) /\ work \in [Items -> Rows]
  BY DEF Proper, IInv, Types
<1>3. /\ r.run = "none" /\ r.waiting = work[w].waiting /\ r.held = work[w].held
      /\ \A v \in Items \ {w} : wk[v] = work[v]
  BY <1>2 DEF Rows
<1> HIDE DEF wk, r
<1>4. Fair(wk, db, db', w) /\ ~Open(db'.ep[w])
  BY <1>1, <1>2, ClosedCalm, CalmFair
<1>5. Fits(r, db', w)
  BY <1>1, <1>2, <1>3, <1>4 DEF Fits
<1>6. work' = [work EXCEPT ![w] = r]
  BY <1>1 DEF wk
<1> QED BY <1>1, <1>3, <1>4, <1>5, <1>6, RowStep

\* Calls that leave the database alone.
LEMMA StoppedProper ==
    ASSUME IInv, Proper(work, db, auto), NEW w \in Items, NEW run \in {"postponed", "interrupted"},
           work[w].run = "active", work' = [work EXCEPT ![w].run = run, ![w].waiting = FALSE],
           db' = db, auto' = auto \ {w}
    PROVE  Proper(work', db', auto')
<1> DEFINE r == [work[w] EXCEPT !.run = run, !.waiting = FALSE]
<1>1. work' = [work EXCEPT ![w] = r]
  BY DEF IInv, Types
<1>2. Tidy(db) /\ Fits(work[w], db, w) /\ work \in [Items -> Rows]
  BY DEF Proper, IInv, Types
<1>3. /\ r.run = run /\ ~r.waiting /\ r.held = work[w].held /\ r.over = work[w].over
      /\ r.paused = work[w].paused
  BY <1>2 DEF Rows
<1> HIDE DEF r
<1>4. Fits(r, db', w)
  BY <1>2, <1>3 DEF Fits
<1>5. Fair(work, db, db', w)
  BY <1>2, Unwritten
<1> QED BY <1>1, <1>4, <1>5, RowStep

\* The Work Item, not over and not in a Step Run, asks for a Worker Slot.
LEMMA AskingProper ==
    ASSUME IInv, Proper(work, db, auto), NEW w \in Items, NEW row \in Rows, Fits(row, db, w),
           row.run # "active", ~row.over, row.held = work[w].held, NEW r \in Acquired(w, row),
           work' = [work EXCEPT ![w] = r], db' = db, auto' = auto
    PROVE  Proper(work', db', auto')
<1>1. Fits(r, db', w) /\ (r.held \/ r.run = "active" \/ r.waiting)
  BY AcquiredFits
<1>2. ASSUME w \in auto' PROVE Holds(r, db', w)
  <2>1. Holds(work[w], db, w)
    BY <1>2 DEF Proper
  <2>2. row.held => r.held
    BY DEF Acquired
  <2> QED BY <2>1, <2>2, <1>1 DEF Holds
<1>3. Fair(work, db, db', w)
  BY Unwritten DEF Proper
<1> QED BY <1>1, <1>2, <1>3, RowStep

LEMMA WakePostponedProper ==
    ASSUME IInv, Proper(work, db, auto), NEW w \in Items, WakePostponed(w)
    PROVE  Proper(work', db', auto')
<1>1. PICK r \in Acquired(w, work[w]) : work' = [work EXCEPT ![w] = r]
  BY DEF WakePostponed
<1>2. work[w] \in Rows /\ Fits(work[w], db, w) /\ work[w].run = "postponed"
  BY DEF WakePostponed, Proper, IInv, Types
<1>3. ~work[w].over
  BY <1>2 DEF Fits
<1> QED BY <1>1, <1>2, <1>3, AskingProper DEF WakePostponed

LEMMA AdmitProper ==
    ASSUME IInv, Proper(work, db, auto), NEW w \in Items, Admit(w)
    PROVE  Proper(work', db', auto')
<1>1. PICK r \in Acquired(w, work[w]) : work' = [work EXCEPT ![w] = r]
  BY DEF Admit
<1>2. work[w] \in Rows /\ Fits(work[w], db, w) /\ work[w].waiting
  BY DEF Admit, Proper, IInv, Types
<1>3. ~work[w].over /\ work[w].run # "active"
  BY <1>2 DEF Fits
<1> QED BY <1>1, <1>2, <1>3, AskingProper DEF Admit

LEMMA StartProper ==
    ASSUME IInv, Proper(work, db, auto), NEW w \in Items, Start(w)
    PROVE  Proper(work', db', auto')
<1> DEFINE row == [work[w] EXCEPT !.paused = FALSE]
<1>1. PICK r \in IF row.run = "none" THEN Acquired(w, row) ELSE {row} :
         work' = [work EXCEPT ![w] = r]
  BY DEF Start
<1>2. work[w] \in Rows /\ Fits(work[w], db, w) /\ ~work[w].over /\ work[w].paused
  BY DEF Start, Proper, IInv, Types
<1>3. /\ row \in Rows /\ ~row.paused /\ row.held = work[w].held /\ row.over = work[w].over
      /\ row.waiting = work[w].waiting /\ row.run = work[w].run
  BY <1>2 DEF Rows
<1> HIDE DEF row
<1>4. Fits(row, db, w) /\ ~Open(db.ep[w])
  BY <1>2, <1>3 DEF Fits
<1>5. db' = db /\ auto' = auto
  BY DEF Start
<1>6. CASE row.run = "none"
  <2>1. r \in Acquired(w, row) /\ row.run # "active" /\ ~row.over
    BY <1>1, <1>2, <1>3, <1>6
  <2> QED BY <1>1, <1>3, <1>4, <1>5, <2>1, AskingProper
<1>7. CASE row.run # "none"
  <2>1. r = row
    BY <1>1, <1>7
  <2>2. Fits(row, db', w) /\ Holds(row, db', w)
    BY <1>4, <1>5 DEF Holds, Open
  <2>3. Fair(work, db, db', w)
    BY <1>5, Unwritten DEF Proper
  <2> QED BY <1>1, <1>5, <2>1, <2>2, <2>3, RowStep
<1> QED BY <1>6, <1>7

LEMMA PauseProper ==
    ASSUME IInv, Proper(work, db, auto), NEW w \in Items, Pause(w)
    PROVE  Proper(work', db', auto')
<1> DEFINE row    == [work[w] EXCEPT !.paused = TRUE]
           queued == [row EXCEPT !.run = "none", !.waiting = FALSE]
           idle   == [row EXCEPT !.waiting = FALSE]
           rows   == IF row.run = "active" THEN {row, queued} ELSE {idle}
<1>1. PICK r \in rows : /\ work' = [work EXCEPT ![w] = r]
                        /\ db' = Closed([work EXCEPT ![w] = r], db, w, "cancelled")
  BY DEF Pause
<1>2. /\ Tidy(db) /\ Clock /\ work[w] \in Rows /\ Fits(work[w], db, w) /\ ~work[w].over
      /\ work \in [Items -> Rows]
  BY DEF Pause, Proper, IInv, Types
<1>3. \A n \in {row, queued, idle} :
         /\ ~n.over /\ n.held = work[w].held
         /\ n.waiting => work[w].waiting /\ n.run = work[w].run
         /\ n.run \in {"none", work[w].run}
  BY <1>2 DEF Rows
<1>4. r \in {row, queued, idle}
  BY <1>1
<1> DEFINE wk == [work EXCEPT ![w] = r]
<1>5. db' = Closed(wk, db, w, "cancelled") /\ \A v \in Items \ {w} : wk[v] = work[v]
  BY <1>1, <1>2
<1> HIDE DEF wk, row, queued, idle, rows
<1>6. Fair(wk, db, db', w) /\ ~Open(db'.ep[w])
  BY <1>2, <1>5, ClosedCalm, CalmFair
<1>7. Fits(r, db', w)
  BY <1>2, <1>3, <1>4, <1>6 DEF Fits
<1>8. Holds(r, db', w)
  BY <1>6 DEF Holds, Open
<1>9. auto' = auto
  BY DEF Pause
<1> QED BY <1>1, <1>5, <1>6, <1>7, <1>8, <1>9, RowStep

LEMMA InterruptProper ==
    ASSUME IInv, Proper(work, db, auto), NEW w \in Items, Interrupt(w)
    PROVE  Proper(work', db', auto')
<1> DEFINE r  == [work[w] EXCEPT !.run = "interrupted", !.paused = FALSE, !.waiting = FALSE]
           wk == [work EXCEPT ![w] = r]
<1>1. /\ work' = wk /\ work[w].run = "active" /\ db' = Closed(wk, db, w, "cancelled")
      /\ auto' = auto \ {w}
  <2>1. wk = [work EXCEPT ![w].run = "interrupted", ![w].paused = FALSE, ![w].waiting = FALSE]
    BY DEF IInv, Types
  <2> QED BY <2>1 DEF Interrupt
<1>2. Tidy(db) /\ Clock /\ Fits(work[w], db, w) /\ work \in [Items -> Rows]
  BY DEF Proper, IInv, Types
<1>3. /\ r.run = "interrupted" /\ ~r.waiting /\ r.held = work[w].held /\ r.over = work[w].over
      /\ \A v \in Items \ {w} : wk[v] = work[v]
  BY <1>2 DEF Rows
<1> HIDE DEF wk, r
<1>4. Fair(wk, db, db', w) /\ ~Open(db'.ep[w])
  BY <1>1, <1>2, ClosedCalm, CalmFair
<1>5. Fits(r, db', w)
  BY <1>1, <1>2, <1>3, <1>4 DEF Fits
<1>6. work' = [work EXCEPT ![w] = r]
  BY <1>1 DEF wk
<1> QED BY <1>1, <1>3, <1>4, <1>5, <1>6, RowStep

LEMMA RetryProper ==
    ASSUME IInv, Proper(work, db, auto), NEW w \in Items, Retry(w)
    PROVE  Proper(work', db', auto')
<1> DEFINE s == Superseded(db, w)
<1>1. PICK r \in Acquired(w, work[w]) : work' = [work EXCEPT ![w] = r]
  BY DEF Retry
<1>2. /\ work[w] \in Rows /\ Fits(work[w], db, w) /\ Tidy(db) /\ ~work[w].paused /\ ~work[w].over
      /\ work[w].run # "active" /\ auto' = auto \ {w}
  BY DEF Retry, Proper, IInv, Types
<1>3. db' = db \/ db' = Noted(work, s, w)
  BY DEF Retry
<1>4. Fair(work, db, s, w)
  BY <1>2, SupersededFair
<1> HIDE DEF s
<1>5. Fair(work, db, Noted(work, s, w), w)
  BY <1>4, NotedCalm, FairThenCalm DEF Fair
<1>6. Fair(work, db, db', w)
  BY <1>2, <1>3, <1>5, Unwritten
<1>7. Fits(r, db, w) /\ ~r.paused /\ ~r.over
  BY <1>1, <1>2, AcquiredFits
<1>8. Fits(r, db', w)
  BY <1>7 DEF Fits
<1> QED BY <1>1, <1>2, <1>6, <1>8, RowStep

\* The episode of w is deleted; w holds no lease any more.
LEMMA ForgottenFair ==
    ASSUME NEW wk, NEW s, Tidy(s), NEW w \in Items, \A d \in Scopes : s.cd[d].probe # w
    PROVE  LET t == [s EXCEPT !.ep[w] = NoEpisode]
           IN  Fair(wk, s, t, w) /\ t.ep[w] = NoEpisode
<1> DEFINE t == [s EXCEPT !.ep[w] = NoEpisode]
<1>1. NoEpisode \in Episodes /\ Dated(NoEpisode) /\ NoEpisode.status = "none"
      /\ NoEpisode.scope = NoScope
  BY Constants DEF NoEpisode, Episodes, Dated, Stamps, Times
<1>2. Sound(s)
  BY DEF Tidy
<1>3. /\ Sound(t) /\ t.cd = s.cd
      /\ \A v \in Items : t.ep[v] = IF v = w THEN NoEpisode ELSE s.ep[v]
  BY <1>1, <1>2, EpisodeSound
<1> HIDE DEF t
<1>4. Aligned(t)
  BY <1>1, <1>3 DEF Tidy, Aligned
<1>5. Existing(t)
  BY <1>1, <1>3 DEF Tidy, Existing
<1>6. Kept(wk, s, t, w)
  BY <1>3 DEF Kept, Steady, Spared, Leased, Probe
<1>7. Fair(wk, s, t, w) /\ t.ep[w] = NoEpisode
  BY <1>3, <1>4, <1>5, <1>6 DEF Fair, Tidy
<1> QED BY <1>7 DEF t

LEMMA LeaveProper ==
    ASSUME IInv, Proper(work, db, auto), NEW w \in Items, NEW reset \in BOOLEAN, Leave(w, reset)
    PROVE  Proper(work', db', auto')
<1> DEFINE r  == [NoWork EXCEPT !.run = "none", !.over = TRUE]
           s  == Settled(work, db, w, "cancelled")
           s1 == [s EXCEPT !.cd = NoLease(s, w)]
           s2 == [s1 EXCEPT !.ep[w] = NoEpisode]
           t  == Closed(work, db, w, "cancelled")
<1>1. Tidy(db) /\ Clock
  BY DEF Proper, IInv, Types
<1>2. Calm(work, db, s, w)
  BY <1>1, SettledCalm
<1>3. /\ work' = [work EXCEPT ![w] = r] /\ auto' = auto \ {w}
      /\ db' = IF reset THEN [s EXCEPT !.ep[w] = NoEpisode, !.cd = NoLease(s, w)] ELSE t
  BY DEF Leave, NoLease
<1>4. r.run = "none" /\ ~r.waiting /\ ~r.held
  BY DEF NoWork
<1>5. Fair(work, db, t, w) /\ ~Open(t.ep[w])
  BY <1>1, ClosedCalm, CalmFair
<1> HIDE DEF s, t, r
<1>6. Tidy(s) /\ Sound(s)
  BY <1>2 DEF Calm, Tidy
<1>7. Calm(work, s, s1, w) /\ \A d \in Scopes : s1.cd[d].probe # w
  BY <1>6, LeasesTakenCalm, LeasesTaken
<1>8. [s EXCEPT !.ep[w] = NoEpisode, !.cd = NoLease(s, w)] = s2
  BY <1>6 DEF Sound, Databases
<1> HIDE DEF s1
<1>9. Fair(work, s1, s2, w) /\ s2.ep[w] = NoEpisode
  BY <1>7, ForgottenFair DEF Calm
<1> HIDE DEF s2
<1>10. Fair(work, db, s2, w) /\ ~Open(s2.ep[w])
  <2>1. Calm(work, db, s1, w)
    BY <1>2, <1>7, CalmTransitive
  <2> QED BY <2>1, <1>9, CalmThenFair DEF Open, NoEpisode
<1>11. Fair(work, db, db', w) /\ ~Open(db'.ep[w])
  BY <1>3, <1>5, <1>8, <1>10
<1>12. Fits(r, db', w)
  BY <1>4, <1>11 DEF Fits
<1> QED BY <1>3, <1>11, <1>12, RowStep

LEMMA ReleaseHeldProper ==
    ASSUME IInv, Proper(work, db, auto), NEW w \in Items, ReleaseHeld(w)
    PROVE  Proper(work', db', auto')
<1> DEFINE row == [work[w] EXCEPT !.held = FALSE]
           own == Open(db.ep[w]) /\ row.run # "active"
<1>1. PICK r \in IF row.paused \/ own \/ row.run = "active" THEN {row} ELSE Acquired(w, row) :
         work' = [work EXCEPT ![w] = r]
  BY DEF ReleaseHeld
<1>2. /\ db' = IF own /\ ~row.paused THEN Resumed(db, w) ELSE db
      /\ auto' = auto \ {w} /\ work[w].held /\ ~work[w].over
  BY DEF ReleaseHeld
<1>3. Tidy(db) /\ Clock /\ work[w] \in Rows /\ Fits(work[w], db, w)
  BY DEF Proper, IInv, Types
<1>4. /\ row \in Rows /\ ~row.held /\ row.paused = work[w].paused /\ row.over = work[w].over
      /\ row.waiting = work[w].waiting /\ row.run = work[w].run
  BY <1>3 DEF Rows
<1> HIDE DEF row
<1>5. w \in Gated /\ row.run # "active" /\ ~row.waiting /\ ~row.over
  BY <1>2, <1>3, <1>4 DEF Fits
<1>6. Fits(row, db, w)
  BY <1>3, <1>4, <1>5 DEF Fits
<1>7. Fits(r, db, w) /\ r.paused = row.paused /\ ~r.over
  <2>1. CASE row.paused \/ own \/ row.run = "active"
    BY <1>1, <1>5, <1>6, <2>1
  <2>2. CASE ~(row.paused \/ own \/ row.run = "active")
    <3>1. r \in Acquired(w, row)
      BY <1>1, <2>2
    <3> QED BY <3>1, <1>4, <1>5, <1>6, AcquiredFits
  <2> QED BY <2>1, <2>2
<1>8. Fair(work, db, db', w)
  BY <1>2, <1>3, <1>5, ResumedFair, Unwritten
<1>9. Fits(r, db', w)
  BY <1>2, <1>7 DEF Fits
<1> QED BY <1>1, <1>2, <1>8, <1>9, RowStep

\* Nothing but the wakes changes.
LEMMA JobsProper ==
    ASSUME NEW wk, NEW s, NEW a, Proper(wk, s, a), NEW t, Sound(t), t.ep = s.ep, t.cd = s.cd
    PROVE  Proper(wk, t, a)
BY DEF Proper, Fits, Holds, Leased, Probe, Tidy, Aligned, Existing

LEMMA LeaseExpiresProper ==
    ASSUME IInv, Proper(work, db, auto), NEW j \in db.jobs, LeaseExpires(j)
    PROVE  Proper(work', db', auto')
<1>1. Sound(db')
  BY LeaseExpiresStep DEF Effect
<1>2. db'.ep = db.ep /\ db'.cd = db.cd /\ work' = work /\ auto' = auto
  BY DEF LeaseExpires, IInv, Sound, Databases
<1> QED BY <1>1, <1>2, JobsProper

LEMMA RestartProper ==
    ASSUME IInv, Proper(work, db, auto), NEW stopped \in SUBSET Items, Restart(stopped)
    PROVE  Proper(work', db', auto')
<1>1. db' = db /\ auto' = auto \ stopped
  BY DEF Restart
<1>2. \A w \in Items \ stopped : work'[w] = work[w]
  BY DEF Restart
<1>3. ASSUME NEW w \in stopped
      PROVE  /\ work[w].run = "active" /\ work'[w].run = "interrupted" /\ ~work'[w].waiting
             /\ work'[w].held = work[w].held /\ work'[w].over = work[w].over
             /\ work'[w].paused = work[w].paused
  BY DEF Restart, IInv, Types, Rows
<1>4. \A w \in Items : Fits(work'[w], db', w)
  BY <1>1, <1>2, <1>3 DEF Proper, Fits
<1>5. \A w \in auto' : Holds(work'[w], db', w)
  BY <1>1, <1>2 DEF Proper, IInv, Types
<1> QED BY <1>1, <1>4, <1>5 DEF Proper

-----------------------------------------------------------------------------
(* The answer of a claim, and what becomes of it. *)

LEMMA HandledProper ==
    ASSUME IInv, NEW s, Proper(work, s, auto), NEW j, j.item \in Items, NEW q,
           Fair(work, s, q.db, j.item), Claimed(s, q, j.item),
           NEW h \in Handled(j, work[j.item], q)
    PROVE  Proper(h[1], h[2], h[3])
<1> DEFINE w   == j.item
           row == work[w]
           n0  == [row EXCEPT !.held = TRUE, !.waiting = FALSE]
           hold == [work EXCEPT ![w].held = TRUE, ![w].waiting = FALSE]
           outcome == IF row.paused THEN "cancelled" ELSE "exited"
           t   == Closed(work, q.db, w, outcome)
           u   == Parked(hold, q.db, w)
<1>1. /\ w \in Items /\ Clock /\ work \in [Items -> Rows] /\ row \in Rows
      /\ auto \in SUBSET Items /\ Fits(row, s, w) /\ Tidy(q.db)
  BY DEF IInv, Types, Proper, Fair
<1>2. ASSUME NEW n, \A v \in Items \ {w} : n[v] = work[v], NEW d, Fair(work, s, d, w),
             NEW b \in SUBSET Items, b \subseteq auto \union {w},
             Fits(n[w], d, w), w \in b => Holds(n[w], d, w)
      PROVE  Proper(n, d, b)
  <2>1. Proper(work, s, auto) /\ \A v \in Items \ {w} : work[v] = work[v]
    OBVIOUS
  <2> HIDE DEF w
  <2> QED BY ONLY <2>1, <1>1, <1>2, OwnStep
<1> HIDE DEF w, row
<1>3. CASE q.is # "claimed"
  <2>1. h[1] = work /\ h[2] = q.db /\ h[3] = auto
    BY <1>3 DEF Handled
  <2>2. Open(q.db.ep[w]) => Open(s.ep[w])
    BY <1>3 DEF Claimed, Steady, Open, w
  <2>3. Fits(work[w], q.db, w)
    BY <1>1, <2>2 DEF Fits, row
  <2>4. ASSUME w \in auto PROVE Holds(work[w], q.db, w)
    <3>1. Holds(work[w], s, w)
      BY <2>4 DEF Proper
    <3> QED BY <3>1, <1>3 DEF Claimed, Holds, Leased, Probe, w
  <2>5. Proper(work, q.db, auto)
    BY <1>1, <1>2, <2>3, <2>4 DEF w
  <2> QED BY <2>1, <2>5
<1>4. CASE q.is = "claimed" /\ (row.paused \/ row.over \/ row.run = "active")
  <2>1. h[1] = work /\ h[2] = t /\ h[3] = auto
    BY <1>4 DEF Handled, row, w
  <2> HIDE DEF outcome
  <2>2. Calm(work, q.db, t, w) /\ ~Open(t.ep[w])
    BY <1>1, ClosedCalm
  <2> HIDE DEF t
  <2>3. Fair(work, s, t, w)
    BY <2>2, FairThenCalm DEF w
  <2>4. Fits(work[w], t, w) /\ Holds(work[w], t, w)
    BY <1>1, <2>2 DEF Fits, Holds, Open, row
  <2>5. Proper(work, t, auto)
    BY <1>1, <1>2, <2>3, <2>4
  <2> QED BY <2>1, <2>5
<1>5. CASE q.is = "claimed" /\ ~(row.paused \/ row.over \/ row.run = "active") /\ GateHolds(w)
  <2>1. h[1] = hold /\ h[2] = u /\ h[3] = auto /\ w \in Gated
    BY <1>5 DEF Handled, row, w, GateHolds
  <2>2. hold[w] = n0 /\ \A v \in Items \ {w} : hold[v] = work[v]
    BY <1>1 DEF row
  <2>3. /\ n0.held /\ ~n0.waiting /\ n0.paused = row.paused /\ n0.over = row.over
        /\ n0.run = row.run
    BY <1>1 DEF Rows
  <2> HIDE DEF hold, n0
  <2>4. Fair(hold, q.db, u, w)
    BY <1>1, <2>1, ParkedFair
  <2>5. Fair(work, q.db, u, w)
    BY <2>2, <2>4, FairRows
  <2> HIDE DEF u
  <2>6. Fair(work, s, u, w)
    BY <2>5, KeptTransitive DEF Fair, w
  <2>7. Fits(hold[w], u, w) /\ Holds(hold[w], u, w)
    BY <1>5, <2>1, <2>2, <2>3 DEF Fits, Holds
  <2>8. Proper(hold, u, auto)
    BY <1>1, <1>2, <2>2, <2>6, <2>7
  <2> QED BY <2>1, <2>8
<1>6. CASE q.is = "claimed" /\ ~(row.paused \/ row.over \/ row.run = "active") /\ ~GateHolds(w)
  <2>1. PICK n \in Acquired(w, row) :
           h[1] = [work EXCEPT ![w] = n] /\ h[2] = q.db /\ h[3] = auto \union {w}
    BY <1>6 DEF Handled, row, w
  <2>2. Leased(q.db, w)
    BY <1>6 DEF Claimed, w
  <2>3. Fits(row, q.db, w)
    BY <1>1, <1>6 DEF Fits
  <2>4. Fits(n, q.db, w) /\ (n.held \/ n.run = "active" \/ n.waiting)
    BY <1>1, <1>6, <2>3, AcquiredFits
  <2>5. Holds(n, q.db, w)
    BY <2>2, <2>4 DEF Holds
  <2> DEFINE m == [work EXCEPT ![w] = n]
             b == auto \union {w}
  <2>6. m[w] = n /\ (\A v \in Items \ {w} : m[v] = work[v]) /\ b \in SUBSET Items
    BY <1>1
  <2> HIDE DEF m
  <2>7. Proper(m, q.db, b)
    BY <1>2, <2>4, <2>5, <2>6 DEF w
  <2> QED BY <2>1, <2>7 DEF m
<1> QED BY <1>3, <1>4, <1>5, <1>6

LEMMA DeliverProper ==
    ASSUME IInv, Proper(work, db, auto), NEW j \in db.jobs,
           NEW dies \in {"no", "claimed", "handled"}, Deliver(j, dies)
    PROVE  Proper(work', db', auto')
<1> DEFINE left    == j.left - 1
           locked  == IF left = 0 THEN {} ELSE {[j EXCEPT !.left = left, !.lock = TRUE]}
           jobs    == (db.jobs \ {j}) \union locked
           claimed == [db EXCEPT !.jobs = jobs]
           r       == Claim(claimed, j)
           rest    == r.db.jobs \ locked
           acked   == [is |-> r.is, db |-> [r.db EXCEPT !.jobs = rest]]
           w       == j.item
           row     == work[w]
<1>1. /\ Sound(db) /\ Clock /\ w \in Items /\ j \in WakeJobs
      /\ db \in Databases /\ IsFiniteSet(db.jobs)
  BY DEF IInv, Types, Sound, Databases, WakeJobs
<1>2. jobs \in SUBSET WakeJobs /\ IsFiniteSet(jobs)
  <2>1. locked \subseteq WakeJobs
    <3>1. left \in {0, 1}
      BY <1>1 DEF WakeJobs
    <3> HIDE DEF left
    <3>2. left # 0 => [j EXCEPT !.left = left, !.lock = TRUE] \in WakeJobs
      BY <1>1, <3>1 DEF WakeJobs
    <3> QED BY <3>2
  <2>2. IsFiniteSet(locked)
    BY FS_EmptySet, FS_Singleton
  <2> HIDE DEF locked
  <2>3. IsFiniteSet(db.jobs \ {j})
    BY <1>1, FS_Subset
  <2> QED BY <2>1, <2>2, <2>3, <1>1, FS_Union DEF Databases
<1> HIDE DEF jobs, locked, claimed
<1>3. r = [is |-> r.is, db |-> r.db]
  BY DEF Claim
<1>4. PICK h \in {<<work, claimed, auto>>} \union Handled(j, row, r) \union Handled(j, row, acked) :
        work' = h[1] /\ db' = h[2] /\ auto' = h[3]
  <2>1. acked = [r EXCEPT !.db.jobs = @ \ locked]
    BY <1>3
  <2> HIDE DEF acked, r, row
  <2> QED BY <2>1 DEF Deliver, r, row, claimed, jobs, locked
<1>5. Sound(claimed) /\ claimed.ep = db.ep /\ claimed.cd = db.cd
  BY <1>1, <1>2, JobsWritten DEF Databases, Safe, claimed
<1>6. Proper(work, claimed, auto)
  BY <1>5, JobsProper
<1>7. Fair(work, claimed, r.db, w) /\ Claimed(claimed, r, w)
  BY <1>1, <1>6, ClaimFair DEF Proper
<1> HIDE DEF r
<1>8. ASSUME h \in Handled(j, row, r) PROVE Proper(h[1], h[2], h[3])
  BY <1>1, <1>6, <1>7, <1>8, HandledProper
<1>9. ASSUME h \in Handled(j, row, acked) PROVE Proper(h[1], h[2], h[3])
  <2>1. Sound(r.db) /\ Tidy(r.db) /\ r.db \in Databases /\ IsFiniteSet(r.db.jobs)
    BY <1>7 DEF Fair, Tidy, Sound
  <2>2. rest \in SUBSET WakeJobs /\ IsFiniteSet(rest)
    BY <2>1, FS_Subset DEF Databases
  <2> HIDE DEF rest
  <2> DEFINE u == [r.db EXCEPT !.jobs = rest]
  <2>3. Sound(acked.db) /\ acked.is = r.is /\ acked.db.ep = r.db.ep /\ acked.db.cd = r.db.cd
    <3>1. Sound(u)
      BY <2>1, <2>2, JobsWritten DEF Safe
    <3>2. u.ep = r.db.ep /\ u.cd = r.db.cd
      BY <2>1 DEF Databases
    <3> HIDE DEF u
    <3>3. acked.db = u /\ acked.is = r.is
      BY DEF u
    <3> QED BY <3>1, <3>2, <3>3
  <2> HIDE DEF acked
  <2>4. Fair(work, claimed, acked.db, w)
    BY <2>1, <2>3, <1>7, JobsCalm, FairThenCalm
  <2>5. Claimed(claimed, acked, w)
    BY <2>3, <1>7 DEF Claimed, Leased, Probe, Steady
  <2> QED BY <1>1, <1>6, <1>9, <2>4, <2>5, HandledProper
<1>10. ASSUME h = <<work, claimed, auto>> PROVE Proper(h[1], h[2], h[3])
  <2>1. h[1] = work /\ h[2] = claimed /\ h[3] = auto
    BY <1>10
  <2> QED BY <1>6, <2>1
<1>11. Proper(h[1], h[2], h[3])
  BY <1>4, <1>8, <1>9, <1>10
<1> QED BY <1>4, <1>11

-----------------------------------------------------------------------------
(* The start-up repair. *)

\* The lease of c is with one that has a right to it, or nobody could take it.
Repaired(wk, s, c) ==
    s.cd[c].exists =>
        IF Probe(s, c) = NoItem THEN \A w \in WaitingIn(s, c) : ~Valid(wk, s, w)
        ELSE Valid(wk, s, Probe(s, c))

\* A statement for c does not undo the repair of another scope.
LEMMA RepairStays ==
    ASSUME NEW wk, NEW s, Sound(s), NEW t, NEW c \in Scopes, NEW d \in Scopes \ {c},
           Local(s, t, c), Repaired(wk, s, d)
    PROVE  Repaired(wk, t, d)
<1>1. t.cd[d] = s.cd[d] /\ Probe(t, d) = Probe(s, d)
  BY DEF Local, Probe
<1>2. d # NoScope /\ Inside(s, d, s.cd[d]) /\ Probe(s, d) \in Items \union {NoItem}
  BY Constants DEF Sound, Databases, Cooldowns, Probe
<1>3. \A v \in Items : t.ep[v].scope = d => t.ep[v] = s.ep[v]
  BY <1>2 DEF Local
<1>4. \A v \in Items : s.ep[v].scope = d => t.ep[v] = s.ep[v]
  BY DEF Local
<1>5. CASE Probe(s, d) = NoItem
  <2>1. ASSUME NEW v \in WaitingIn(t, d), t.cd[d].exists PROVE ~Valid(wk, t, v)
    <3>1. v \in Items /\ t.ep[v] = s.ep[v] /\ v \in WaitingIn(s, d)
      BY <1>3 DEF WaitingIn, OpenIn
    <3>2. ~Valid(wk, s, v)
      BY <1>1, <1>5, <2>1, <3>1 DEF Repaired
    <3> QED BY <3>1, <3>2 DEF Valid
  <2> QED BY <1>1, <1>5, <2>1 DEF Repaired
<1>6. CASE Probe(s, d) # NoItem
  <2>1. Probe(s, d) \in Items /\ t.ep[Probe(s, d)] = s.ep[Probe(s, d)]
    BY <1>2, <1>4, <1>6 DEF Inside, Probe
  <2> QED BY <1>1, <1>6, <2>1 DEF Repaired, Valid
<1> QED BY <1>5, <1>6

\* The choice of a probe for a lease that nobody holds.
LEMMA PromotedFromRepairs ==
    ASSUME NEW wk, NEW s, Tidy(s), Clock, NEW c \in Scopes, NEW x, Probe(s, c) = NoItem,
           x = NoItem \/ ~Valid(wk, s, x)
    PROVE  Repaired(wk, PromotedFrom(wk, s, c, x), c)
<1> DEFINE t == PromotedFrom(wk, s, c, x)
           C == Candidates(wk, s, c, x)
<1>1. Outcome(wk, s, t, c, x) /\ Sound(s)
  BY PromotedFromIs DEF Tidy
<1>2. C \subseteq WaitingIn(s, c) /\ \A v \in C : v \in Items /\ Valid(wk, s, v)
  BY DEF Candidates, WaitingIn, OpenIn
<1>3. \A v \in WaitingIn(s, c) \ C : ~Valid(wk, s, v)
  BY DEF Candidates, Valid
<1> HIDE DEF t, C
<1>4. ASSUME NEW W \in SUBSET C
      PROVE  LET u == OutOfTime(s, c, W)
             IN  /\ Calm(wk, s, u, NoItem) /\ u.cd = s.cd
                 /\ \A v \in Items : u.ep[v].scope = s.ep[v].scope
                 /\ \A v \in Items \ W : u.ep[v] = s.ep[v]
                 /\ \A v \in W : TooLong(s.ep[v].started, NextDue(s, c)) => u.ep[v].status = "exhausted"
  <2>1. W \in SUBSET WaitingIn(s, c)
    BY <1>2
  <2> QED BY <2>1, OutOfTimeCalm
<1>5. ASSUME t = DeletedIfIdle(OutOfTime(s, c, C), c),
             \A v \in C : TooLong(s.ep[v].started, NextDue(s, c))
      PROVE  Repaired(wk, t, c)
  <2> DEFINE u == OutOfTime(s, c, C)
  <2>1. /\ Calm(wk, s, u, NoItem) /\ u.cd = s.cd
        /\ \A v \in Items : u.ep[v].scope = s.ep[v].scope
        /\ \A v \in Items \ C : u.ep[v] = s.ep[v]
        /\ \A v \in C : u.ep[v].status = "exhausted"
    BY <1>4, <1>5
  <2> HIDE DEF u
  <2>2. t = u \/ t = Deleted(u, c)
    BY <1>5 DEF DeletedIfIdle, u
  <2>3. Deleted(u, c).cd[c] = NoCooldown
    BY <2>1, DeletedIs DEF Calm, Tidy
  <2>4. CASE t = Deleted(u, c)
    BY <2>3, <2>4 DEF Repaired, NoCooldown
  <2>5. CASE t = u
    <3>1. ASSUME NEW v \in WaitingIn(u, c) PROVE ~Valid(wk, u, v)
      <4>1. v \in Items /\ v \notin C /\ u.ep[v] = s.ep[v]
        BY <2>1 DEF WaitingIn, OpenIn
      <4>2. v \in WaitingIn(s, c)
        BY <4>1 DEF WaitingIn, OpenIn
      <4> QED BY <1>3, <4>1, <4>2 DEF Valid
    <3> QED BY <2>1, <2>5, <3>1 DEF Repaired, Probe
  <2> QED BY <2>2, <2>4, <2>5
<1>6. ASSUME NEW next \in C, NEW lost \in SUBSET C, next \notin lost,
             ~TooLong(s.ep[next].started, NextDue(s, c)),
             t = Chosen(s, OutOfTime(s, c, lost), c, next)
      PROVE  Repaired(wk, t, c)
  <2> DEFINE u == OutOfTime(s, c, lost)
             z == Chosen(s, u, c, next)
  <2>1. /\ Calm(wk, s, u, NoItem) /\ u.cd = s.cd
        /\ \A v \in Items : u.ep[v].scope = s.ep[v].scope
        /\ \A v \in Items \ lost : u.ep[v] = s.ep[v]
    BY <1>4
  <2> HIDE DEF u
  <2>2. next \in Items /\ u.ep[next] = s.ep[next] /\ next # NoItem
    BY <1>2, <1>6, <2>1, Constants
  <2>3. next \in WaitingIn(u, c) /\ Tidy(u)
    BY <1>2, <2>1, <2>2 DEF WaitingIn, OpenIn, Calm
  <2>4. z.ep[next].status = "scheduled" /\ Probe(z, c) = next
    BY <1>1, <1>6, <2>1, <2>2, <2>3, ChosenCalm
  <2>5. t = z
    BY <1>6 DEF u
  <2> HIDE DEF z
  <2> QED BY <1>2, <2>2, <2>4, <2>5 DEF Repaired, Valid
<1>7. Repaired(wk, t, c)
  BY <1>1, <1>5, <1>6 DEF Outcome, C
<1> QED BY <1>7 DEF t

LEMMA PromotedRepairs ==
    ASSUME NEW wk, NEW s, Tidy(s), Clock, NEW c \in Scopes, NEW x, Probe(s, c) = NoItem,
           x = NoItem \/ ~Valid(wk, s, x)
    PROVE  Repaired(wk, Promoted(wk, s, c, x), c)
<1> DEFINE t == Cleared(wk, s, c)
           u == PromotedFrom(wk, t, c, x)
<1>1. Promoted(wk, s, c, x) = IF s.cd[c].exists THEN u ELSE s
  BY DEF Promoted
<1>2. t = Unowned(s, c)
  BY DEF Cleared, Valid
<1>3. Calm(wk, s, t, NoItem) /\ t.ep = s.ep /\ Probe(t, c) = NoItem
  BY <1>2, ClearedCalm, UnownedIs DEF Tidy, Probe
<1> HIDE DEF t
<1>4. Repaired(wk, u, c)
  BY <1>3, PromotedFromRepairs DEF Calm, Valid
<1> HIDE DEF u
<1> QED BY <1>1, <1>4 DEF Repaired

LEMMA RequeuedCalm ==
    ASSUME NEW wk, NEW s, Tidy(s), NEW c \in Scopes, NEW w
    PROVE  LET t == Requeued(s, c)
           IN  Calm(wk, s, t, w) /\ t.ep = s.ep /\ t.cd = s.cd
<1> DEFINE t == Requeued(s, c)
<1>1. Sound(t)
  BY RequeuedSound DEF Tidy
<1>2. t.ep = s.ep /\ t.cd = s.cd
  BY DEF Requeued, Tidy, Sound, Databases
<1> HIDE DEF t
<1>3. Calm(wk, s, t, w) /\ t.ep = s.ep /\ t.cd = s.cd
  BY <1>1, <1>2, JobsCalm
<1> QED BY <1>3 DEF t

\* The repair sets no deadline of a scope that is to come.
SameDue(s, t, c) == t.cd[c].at > now => t.cd[c].at = s.cd[c].at

LEMMA ChosenDue ==
    ASSUME NEW s, NEW t, Sound(t), NEW c \in Scopes, NEW x, NEW u, u = Chosen(s, t, c, x)
    PROVE  u.cd[c].at = NextDue(s, c)
<1>1. PICK d : d = NextDue(s, c)
  OBVIOUS
<1>2. PICK t1 : t1 = [t EXCEPT !.cd[c].at = d, !.cd[c].probe = x]
  OBVIOUS
<1>3. t \in Databases /\ t.cd[c] \in Cooldowns /\ t.cd \in [Scopes -> Cooldowns]
  BY DEF Sound, Databases
<1>4. t1.cd[c].at = d
  BY <1>2, <1>3 DEF Databases, Cooldowns
<1>5. t1 = [ep |-> t1.ep, cd |-> t1.cd, jobs |-> t1.jobs]
  BY <1>2, <1>3 DEF Databases
<1>6. u = Rescheduled(t1, {x}, [v \in {x} |-> d])
  BY <1>1, <1>2 DEF Chosen
<1>7. u.cd = t1.cd
  BY <1>5, <1>6 DEF Rescheduled
<1> QED BY <1>1, <1>4, <1>7

LEMMA PromotedFromDue ==
    ASSUME NEW wk, NEW s, Tidy(s), Clock, NEW c \in Scopes, NEW x
    PROVE  SameDue(s, PromotedFrom(wk, s, c, x), c)
<1> DEFINE t == PromotedFrom(wk, s, c, x)
           C == Candidates(wk, s, c, x)
<1>1. Outcome(wk, s, t, c, x) /\ Sound(s)
  BY PromotedFromIs DEF Tidy
<1>2. C \subseteq WaitingIn(s, c) /\ \A v \in C : v \in Items
  BY DEF Candidates, WaitingIn, OpenIn
<1> HIDE DEF t, C
<1>3. ASSUME NEW W \in SUBSET C
      PROVE  LET u == OutOfTime(s, c, W)
             IN  /\ Calm(wk, s, u, NoItem) /\ u.cd = s.cd
                 /\ \A v \in Items \ W : u.ep[v] = s.ep[v]
  <2>1. W \in SUBSET WaitingIn(s, c)
    BY <1>2
  <2> QED BY <2>1, OutOfTimeCalm
<1>4. ASSUME t = DeletedIfIdle(OutOfTime(s, c, C), c) PROVE SameDue(s, t, c)
  <2> DEFINE u == OutOfTime(s, c, C)
  <2>1. Sound(u) /\ u.cd = s.cd
    BY <1>3 DEF Calm, Tidy
  <2> HIDE DEF u
  <2>2. t = u \/ t = Deleted(u, c)
    BY <1>4 DEF DeletedIfIdle, u
  <2>3. Deleted(u, c).cd[c] = NoCooldown
    BY <2>1, DeletedIs
  <2>4. ~(NoCooldown.at > now)
    BY DEF NoCooldown, Null, Clock, Times
  <2> QED BY <2>1, <2>2, <2>3, <2>4 DEF SameDue
<1>5. ASSUME NEW next \in C, NEW lost \in SUBSET C, next \notin lost, Probe(s, c) \in {NoItem, x},
             ~TooLong(s.ep[next].started, NextDue(s, c)),
             t = Chosen(s, OutOfTime(s, c, lost), c, next)
      PROVE  SameDue(s, t, c)
  <2> DEFINE u == OutOfTime(s, c, lost)
             z == Chosen(s, u, c, next)
  <2>1. Calm(wk, s, u, NoItem) /\ u.cd = s.cd
    BY <1>3, <1>5
  <2> HIDE DEF u
  <2>2. Sound(u)
    BY <2>1 DEF Calm, Tidy
  <2>3. z.cd[c].at = NextDue(s, c)
    BY <2>2, ChosenDue
  <2>4. t = z
    BY <1>5 DEF u
  <2> HIDE DEF z
  <2>5. NextDue(s, c) \in {now, s.cd[c].at}
    BY DEF NextDue, Latest
  <2> QED BY <2>3, <2>4, <2>5 DEF SameDue, Clock, Times
<1>6. t = s => SameDue(s, t, c)
  BY DEF SameDue
<1> QED BY <1>1, <1>4, <1>5, <1>6 DEF Outcome, C, t

LEMMA PromotedDue ==
    ASSUME NEW wk, NEW s, Tidy(s), Clock, NEW c \in Scopes, NEW x
    PROVE  SameDue(s, Promoted(wk, s, c, x), c)
<1> DEFINE t == Cleared(wk, s, c)
           u == PromotedFrom(wk, t, c, x)
<1>1. Promoted(wk, s, c, x) = IF s.cd[c].exists THEN u ELSE s
  BY DEF Promoted
<1>2. Tidy(t) /\ t.cd[c].at = s.cd[c].at
  BY ClearedCalm, UnownedIs DEF Cleared, Calm, Tidy
<1> HIDE DEF t
<1>3. SameDue(t, u, c)
  BY <1>2, PromotedFromDue
<1> HIDE DEF u
<1> QED BY <1>1, <1>2, <1>3 DEF SameDue

LEMMA ReconciledDue ==
    ASSUME NEW wk, NEW s, Tidy(s), Clock, NEW c \in Scopes, \A w \in Items : Fits(wk[w], s, w)
    PROVE  SameDue(s, ReconciledScope(wk, s, c), c)
<1> DEFINE p  == Probe(s, c)
           at == Latest(now, s.cd[c].at)
           e  == s.ep[p]
           t1 == [s EXCEPT !.ep[p] = [e EXCEPT !.status = "scheduled", !.at = at, !.gen = e.gen + 1],
                           !.jobs = @ \union {Wake(s, p, e.gen + 1, at)}]
           t2 == Promoted(wk, s, c, NoItem)
           t3 == Promoted(wk, Unowned(s, c), c, p)
           t  == IF p = NoItem THEN t2
                 ELSE IF Stuck(wk, s, p) THEN t1
                 ELSE IF ~Valid(wk, s, p) THEN t3
                 ELSE s
<1>1. ReconciledScope(wk, s, c) = Requeued(t, c)
  <2> HIDE DEF t1, t2, t3
  <2> QED BY DEF ReconciledScope, t1, t2, t3
<1>2. t1.cd = s.cd /\ Requeued(t, c).cd \in {t.cd, [t EXCEPT !.jobs = {}].cd}
  BY DEF Tidy, Sound, Databases, Requeued
<1>3. SameDue(s, t2, c)
  BY PromotedDue
<1>4. ASSUME p # NoItem, ~Valid(wk, s, p) PROVE SameDue(s, t3, c)
  <2> DEFINE u == Unowned(s, c)
  <2>1. Calm(wk, s, u, NoItem) /\ u.cd[c].at = s.cd[c].at
    BY <1>4, UnownedCalm, UnownedIs DEF Tidy
  <2> HIDE DEF u
  <2>2. SameDue(u, Promoted(wk, u, c, p), c)
    BY <2>1, PromotedDue DEF Calm
  <2> QED BY <2>1, <2>2 DEF SameDue, u
<1> QED BY <1>1, <1>2, <1>3, <1>4 DEF SameDue

\* An interrupted probe waits again, for the deadline of its scope.
RestartedAt(s, c) == InPlace(s, Probe(s, c), "scheduled", Latest(now, s.cd[c].at),
                             s.ep[Probe(s, c)].gen + 1)

LEMMA RestartedFair ==
    ASSUME NEW wk, NEW s, Tidy(s), Clock, NEW c \in Scopes, Probe(s, c) # NoItem,
           Stuck(wk, s, Probe(s, c)), Fits(wk[Probe(s, c)], s, Probe(s, c))
    PROVE  LET t == [RestartedAt(s, c) EXCEPT
                        !.jobs = @ \union {Wake(s, Probe(s, c), s.ep[Probe(s, c)].gen + 1,
                                                Latest(now, s.cd[c].at))}]
           IN  /\ Fair(wk, s, t, Probe(s, c)) /\ t.ep[Probe(s, c)].status = "scheduled"
               /\ Local(s, t, c) /\ Repaired(wk, t, c)
<1> DEFINE p   == Probe(s, c)
           at  == Latest(now, s.cd[c].at)
           gen == s.ep[p].gen + 1
           t0  == RestartedAt(s, c)
           t   == [t0 EXCEPT !.jobs = @ \union {Wake(s, p, gen, at)}]
<1>1. Sound(s) /\ s \in Databases /\ p \in Items /\ s.ep[p].scope = c /\ p # NoItem
  BY DEF Tidy, Sound, Databases, Cooldowns, Probe, Inside
<1>2. /\ at \in Times /\ at \in Stamps /\ at # Null /\ gen \in Nat
      /\ s.cd[c].at > now => at >= s.cd[c].at
  <2>1. now \in Times /\ now \in Stamps /\ s.cd[c].at \in Stamps /\ s.ep[p].gen \in Nat
    BY <1>1 DEF Clock, Stamps, Databases, Cooldowns, Episodes
  <2>2. at \in Times /\ at # Null
    BY <2>1, LatestTime
  <2>3. s.cd[c].at > now => at >= s.cd[c].at
    BY <2>1 DEF Latest, Times, Stamps, Null
  <2> HIDE DEF at, p
  <2> QED BY <2>1, <2>2, <2>3 DEF Stamps
<1>3. t0 = InPlace(s, p, "scheduled", at, gen)
  BY DEF RestartedAt
<1> HIDE DEF at, gen
<1>4. Showable(s, p, "scheduled", at)
  BY <1>1, <1>2 DEF Showable
<1>5. "scheduled" \in Statuses
  BY DEF Statuses
<1> DEFINE i == InPlace(s, p, "scheduled", at, gen)
<1> HIDE DEF p
<1>6. /\ Fair(wk, s, i, p) /\ i.cd = s.cd
      /\ i.ep[p].status = "scheduled" /\ i.ep[p].scope = s.ep[p].scope
  <2>1. Tidy(s) /\ p \in Items /\ at \in Stamps /\ gen \in Nat
    BY <1>1, <1>2
  <2> QED BY ONLY <2>1, <1>4, <1>5, InPlaceFair
<1>7. \A v \in Items \ {p} : i.ep[v] = s.ep[v]
  BY <1>1 DEF InPlace, Databases
<1> HIDE DEF i, t0
<1>8. Tidy(t0) /\ Sound(t0)
  BY <1>3, <1>6 DEF Fair, Tidy, i
<1>9. Sound(t) /\ t.ep = t0.ep /\ t.cd = t0.cd
  <2>1. Sound(t)
    BY <1>1, <1>2, <1>8, WakeAdded DEF Safe
  <2>2. t.ep = t0.ep /\ t.cd = t0.cd
    BY <1>8 DEF Sound, Databases
  <2> QED BY <2>1, <2>2
<1> HIDE DEF t
<1>10. Calm(wk, t0, t, p)
  BY <1>8, <1>9, JobsCalm
<1>11. Fair(wk, s, t, p)
  <2>1. Fair(wk, s, t0, p)
    BY <1>3, <1>6 DEF i
  <2> QED BY <2>1, <1>10, FairThenCalm
<1>12. /\ t.cd = s.cd /\ t.ep[p].status = "scheduled" /\ t.ep[p].scope = c
       /\ \A v \in Items \ {p} : t.ep[v] = s.ep[v]
  BY <1>1, <1>3, <1>6, <1>7, <1>9 DEF i
<1>13. Local(s, t, c)
  BY <1>1, <1>12 DEF Local
<1>14. Repaired(wk, t, c)
  <2>1. Probe(t, c) = p
    BY <1>12 DEF Probe, p
  <2>2. ~wk[p].paused /\ ~wk[p].held /\ ~wk[p].over
    BY DEF Stuck, Fits, Open, p
  <2> QED BY <1>1, <1>12, <2>1, <2>2 DEF Repaired, Valid
<1> QED BY <1>11, <1>12, <1>13, <1>14 DEF t, t0, p, at, gen

\* What the repair of the scope c does.
LEMMA ReconciledIs ==
    ASSUME NEW wk, NEW s, Tidy(s), Clock, NEW c \in Scopes, \A w \in Items : Fits(wk[w], s, w)
    PROVE  LET t == ReconciledScope(wk, s, c)
           IN  /\ Local(s, t, c) /\ Repaired(wk, t, c)
               /\ \/ Calm(wk, s, t, NoItem)
                  \/ \E p \in Items : Fair(wk, s, t, p) /\ t.ep[p].status = "scheduled" /\ Stuck(wk, s, p)
<1> DEFINE p  == Probe(s, c)
           at == Latest(now, s.cd[c].at)
           e  == s.ep[p]
           t1 == [RestartedAt(s, c) EXCEPT !.jobs = @ \union {Wake(s, p, e.gen + 1, at)}]
           t2 == Promoted(wk, s, c, NoItem)
           t3 == Promoted(wk, Unowned(s, c), c, p)
           t  == IF p = NoItem THEN t2
                 ELSE IF Stuck(wk, s, p) THEN t1
                 ELSE IF ~Valid(wk, s, p) THEN t3
                 ELSE s
           Good(u) ==
              /\ Local(s, u, c) /\ Repaired(wk, u, c) /\ Tidy(u)
              /\ \/ Calm(wk, s, u, NoItem)
                 \/ \E v \in Items : Fair(wk, s, u, v) /\ u.ep[v].status = "scheduled" /\ Stuck(wk, s, v)
<1>1. Sound(s) /\ s \in Databases /\ p \in Items \union {NoItem}
  BY DEF Tidy, Sound, Databases, Cooldowns, Probe
<1>2. ReconciledScope(wk, s, c) = Requeued(t, c)
  <2>1. t1 = [s EXCEPT !.ep[p] = [e EXCEPT !.status = "scheduled", !.at = at, !.gen = e.gen + 1],
                       !.jobs = @ \union {Wake(s, p, e.gen + 1, at)}]
    BY <1>1 DEF RestartedAt, InPlace, Databases, Moved
  <2> HIDE DEF t1
  <2> QED BY <2>1 DEF ReconciledScope
<1>3. ASSUME p = NoItem PROVE Good(t2)
  <2>1. Calm(wk, s, t2, NoItem) /\ Local(s, t2, c)
    BY <1>3, PromotedCalm
  <2>2. Repaired(wk, t2, c)
    BY <1>3, PromotedRepairs
  <2> HIDE DEF t2
  <2> QED BY <2>1, <2>2 DEF Calm
<1>4. ASSUME p # NoItem, Stuck(wk, s, p) PROVE Good(t1)
  <2>1. p \in Items /\ Fits(wk[p], s, p)
    BY <1>1, <1>4
  <2>2. /\ Fair(wk, s, t1, p) /\ t1.ep[p].status = "scheduled"
        /\ Local(s, t1, c) /\ Repaired(wk, t1, c)
    BY <1>4, <2>1, RestartedFair
  <2> HIDE DEF t1
  <2> QED BY <1>4, <2>1, <2>2 DEF Fair
<1>5. ASSUME p # NoItem, ~Valid(wk, s, p) PROVE Good(t3)
  <2> DEFINE u == Unowned(s, c)
  <2>1. Calm(wk, s, u, NoItem) /\ Local(s, u, c) /\ u.ep = s.ep /\ Probe(u, c) = NoItem
    BY <1>1, <1>5, UnownedCalm, UnownedLocal, UnownedIs DEF Probe
  <2> HIDE DEF u
  <2>2. Tidy(u) /\ ~Valid(wk, u, p)
    BY <1>5, <2>1 DEF Calm, Valid
  <2> HIDE DEF p
  <2> DEFINE z == Promoted(wk, u, c, p)
  <2>3. Calm(wk, u, z, NoItem) /\ Local(u, z, c)
    BY <2>1, <2>2, PromotedCalm
  <2>4. Repaired(wk, z, c)
    BY <2>1, <2>2, PromotedRepairs
  <2>5. t3 = z
    BY DEF u
  <2> HIDE DEF z, t3
  <2>6. Calm(wk, s, z, NoItem) /\ Local(s, z, c) /\ Tidy(z)
    BY <2>1, <2>3, CalmTransitive, LocalTransitive DEF Calm
  <2> QED BY <2>4, <2>5, <2>6
<1>6. ASSUME p # NoItem, Valid(wk, s, p) PROVE Good(s)
  <2>1. Calm(wk, s, s, NoItem) /\ Local(s, s, c)
    BY CalmReflexive, LocalReflexive
  <2>2. Repaired(wk, s, c)
    BY <1>6 DEF Repaired
  <2> QED BY <2>1, <2>2
<1> HIDE DEF t1, t2, t3
<1>7. Good(t)
  <2> HIDE DEF Good, p
  <2> QED BY <1>3, <1>4, <1>5, <1>6
<1> HIDE DEF t
<1> DEFINE z == Requeued(t, c)
<1>8. Sound(t) /\ z.ep = t.ep /\ z.cd = t.cd /\ \A v : Calm(wk, t, z, v)
  BY <1>7, RequeuedCalm DEF Tidy
<1> HIDE DEF z
<1>9. Local(s, z, c)
  BY <1>7, <1>8 DEF Local
<1>10. Repaired(wk, z, c)
  BY <1>7, <1>8 DEF Repaired, WaitingIn, OpenIn, Valid, Probe
<1>11. \/ Calm(wk, s, z, NoItem)
       \/ \E v \in Items : Fair(wk, s, z, v) /\ z.ep[v].status = "scheduled" /\ Stuck(wk, s, v)
  <2>1. CASE Calm(wk, s, t, NoItem)
    BY <2>1, <1>8, CalmTransitive
  <2>2. ASSUME NEW v \in Items, Fair(wk, s, t, v), t.ep[v].status = "scheduled", Stuck(wk, s, v)
        PROVE  Fair(wk, s, z, v) /\ z.ep[v].status = "scheduled" /\ Stuck(wk, s, v)
    BY <2>2, <1>8, FairThenCalm
  <2> QED BY <1>7, <2>1, <2>2
<1> QED BY <1>2, <1>9, <1>10, <1>11 DEF z

-----------------------------------------------------------------------------
(* The inductive invariant. *)

LEMMA ReconciledProper ==
    ASSUME Clock, NEW wk, NEW s, NEW a \in SUBSET Items, Proper(wk, s, a), NEW c \in Scopes,
           NEW t, t = ReconciledScope(wk, s, c)
    PROVE  Proper(wk, t, a) /\ Local(s, t, c) /\ Repaired(wk, t, c) /\ SameDue(s, t, c)
<1>1. Tidy(s) /\ \A w \in Items : Fits(wk[w], s, w)
  BY DEF Proper
<1>2. /\ Local(s, t, c) /\ Repaired(wk, t, c) /\ SameDue(s, t, c)
      /\ \/ Calm(wk, s, t, NoItem)
         \/ \E p \in Items : Fair(wk, s, t, p) /\ t.ep[p].status = "scheduled" /\ Stuck(wk, s, p)
  <2> DEFINE u == ReconciledScope(wk, s, c)
  <2>1. /\ Local(s, u, c) /\ Repaired(wk, u, c) /\ SameDue(s, u, c)
        /\ \/ Calm(wk, s, u, NoItem)
           \/ \E p \in Items : Fair(wk, s, u, p) /\ u.ep[p].status = "scheduled" /\ Stuck(wk, s, p)
    BY <1>1, ReconciledIs, ReconciledDue
  <2>2. t = u
    OBVIOUS
  <2> HIDE DEF u
  <2> QED BY <2>1, <2>2
<1>3. ASSUME NEW p, Fair(wk, s, t, p), p \in Items => Fits(wk[p], t, p), p \in a => Holds(wk[p], t, p)
      PROVE  Proper(wk, t, a)
  <2>1. /\ Proper(wk, s, a) /\ a \in SUBSET Items /\ a \subseteq a \union {p}
        /\ \A v \in Items \ {p} : wk[v] = wk[v]
    OBVIOUS
  <2> QED BY ONLY <1>3, <2>1, OwnStep
<1>4. CASE Calm(wk, s, t, NoItem)
  <2>1. NoItem \notin Items /\ NoItem \notin a
    BY Constants
  <2>2. Fair(wk, s, t, NoItem)
    BY <1>4, CalmFair
  <2> QED BY <1>2, <1>3, <2>1, <2>2
<1>5. ASSUME NEW p \in Items, Fair(wk, s, t, p), t.ep[p].status = "scheduled", Stuck(wk, s, p)
      PROVE  Proper(wk, t, a)
  <2>1. Fits(wk[p], s, p) /\ Open(s.ep[p]) /\ ~wk[p].paused
    BY <1>1, <1>5 DEF Stuck, Open
  <2>2. Fits(wk[p], t, p)
    BY <2>1 DEF Fits
  <2>3. Holds(wk[p], t, p)
    BY <1>5 DEF Holds
  <2> QED BY <1>3, <1>5, <2>2, <2>3
<1> QED BY <1>2, <1>4, <1>5

LEMMA ReconcileProper ==
    ASSUME IInv, Proper(work, db, auto), NEW c \in Scopes, Reconcile(c)
    PROVE  Proper(work', db', auto') /\ Local(db, db', c) /\ Repaired(work', db', c)
<1>1. db' = ReconciledScope(work, db, c) /\ work' = work /\ auto' = auto
  BY DEF Reconcile
<1>2. Clock /\ auto \in SUBSET Items
  BY DEF IInv, Types
<1> QED BY <1>1, <1>2, ReconciledProper

\* What a crash leaves of the turn of one cooldown.
LEMMA UnsentProper ==
    ASSUME Clock, NEW wk, NEW s, NEW a \in SUBSET Items, Proper(wk, s, a), NEW c \in Scopes,
           NEW t, t = Unsent(s, ReconciledScope(wk, s, c))
    PROVE  Proper(wk, t, a) /\ Local(s, t, c) /\ SameDue(s, t, c)
<1> DEFINE r == ReconciledScope(wk, s, c)
<1>1. Proper(wk, r, a) /\ Local(s, r, c) /\ SameDue(s, r, c)
  BY ReconciledProper
<1>2. Sound(s) /\ Sound(r)
  BY <1>1 DEF Proper, Tidy
<1> HIDE DEF r
<1>3. Sound(t) /\ t.ep = r.ep /\ t.cd = r.cd
  BY <1>2, UnsentSound DEF r
<1>4. Proper(wk, t, a)
  BY <1>1, <1>3, JobsProper
<1> QED BY <1>1, <1>3, <1>4 DEF Local, SameDue

LEMMA WeededProper ==
    ASSUME Clock, NEW wk, NEW s, NEW a \in SUBSET Items, Proper(wk, s, a), NEW c \in Scopes,
           NEW t \in Weeded(wk, s, c)
    PROVE  Proper(wk, t, a)
<1> DEFINE at == Latest(now, s.cd[c].at)
           u  == Unowned(s, c)
<1>1. Tidy(s) /\ Sound(s)
  BY DEF Proper, Tidy
<1>2. ~Valid(wk, s, Probe(s, c))
  BY <1>1, WeededRows
<1>3. PICK L \in SUBSET {v \in WaitingIn(s, c) : TooLong(s.ep[v].started, at)} :
         t = Rescheduled(u, L, [v \in L |-> at])
  BY <1>1, WeededRows
<1>4. Calm(wk, s, u, NoItem) /\ u.ep = s.ep /\ u.cd[c].at = s.cd[c].at
  BY <1>1, <1>2, UnownedCalm, UnownedIs
<1>5. t = OutOfTime(u, c, L)
  <2>1. at = NextDue(u, c)
    BY <1>4 DEF NextDue
  <2> QED BY <1>3, <2>1 DEF OutOfTime
<1>6. L \in SUBSET WaitingIn(u, c)
  BY <1>3, <1>4 DEF WaitingIn, OpenIn
<1> HIDE DEF u, at
<1>7. Calm(wk, u, t, NoItem)
  BY <1>4, <1>5, <1>6, OutOfTimeCalm DEF Calm
<1>8. Fair(wk, s, t, NoItem)
  BY <1>4, <1>7, CalmTransitive, CalmFair
<1>9. NoItem \notin Items /\ NoItem \notin a
  BY Constants
<1>10. /\ Proper(wk, s, a) /\ a \in SUBSET Items /\ a \subseteq a \union {NoItem}
       /\ \A v \in Items \ {NoItem} : wk[v] = wk[v]
  OBVIOUS
<1> QED BY ONLY <1>8, <1>9, <1>10, OwnStep

LEMMA LeaseOnlyProper ==
    ASSUME Clock, NEW wk, NEW s, NEW a \in SUBSET Items, Proper(wk, s, a), NEW c \in Scopes,
           NEW t, Proper(wk, t, a), Local(s, t, c), SameDue(s, t, c), NEW u \in LeaseOnly(s, t, c)
    PROVE  Proper(wk, u, a)
<1>1. PICK p : p = Probe(t, c)
  OBVIOUS
<1>2. PICK e : e = s.ep[p]
  OBVIOUS
<1>3. Tidy(s) /\ Sound(s) /\ Tidy(t) /\ Sound(t)
  BY DEF Proper, Tidy
<1>4. p \in Items /\ p # NoItem
  BY <1>1, <1>3 DEF LeaseOnly, Sound, Databases, Cooldowns, Probe
<1>5. t.ep[p].scope = c /\ e.scope = c
  <2>1. t.ep[p].scope = c
    BY <1>1, <1>3, <1>4 DEF Sound, Inside, Probe
  <2> QED BY <1>2, <1>4, <2>1, Constants DEF Local
<1>6. u = [t EXCEPT !.ep[p] = Moved(t.ep[p], e.status, e.at, e.gen)]
  <2>1. u = [t EXCEPT !.ep[p].status = e.status, !.ep[p].at = e.at, !.ep[p].gen = e.gen]
    BY <1>1, <1>2 DEF LeaseOnly
  <2> QED BY <1>3, <1>4, <2>1 DEF Moved, Sound, Databases
<1>7. /\ e.status \in Statuses /\ e.at \in Stamps /\ e.gen \in Nat
      /\ e.status = "scheduled" <=> e.at # Null
  BY <1>2, <1>3, <1>4 DEF Sound, Databases, Episodes, Statuses, Dated
<1>8. e.status = "scheduled" => p \in Gated \/
           \A d \in Scopes : t.ep[p].scope = d /\ t.cd[d].at > now => e.at >= t.cd[d].at
  <2> SUFFICES ASSUME e.status = "scheduled", p \notin Gated, NEW d \in Scopes,
                      t.ep[p].scope = d, t.cd[d].at > now
               PROVE  e.at >= t.cd[d].at
    OBVIOUS
  <2>1. d = c /\ s.cd[c].at > now /\ t.cd[c].at = s.cd[c].at
    BY <1>5 DEF SameDue
  <2> QED BY <2>1, <1>2, <1>3, <1>4, <1>5 DEF Tidy, Aligned
<1>9. /\ Fair(wk, t, u, p) /\ u.cd = t.cd
      /\ u.ep[p].status = e.status /\ u.ep[p].scope = t.ep[p].scope
  <2>1. PICK status : status = e.status
    OBVIOUS
  <2>2. PICK at : at = e.at
    OBVIOUS
  <2>3. PICK gen : gen = e.gen
    OBVIOUS
  <2>4. /\ status \in Statuses /\ at \in Stamps /\ gen \in Nat /\ (status = "scheduled" <=> at # Null)
        /\ u = [t EXCEPT !.ep[p] = Moved(t.ep[p], status, at, gen)]
        /\ status = "scheduled" => p \in Gated \/
             \A d \in Scopes : t.ep[p].scope = d /\ t.cd[d].at > now => at >= t.cd[d].at
    BY <1>6, <1>7, <1>8, <2>1, <2>2, <2>3
  <2>5. Showable(t, p, status, at)
    BY <2>4 DEF Showable
  <2> DEFINE i == InPlace(t, p, status, at, gen)
  <2>6. /\ Fair(wk, t, i, p) /\ i.cd = t.cd
        /\ i.ep[p].status = status /\ i.ep[p].scope = t.ep[p].scope
    BY ONLY <1>3, <1>4, <2>4, <2>5, InPlaceFair
  <2>7. u = i
    BY <2>4 DEF InPlace
  <2> HIDE DEF i
  <2> QED BY ONLY <2>1, <2>6, <2>7
<1>10. Fits(wk[p], s, p) /\ (p \in a => Holds(wk[p], s, p))
  BY <1>4 DEF Proper
<1>11. Fits(wk[p], u, p)
  BY <1>2, <1>9, <1>10 DEF Fits, Open
<1>12. p \in a => Holds(wk[p], u, p)
  BY <1>1, <1>2, <1>5, <1>9, <1>10 DEF Holds, Leased, Probe
<1>13. /\ Proper(wk, t, a) /\ a \in SUBSET Items /\ a \subseteq a \union {p}
       /\ \A v \in Items \ {p} : wk[v] = wk[v]
  OBVIOUS
<1> QED BY ONLY <1>9, <1>11, <1>12, <1>13, OwnStep

LEMMA CrashReconcileProper ==
    ASSUME IInv, Proper(work, db, auto), CrashReconcile PROVE Proper(work', db', auto')
<1>1. Clock /\ auto \in SUBSET Items /\ todo \subseteq Scopes
  BY DEF IInv, Types
<1>2. work' = work /\ auto' = auto /\ (db' = db \/ \E c \in todo : db' \in Torn(work, db, c))
  BY DEF CrashReconcile
<1>3. ASSUME NEW c \in Scopes, db' \in Torn(work, db, c) PROVE Proper(work, db', auto)
  <2>1. PICK t : t = Unsent(db, ReconciledScope(work, db, c))
    OBVIOUS
  <2>2. Proper(work, t, auto) /\ Local(db, t, c) /\ SameDue(db, t, c)
    BY <1>1, <2>1, UnsentProper
  <2>3. db' = t \/ db' \in Weeded(work, db, c) \/ db' \in LeaseOnly(db, t, c)
    BY <1>3, <2>1 DEF Torn
  <2>4. CASE db' \in Weeded(work, db, c)
    BY <1>1, <2>4, WeededProper
  <2>5. CASE db' \in LeaseOnly(db, t, c)
    BY <1>1, <2>2, <2>5, LeaseOnlyProper
  <2> QED BY <2>2, <2>3, <2>4, <2>5
<1> QED BY <1>1, <1>2, <1>3

\* The clock, the gate, crashes.
LEMMA IdleProper ==
    ASSUME IInv, Proper(work, db, auto), UNCHANGED <<work, db, auto>>
    PROVE  Proper(work', db', auto')
OBVIOUS

LEMMA ProperStep ==
    ASSUME IInv, Proper(work, db, auto), Next
    PROVE  Proper(work', db', auto')
<1>1. CASE Tick \/ MoveGate \/ Crash
  BY <1>1, IdleProper DEF Tick, MoveGate, Crash
<1>10. CASE CrashReconcile
  BY <1>10, CrashReconcileProper
<1>2. ASSUME NEW w \in Items, NEW c \in Scopes, NEW d \in Delays, NEW f \in Floors,
             FailTransient(w, c, d, f)
      PROVE  Proper(work', db', auto')
  BY <1>2, FailTransientProper
<1>3. ASSUME NEW w \in Items, NEW b \in BOOLEAN,
             Succeed(w) \/ Finish(w) \/ Leave(w, b) \/ FailOther(w) \/ ReleaseHeld(w)
      PROVE  Proper(work', db', auto')
  BY <1>3, SucceedProper, FinishProper, LeaveProper, FailOtherProper, ReleaseHeldProper
<1>4. ASSUME NEW w \in Items, Postpone(w) \/ OrphanInterrupt(w)
      PROVE  Proper(work', db', auto')
  BY <1>4, StoppedProper DEF Postpone, OrphanInterrupt
<1>5. ASSUME NEW w \in Items, WakePostponed(w) \/ Admit(w)
      PROVE  Proper(work', db', auto')
  BY <1>5, WakePostponedProper, AdmitProper
<1>6. ASSUME NEW w \in Items, Pause(w) \/ Start(w) \/ Interrupt(w) \/ Retry(w)
      PROVE  Proper(work', db', auto')
  BY <1>6, PauseProper, StartProper, InterruptProper, RetryProper
<1>7. ASSUME NEW j \in db.jobs, NEW dies \in {"no", "claimed", "handled"},
             Deliver(j, dies) \/ LeaseExpires(j)
      PROVE  Proper(work', db', auto')
  BY <1>7, DeliverProper, LeaseExpiresProper
<1>8. ASSUME NEW stopped \in SUBSET Items, Restart(stopped) PROVE Proper(work', db', auto')
  BY <1>8, RestartProper
<1>9. ASSUME NEW c \in Scopes, Reconcile(c) PROVE Proper(work', db', auto')
  BY <1>9, ReconcileProper
<1> QED BY <1>1, <1>2, <1>3, <1>4, <1>5, <1>6, <1>7, <1>8, <1>9, <1>10 DEF Next

\* A cooldown the repair has come to stays repaired while the worker starts.
Repairing == worker = "starting" => \A c \in Scopes \ todo : Repaired(work, db, c)

\* The work of the repair is done at the moment the worker is up.
Mended == worker = "starting" /\ worker' = "up" => \A c \in Scopes : Repaired(work', db', c)

LEMMA RepairStep ==
    ASSUME IInv, Proper(work, db, auto), Repairing, Next
    PROVE  Repairing' /\ Mended
<1>1. ASSUME NEW c \in Scopes, Reconcile(c) PROVE Repairing' /\ Mended
  <2>1. /\ work' = work /\ todo' = todo \ {c} /\ worker = "starting"
        /\ worker' = IF todo' = {} THEN "up" ELSE "starting"
    BY <1>1 DEF Reconcile
  <2>2. Local(db, db', c) /\ Repaired(work', db', c)
    BY <1>1, ReconcileProper
  <2>3. \A d \in Scopes \ todo' : Repaired(work', db', d)
    <3> SUFFICES ASSUME NEW d \in Scopes \ todo', d # c PROVE Repaired(work', db', d)
      BY <2>2
    <3>1. Repaired(work, db, d)
      BY <2>1 DEF Repairing
    <3> QED BY <2>1, <2>2, <3>1, RepairStays DEF IInv
  <2>4. todo' \subseteq Scopes
    BY <2>1 DEF IInv, Types
  <2> QED BY <2>1, <2>3, <2>4 DEF Repairing, Mended
<1>2. ASSUME NEW stopped \in SUBSET Items, Restart(stopped) PROVE Repairing' /\ Mended
  <2>1. worker = "down" /\ db' = db /\ todo' = {c \in Scopes : db.cd[c].exists}
    BY <1>2 DEF Restart
  <2>2. \A c \in Scopes \ todo' : Repaired(work', db', c)
    BY <2>1 DEF Repaired
  <2> QED BY <2>1, <2>2 DEF Repairing, Mended
<1>3. ASSUME NEW j \in db.jobs, LeaseExpires(j) PROVE Repairing' /\ Mended
  <2>1. worker' = worker /\ todo' = todo /\ work' = work
    BY <1>3 DEF LeaseExpires, Engine
  <2>2. db'.ep = db.ep /\ db'.cd = db.cd
    BY <1>3 DEF LeaseExpires, IInv, Sound, Databases
  <2>3. \A c \in Scopes : Repaired(work, db, c) => Repaired(work', db', c)
    BY <2>1, <2>2 DEF Repaired, WaitingIn, OpenIn, Valid, Probe
  <2> QED BY <2>1, <2>3 DEF Repairing, Mended
<1>4. CASE Tick
  BY <1>4 DEF Tick, Engine, Repairing, Mended, Repaired, WaitingIn, OpenIn, Valid, Probe
<1>5. CASE Serving /\ worker' \in {"up", "down"}
  BY <1>5 DEF Serving, Repairing, Mended
<1>6. CASE CrashReconcile
  BY <1>6 DEF CrashReconcile, Repairing, Mended
<1>7. ASSUME NEW w \in Items, NEW c \in Scopes, NEW d \in Delays, NEW f \in Floors,
             FailTransient(w, c, d, f)
      PROVE  Serving /\ worker' = worker
  BY <1>7 DEF FailTransient, Engine
<1>8. ASSUME NEW w \in Items, NEW b \in BOOLEAN, Succeed(w) \/ Finish(w) \/ Leave(w, b)
      PROVE  Serving /\ worker' = worker
  BY <1>8 DEF Succeed, Finish, Leave, Engine
<1>9. ASSUME NEW w \in Items, \/ FailOther(w) \/ Postpone(w) \/ WakePostponed(w)
                              \/ OrphanInterrupt(w) \/ Admit(w)
      PROVE  Serving /\ worker' = worker
  BY <1>9 DEF FailOther, Postpone, WakePostponed, OrphanInterrupt, Admit, Engine
<1>10. ASSUME NEW w \in Items, \/ ReleaseHeld(w) \/ Pause(w) \/ Start(w) \/ Interrupt(w)
                               \/ Retry(w)
       PROVE  Serving /\ worker' = worker
  BY <1>10 DEF ReleaseHeld, Pause, Start, Interrupt, Retry, Engine
<1>11. ASSUME NEW j \in db.jobs, NEW dies \in {"no", "claimed", "handled"}, Deliver(j, dies)
       PROVE  Serving /\ worker' \in {worker, "down"}
  BY <1>11 DEF Deliver
<1>12. ASSUME MoveGate \/ Crash PROVE Serving /\ worker' \in {worker, "down"}
  BY <1>12 DEF MoveGate, Crash, Engine
<1>13. Serving /\ worker' = worker => Serving /\ worker' \in {"up", "down"}
  BY DEF Serving
<1>14. Serving /\ worker' \in {worker, "down"} => Serving /\ worker' \in {"up", "down"}
  BY DEF Serving
<1> QED BY <1>1, <1>2, <1>3, <1>4, <1>5, <1>6, <1>7, <1>8, <1>9, <1>10, <1>11, <1>12, <1>13, <1>14
        DEF Next

LEMMA ProperInitially == Init => Proper(work, db, auto) /\ Repairing
<1> SUFFICES ASSUME Init PROVE Proper(work, db, auto) /\ Repairing
  OBVIOUS
<1>1. Sound(db)
  BY Initially DEF IInv
<1>2. /\ \A w \in Items : work[w] = NoWork /\ db.ep[w] = NoEpisode
      /\ auto = {} /\ worker = "up"
  BY DEF Init
<1>3. /\ NoEpisode.status = "none" /\ NoEpisode.scope = NoScope
      /\ ~NoWork.held /\ ~NoWork.waiting /\ ~NoWork.over /\ ~NoWork.paused
  BY DEF NoEpisode, NoWork
<1>4. Tidy(db)
  BY <1>1, <1>2, <1>3 DEF Tidy, Aligned, Existing
<1>5. \A w \in Items : Fits(work[w], db, w)
  BY <1>2, <1>3 DEF Fits
<1> QED BY <1>2, <1>4, <1>5 DEF Proper, Repairing

\* What the Work Items of a scope owe each other.
Share == Proper(work, db, auto) /\ Repairing

\* The clock only makes the statement about deadlines weaker.
LEMMA ProperLater ==
    ASSUME IInv, Next, Proper(work', db', auto'), IInv'
    PROVE  Proper(work, db, auto)'
<1>1. now' >= now /\ now \in Nat /\ now' \in Nat
  <2>1. now \in Nat /\ now' \in Nat
    BY DEF IInv, Types, Clock, Times
  <2>2. now' = now \/ now' = now + 1
    <3>1. UNCHANGED World => now' = now
      BY DEF World
    <3>2. CASE Tick
      BY <3>2 DEF Tick
    <3>3. CASE MoveGate
      BY <3>3 DEF MoveGate
    <3>4. ASSUME NEW w \in Items, NEW c \in Scopes, NEW d \in Delays, NEW f \in Floors,
                 FailTransient(w, c, d, f)
          PROVE  UNCHANGED World
      BY <3>4 DEF FailTransient
    <3>5. ASSUME NEW w \in Items, NEW b \in BOOLEAN, Succeed(w) \/ Finish(w) \/ Leave(w, b)
          PROVE  UNCHANGED World
      BY <3>5 DEF Succeed, Finish, Leave
    <3>6. ASSUME NEW w \in Items, \/ FailOther(w) \/ Postpone(w) \/ WakePostponed(w)
                                  \/ OrphanInterrupt(w) \/ Admit(w)
          PROVE  UNCHANGED World
      BY <3>6 DEF FailOther, Postpone, WakePostponed, OrphanInterrupt, Admit
    <3>7. ASSUME NEW w \in Items, \/ ReleaseHeld(w) \/ Pause(w) \/ Start(w) \/ Interrupt(w)
                                  \/ Retry(w)
          PROVE  UNCHANGED World
      BY <3>7 DEF ReleaseHeld, Pause, Start, Interrupt, Retry
    <3>8. ASSUME NEW j \in db.jobs, NEW dies \in {"no", "claimed", "handled"},
                 Deliver(j, dies) \/ LeaseExpires(j)
          PROVE  UNCHANGED World
      BY <3>8 DEF Deliver, LeaseExpires
    <3>9. ASSUME NEW stopped \in SUBSET Items, Restart(stopped) PROVE UNCHANGED World
      BY <3>9 DEF Restart
    <3>10. ASSUME NEW c \in Scopes, Crash \/ CrashReconcile \/ Reconcile(c) PROVE UNCHANGED World
      BY <3>10 DEF Crash, CrashReconcile, Reconcile
    <3>11. ASSUME Crash \/ CrashReconcile PROVE UNCHANGED World
      BY <3>11 DEF Crash, CrashReconcile
    <3> QED BY <3>1, <3>2, <3>3, <3>4, <3>5, <3>6, <3>7, <3>8, <3>9, <3>10, <3>11 DEF Next
  <2> QED BY <2>1, <2>2
<1>2. \A c \in Scopes : db'.cd[c].at \in Nat \union {-1}
  BY DEF IInv, Sound, Databases, Cooldowns, Stamps, Times, Null
<1>3. Aligned(db)'
  BY <1>1, <1>2 DEF Proper, Tidy, Aligned
<1>4. Tidy(db)'
  BY <1>3 DEF Proper, Tidy, Sound, Existing
<1> QED BY <1>4 DEF Proper, Fits, Holds, Leased

LEMMA ShareInductive == Spec => [](IInv /\ Share)
<1>1. Init => IInv /\ Share
  BY Initially, ProperInitially DEF Share
<1>2. IInv /\ Share /\ [Next]_vars => (IInv /\ Share)'
  <2> SUFFICES ASSUME IInv, Share, [Next]_vars PROVE (IInv /\ Share)'
    OBVIOUS
  <2>1. IInv'
    BY Step, Stutter DEF Effect, IInv
  <2>2. CASE Next
    <3>1. Proper(work', db', auto')
      BY <2>2, ProperStep DEF Share
    <3>2. Proper(work, db, auto)'
      BY <2>1, <2>2, <3>1, ProperLater
    <3>3. Repairing'
      BY <2>2, RepairStep DEF Share
    <3> QED BY <2>1, <3>2, <3>3 DEF Share
  <2>3. CASE UNCHANGED vars
    BY <2>1, <2>3 DEF vars, Share, Proper, Tidy, Sound, Aligned, Existing, Fits, Holds, Leased,
                      Repairing, Repaired
  <2> QED BY <2>2, <2>3
<1> QED BY <1>1, <1>2, PTL DEF Spec

-----------------------------------------------------------------------------
(* The theorems. *)

\* One recovery attempt at a time: of the Work Items of a scope no two are in
\* an attempt that a wake began, across failures of either, moves between the
\* scopes, pauses, manual retries, the CI hold, crashes and the repair.
THEOREM OneAttempt == Spec => []SoleProbe
<1>1. IInv /\ Share => SoleProbe
  <2> SUFFICES ASSUME IInv, Share, NEW v \in auto, NEW w \in auto, v # w,
                      db.ep[v].status = "in_attempt", db.ep[w].status = "in_attempt",
                      db.ep[v].scope = db.ep[w].scope, db.ep[v].scope # NoScope,
                      Attempting(v), Attempting(w)
               PROVE  FALSE
    BY DEF SoleProbe
  <2>1. v \in Items /\ w \in Items
    BY DEF IInv, Types
  <2>2. ~work[v].held /\ ~work[w].held
    BY <2>1 DEF Share, Proper, Fits, Attempting
  <2>3. Leased(db, v) /\ Leased(db, w)
    BY <2>2 DEF Share, Proper, Holds
  <2> QED BY <2>3 DEF Leased
<1> QED BY ShareInductive, <1>1, PTL

\* No Work Item shows a next attempt before the deadline of its scope, however
\* often the failures of others move it.
THEOREM DeadlineNotBefore == Spec => []DeadlineShown
<1>1. IInv /\ Share => DeadlineShown
  BY DEF Share, Proper, Tidy, Aligned, DeadlineShown
<1> QED BY ShareInductive, <1>1, PTL

\* When the worker is up after a restart, every lease is with a Work Item that
\* has a right to it, or nobody waits who could take it: the repair of one
\* cooldown does not undo that of another.
THEOREM RepairComplete == Spec => RepairedAtRestart
<1>1. IInv /\ Share /\ [Next]_vars =>
         [worker = "starting" /\ worker' = "up" =>
          \A c \in Scopes : db'.cd[c].exists =>
             IF Probe(db', c) = NoItem
             THEN \A w \in WaitingIn(db', c) : ~Valid(work', db', w)
             ELSE Valid(work', db', Probe(db', c))]_vars
  BY RepairStep DEF Share, Mended, Repaired
<1> QED BY ShareInductive, <1>1, PTL DEF Spec, RepairedAtRestart
=============================================================================
