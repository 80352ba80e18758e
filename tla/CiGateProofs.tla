----------------------------- MODULE CiGateProofs -----------------------------
(***************************************************************************)
(* Proofs about the CI gate, for any definitions, branches, observers and  *)
(* Work Items, any runs of the forge and any plan: the tables and the      *)
(* observers' programs keep their types; and, by one invariant each, the   *)
(* incident follows the gate, an opened gate holds nobody it held, a new   *)
(* failure is repaired, an older page yields to the newest one, and what   *)
(* is called complete has been read.                                       *)
(***************************************************************************)
EXTENDS CiGate, FiniteSetTheorems, WellFoundedInduction, TLAPS

-----------------------------------------------------------------------------
(* Numbers and finite sets. *)

LEMMA LeastNatural ==
    ASSUME NEW S, S \subseteq Nat, S # {}
    PROVE  \E m \in S : \A n \in S : m <= n
<1> DEFINE Less == {p \in Nat \X Nat : p[1] < p[2]}
<1>1. IsWellFoundedOn(Less, Nat)
  BY NatLessThanWellFounded DEF OpToRel
<1>2. \A a, b \in S : <<b, a>> \in Less <=> b < a
  OBVIOUS
<1> HIDE DEF Less
<1>3. PICK m \in S : \A n \in S : ~(<<n, m>> \in Less)
  BY <1>1, WFMin
<1>4. \A n \in S : m <= n
  <2> TAKE n \in S
  <2>1. m \in Nat /\ n \in Nat /\ ~(n < m)
    BY <1>2, <1>3
  <2> QED BY <2>1
<1> QED BY <1>3, <1>4

LEMMA MinOf ==
    ASSUME NEW S, S \subseteq Nat, S # {}
    PROVE  Min(S) \in S /\ \A n \in S : Min(S) <= n
BY LeastNatural DEF Min

\* The first k values of f are bounded by b.
Under(f, k, b) == \A i \in 1..k : f[i] <= b

LEMMA Bounded ==
    ASSUME NEW S, S \subseteq Nat, IsFiniteSet(S)
    PROVE  \E b \in Nat : \A x \in S : x <= b
<1>1. PICK n \in Nat : ExistsBijection(1..n, S)
  BY FS_NatBijection
<1>2. PICK f \in [1..n -> S] : \A x \in S : \E i \in 1..n : f[i] = x
  BY <1>1 DEF ExistsBijection, Bijection, Surjection
<1>3. \A i \in 1..n : f[i] \in Nat
  BY <1>2
<1> DEFINE Out == {k \in 0..n : \A b \in Nat : ~Under(f, k, b)}
<1>4. 0 \notin Out
  <2>1. Under(f, 0, 0)
    BY DEF Under
  <2> QED BY <2>1
<1>5. ASSUME NEW k \in 1..n, NEW b \in Nat, Under(f, k - 1, b)
      PROVE  \E c \in Nat : Under(f, k, c)
  <2>1. f[k] \in Nat
    BY <1>3
  <2>2. \A i \in 1..k : i \in 1..n /\ (i = k \/ i \in 1..(k - 1))
    OBVIOUS
  <2>3. PICK c \in Nat : f[k] <= c /\ b <= c
    <3>1. CASE f[k] <= b
      BY <3>1
    <3>2. CASE b < f[k]
      BY <2>1, <3>2
    <3> QED BY <2>1, <3>1, <3>2
  <2>4. \A i \in 1..k : f[i] <= c
    <3> TAKE i \in 1..k
    <3>1. CASE i = k
      BY <2>3, <3>1
    <3>2. CASE i \in 1..(k - 1)
      <4>1. f[i] <= b /\ f[i] \in Nat
        BY <1>3, <1>5, <2>2, <3>2 DEF Under
      <4> QED BY <2>3, <4>1
    <3> QED BY <2>2, <3>1, <3>2
  <2> QED BY <2>3, <2>4 DEF Under
<1>6. Out = {}
  <2> SUFFICES ASSUME Out # {} PROVE FALSE
    OBVIOUS
  <2>1. Out \subseteq Nat
    OBVIOUS
  <2>2. PICK m \in Out : \A k \in Out : m <= k
    <3> HIDE DEF Out
    <3> QED BY <2>1, LeastNatural
  <2>3. m \in 1..n /\ m - 1 \in 0..n /\ ~(m <= m - 1)
    BY <1>4, <2>2
  <2>4. m - 1 \notin Out
    BY <2>2, <2>3
  <2>5. PICK b \in Nat : Under(f, m - 1, b)
    BY <2>3, <2>4
  <2>6. \E c \in Nat : Under(f, m, c)
    BY <1>5, <2>3, <2>5
  <2> QED BY <2>2, <2>6
<1>7. PICK b \in Nat : Under(f, n, b)
  <2>1. n \in 0..n
    OBVIOUS
  <2> QED BY <1>6, <2>1
<1> QED BY <1>2, <1>7 DEF Under

LEMMA MaxOf ==
    ASSUME NEW S, S \subseteq Nat, S # {}, IsFiniteSet(S)
    PROVE  Max(S) \in S /\ \A x \in S : x <= Max(S)
<1>1. PICK b \in Nat : \A x \in S : x <= b
  BY Bounded
<1> DEFINE Gaps == {b - x : x \in S}
<1>2. Gaps \subseteq Nat /\ Gaps # {}
  <2>1. \A x \in S : x \in Nat /\ b - x \in Nat
    BY <1>1
  <2> QED BY <2>1
<1>3. PICK m \in S : \A g \in Gaps : b - m <= g
  BY <1>2, LeastNatural
<1>4. \A x \in S : m >= x
  BY <1>3
<1> QED BY <1>4 DEF Max

LEMMA NewestOf ==
    ASSUME NEW S, S \subseteq Nat, IsFiniteSet(S)
    PROVE  /\ Newest(S) \in Nat
           /\ S # {} => Newest(S) \in S
           /\ \A x \in S : x <= Newest(S)
BY MaxOf DEF Newest, None

LEMMA NewestOfOne ==
    ASSUME NEW n \in Nat
    PROVE  Newest({n}) = n /\ Newest({}) = None
<1>1. IsFiniteSet({n})
  BY FS_Singleton
<1> QED BY <1>1, NewestOf DEF Newest

\* What is computed from the elements of a finite set is finite.
LEMMA FiniteImage ==
    ASSUME NEW S, NEW T, NEW f \in [S -> T], IsFiniteSet(S)
    PROVE  IsFiniteSet({f[x] : x \in S})
<1> DEFINE R == {f[x] : x \in S}
<1>1. f \in Surjection(S, R)
  BY DEF Surjection
<1> HIDE DEF R
<1>2. IsFiniteSet(R)
  BY <1>1, FS_Surjection
<1> QED BY <1>2 DEF R

-----------------------------------------------------------------------------
(* Coverage: the gap lies below what was read of it from above. *)

Keyed == Nat \ {None}

CovRec ==
    [state : {"complete", "gap", "truncated"}, branch : Branches \union {NoBranch}, check : Nat,
     upper : Nat, progress : Nat, stop : Nat, floor : Nat, pending : SUBSET Keyed]

\* A gap has an upper end and a place where reading goes on, and the runs below
\* its upper end are not the newest ones.
Shaped(c) ==
    /\ c.state = "gap" => c.upper # None /\ c.progress # None
    /\ c.floor >= c.upper

Cov == {c \in CovRec : Shaped(c)}

Run == [key : Keyed, status : Statuses]

LEMMA NoCoverageShaped ==
    ASSUME NEW b \in Branches \union {NoBranch}
    PROVE  NoCoverage(b) \in Cov
BY DEF NoCoverage, Cov, CovRec, Shaped, None, Keyed

LEMMA PageKeys ==
    ASSUME NEW page \in SUBSET Run, IsFiniteSet(page)
    PROVE  /\ Keys(page) \subseteq Keyed /\ IsFiniteSet(Keys(page))
           /\ page # {} => Keys(page) # {}
<1> DEFINE f == [r \in page |-> r.key]
<1>1. f \in [page -> Keyed]
  BY DEF Run
<1>2. Keys(page) = {f[r] : r \in page}
  BY DEF Keys
<1> HIDE DEF f
<1>3. IsFiniteSet({f[r] : r \in page})
  BY <1>1, FiniteImage
<1> QED BY <1>2, <1>3 DEF Keys, Run

LEMMA OldestOf ==
    ASSUME NEW page \in SUBSET Run, page # {}
    PROVE  Min(Keys(page)) \in Keys(page) /\ Min(Keys(page)) \in Keyed
<1>1. Keys(page) \subseteq Keyed /\ Keys(page) # {}
  BY DEF Keys, Run
<1> QED BY <1>1, MinOf DEF Keyed

LEMMA MergeTyped ==
    ASSUME NEW pending \in SUBSET Keyed, NEW page \in SUBSET Run
    PROVE  MergePending(pending, page) \in SUBSET Keyed /\ Pending(page) \in SUBSET Keyed
BY DEF MergePending, Pending, Run

LEMMA TruncatedShaped ==
    ASSUME NEW c \in CovRec, NEW b \in Branches \union {NoBranch}
    PROVE  Truncated(c, b) \in Cov
<1> DEFINE n == Truncated(c, b)
<1>1. n \in CovRec /\ n.state = "truncated" /\ n.upper = None /\ n.floor = c.floor
  BY DEF Truncated, CovRec, None
<1> HIDE DEF n
<1>2. n \in Cov
  BY <1>1 DEF Cov, CovRec, Shaped, None
<1> QED BY <1>2 DEF n

\* The newest page never moves the floor of a gap below its upper end.
LEMMA InGapShaped ==
    ASSUME NEW c \in Cov, NEW b \in Branches, NEW oldest \in Keyed, NEW connected \in BOOLEAN,
           NEW merged \in SUBSET Keyed, ~connected => oldest > c.floor
    PROVE  LatestInGap(c, oldest, connected, merged, b) \in Cov
<1>1. c \in CovRec /\ Shaped(c)
  BY DEF Cov
<1> DEFINE n == LatestInGap(c, oldest, connected, merged, b)
<1>2. n \in CovRec /\ n.state = c.state /\ n.upper = c.upper /\ n.progress = c.progress
      /\ n.floor = IF connected THEN c.floor ELSE oldest
  BY <1>1 DEF LatestInGap, CovRec, Keyed
<1>3. c.floor \in Nat /\ c.upper \in Nat /\ oldest \in Nat
  BY <1>1 DEF CovRec, Keyed
<1> HIDE DEF n
<1>4. n.floor >= n.upper
  BY <1>1, <1>2, <1>3 DEF Shaped
<1>5. n \in Cov
  BY <1>1, <1>2, <1>4 DEF Shaped, Cov
<1> QED BY <1>5 DEF n

LEMMA LatestShaped ==
    ASSUME NEW stored \in Cov, NEW b \in Branches, NEW page \in SUBSET Run, IsFiniteSet(page),
           NEW exhausted \in BOOLEAN, NEW baseline \in Nat, NEW irrelevant \in BOOLEAN
    PROVE  ApplyLatest(stored, b, page, exhausted, baseline, irrelevant) \in Cov
<1> DEFINE cov       == IF stored.branch \in {NoBranch, b} THEN stored ELSE NoCoverage(NoBranch)
           keys      == Keys(page)
           oldest    == Min(keys)
           saw       == \E k \in keys : SameRun(k, cov.check)
           connected == cov.floor = None \/ Reached(keys, cov.floor)
           merged    == MergePending(cov.pending, page)
           lost      == [cov EXCEPT !.floor = oldest, !.pending = merged]
           walk      == [state |-> "gap", branch |-> b, check |-> cov.check, upper |-> oldest,
                         progress |-> oldest, stop |-> ChooseStop(cov.check, baseline, irrelevant),
                         floor |-> oldest, pending |-> Pending(page)]
           whole     == [walk EXCEPT !.state = "complete", !.check = oldest, !.upper = None,
                                     !.stop = None]
<1>1. cov \in Cov
  BY NoCoverageShaped
<1> HIDE DEF cov
<1>2. cov \in CovRec /\ Shaped(cov)
  BY <1>1 DEF Cov
<1>3. CASE page = {}
  <2>1. [cov EXCEPT !.branch = b] \in Cov
    BY <1>2 DEF Cov, CovRec, Shaped
  <2>2. Truncated(cov, b) \in Cov
    BY <1>2, TruncatedShaped
  <2> QED BY <1>3, <2>1, <2>2 DEF ApplyLatest, cov
<1>4. CASE page # {}
  <2>1. oldest \in Keyed /\ keys \subseteq Keyed /\ oldest \in keys
    BY <1>4, OldestOf, PageKeys
  <2>2. merged \in SUBSET Keyed /\ Pending(page) \in SUBSET Keyed
    BY <1>2, MergeTyped DEF CovRec
  <2>3. lost \in CovRec
    BY <1>2, <2>1, <2>2 DEF CovRec, Keyed
  <2>4. ChooseStop(cov.check, baseline, irrelevant) \in Nat
    BY <1>2 DEF ChooseStop, CovRec
  <2>5. ~connected => oldest > cov.floor
    <3>1. \A k \in keys : k \in Nat
      BY <2>1 DEF Keyed
    <3>2. cov.floor \in Nat
      BY <1>2 DEF CovRec
    <3> QED BY <2>1, <3>1, <3>2 DEF Reached
  <2> HIDE DEF oldest, merged, keys
  <2>6. walk \in Cov
    BY <1>2, <2>1, <2>2, <2>4 DEF Cov, CovRec, Shaped, Keyed, None
  <2>7. whole \in Cov
    <3>1. whole \in CovRec /\ whole.state = "complete" /\ whole.upper = None
          /\ whole.floor = oldest
      BY <1>2, <2>1, <2>2, <2>4 DEF CovRec, Keyed, None
    <3> HIDE DEF whole
    <3> QED BY <2>1, <3>1 DEF Cov, Shaped, Keyed, None
  <2>8. LatestInGap(cov, oldest, connected, merged, b) \in Cov
    <3>1. connected \in BOOLEAN
      BY DEF Reached
    <3> QED BY ONLY <1>1, <2>1, <2>2, <2>5, <3>1, InGapShaped, b \in Branches
  <2>9. Truncated(lost, b) \in Cov
    BY <2>3, TruncatedShaped
  <2> HIDE DEF walk, whole, lost, connected, saw
  <2> QED BY <1>4, <2>6, <2>7, <2>8, <2>9
          DEF ApplyLatest, cov, keys, oldest, saw, connected, merged, lost, walk, whole
<1> QED BY <1>3, <1>4

LEMMA CatchUpShaped ==
    ASSUME NEW cov \in Cov, NEW page \in SUBSET Run, IsFiniteSet(page), NEW exhausted \in BOOLEAN
    PROVE  ApplyCatchUp(cov, page, exhausted) \in Cov
<1> DEFINE bound   == CatchUpBound(cov)
           keys    == {k \in Keys(page) : k <= bound}
           oldest  == Min(keys)
           stop    == IF cov.stop # None THEN cov.stop ELSE cov.check
           next    == [cov EXCEPT !.pending = MergePending(cov.pending, page)]
           top     == IF cov.upper # None THEN cov.upper ELSE cov.floor
           saw     == stop # None /\ Reached(keys, stop)
           missed  == stop # None /\ (Passed(keys, stop) \/ (exhausted /\ ~saw))
           filling == cov.upper # None /\ cov.floor > cov.upper
           done    == [next EXCEPT !.state = "complete", !.upper = None, !.stop = None,
                                   !.floor = top,
                                   !.check = IF keys = {} THEN cov.check ELSE oldest,
                                   !.progress = IF keys = {} THEN cov.progress ELSE oldest]
           filled  == [next EXCEPT !.floor = oldest]
           further == [next EXCEPT !.floor = top,
                          !.progress = IF cov.progress = None \/ oldest < cov.progress
                                       THEN oldest ELSE cov.progress]
<1>1. cov \in CovRec /\ Shaped(cov)
  BY DEF Cov
<1>2. MergePending(cov.pending, page) \in SUBSET Keyed
  BY <1>1, MergeTyped DEF CovRec
<1>3. next \in CovRec /\ next \in Cov
  BY <1>1, <1>2 DEF Cov, CovRec, Shaped
<1>4. keys # {} => oldest \in Keyed /\ oldest \in Nat
  <2>1. keys \subseteq Keyed
    BY PageKeys
  <2> HIDE DEF keys
  <2> QED BY <2>1, MinOf DEF Keyed
<1>5. top \in Nat /\ top >= cov.upper
  BY <1>1 DEF CovRec, Shaped
<1> HIDE DEF keys, oldest, top
<1>3a. /\ next.state = cov.state /\ next.upper = cov.upper /\ next.progress = cov.progress
      /\ next.floor = cov.floor
  BY <1>1 DEF CovRec
<1> HIDE DEF next
<1>6. done \in Cov
  <2> DEFINE check    == IF keys = {} THEN cov.check ELSE oldest
             progress == IF keys = {} THEN cov.progress ELSE oldest
  <2>1. check \in Nat /\ progress \in Nat
    BY <1>1, <1>4 DEF CovRec
  <2> HIDE DEF check, progress
  <2>2. done \in CovRec /\ done.state = "complete" /\ done.upper = None /\ done.floor = top
    BY <1>3, <1>5, <2>1 DEF CovRec, None, check, progress
  <2> HIDE DEF done
  <2> QED BY <1>5, <2>2 DEF Cov, Shaped, None
<1>7. keys # {} /\ oldest > cov.upper => filled \in Cov
  <2> SUFFICES ASSUME keys # {}, oldest > cov.upper PROVE filled \in Cov
    OBVIOUS
  <2>1. /\ filled \in CovRec /\ filled.state = cov.state /\ filled.upper = cov.upper
        /\ filled.progress = cov.progress /\ filled.floor = oldest
    BY <1>3, <1>4, <1>3a DEF CovRec
  <2>2. cov.upper \in Nat
    BY <1>1 DEF CovRec
  <2> HIDE DEF filled
  <2> QED BY <1>1, <1>4, <2>1, <2>2 DEF Cov, Shaped
<1>8. keys # {} => further \in Cov
  <2> SUFFICES ASSUME keys # {} PROVE further \in Cov
    OBVIOUS
  <2> DEFINE progress == IF cov.progress = None \/ oldest < cov.progress
                         THEN oldest ELSE cov.progress
  <2>1. progress \in Nat /\ progress # None
    BY <1>1, <1>4 DEF CovRec, Keyed
  <2> HIDE DEF progress
  <2>2. /\ further \in CovRec /\ further.state = cov.state /\ further.upper = cov.upper
        /\ further.progress = progress /\ further.floor = top
    BY <1>3, <1>5, <1>3a, <2>1 DEF CovRec, progress
  <2> HIDE DEF further
  <2> QED BY <1>1, <1>5, <2>1, <2>2 DEF Cov, Shaped
<1>9. Truncated(next, cov.branch) \in Cov
  BY <1>1, <1>3, TruncatedShaped DEF CovRec
<1> HIDE DEF done, filled, further, stop, saw, missed, filling, bound
<1> QED BY <1>3, <1>6, <1>7, <1>8, <1>9
        DEF ApplyCatchUp, bound, keys, oldest, stop, next, top, saw, missed, filling, done,
            filled, further

-----------------------------------------------------------------------------
(* Observations: what a page makes of one. *)

LastRun == [key : Nat, status : Statuses \union {"none"}]

Obs == [last : LastRun, latched : Nat, err : BOOLEAN, cov : Cov]

CompRec == [run : LastRun, rank : Nat]

\* What is known besides a page: runs.
Known(context) == \A i \in DOMAIN context : i \in Nat /\ context[i] \in Run

Pages ==
    {p \in [def : Definitions, branch : Branches, exhausted : BOOLEAN, runs : SUBSET Run] :
        IsFiniteSet(p.runs)}

LEMMA RunIsLast == Run \subseteq LastRun
BY DEF Run, LastRun, Keyed

LEMMA NoObservationTyped == NoObservation \in Obs
<1>1. NoCoverage(NoBranch) \in Cov
  BY NoCoverageShaped
<1> QED BY <1>1 DEF NoObservation, Obs, NoRun, LastRun, None

LEMMA ComparedTyped ==
    ASSUME NEW prior \in Obs, NEW page \in SUBSET Run, NEW ignore, NEW retain,
           NEW context, Known(context)
    PROVE  Compared(prior, page, ignore, retain, context) \subseteq CompRec
<1>1. prior.last \in LastRun
  BY DEF Obs
<1>2. \A r \in page : [run |-> r, rank |-> 2] \in CompRec
  BY RunIsLast DEF CompRec
<1>3. \A i \in DOMAIN context : [run |-> context[i], rank |-> 2 + i] \in CompRec
  BY RunIsLast DEF CompRec, Known
<1>4. [run |-> prior.last, rank |-> 1] \in CompRec
  BY <1>1 DEF CompRec
<1> QED BY <1>2, <1>3, <1>4 DEF Compared

LEMMA LatchedTyped ==
    ASSUME NEW before \in Nat, NEW compared, compared \subseteq CompRec
    PROVE  Latched(before, compared) \in Nat
<1> DEFINE first == Decisive(compared)
<1>1. \A x \in first : x.run.key \in Nat
  BY DEF Decisive, CompRec, LastRun
<1> HIDE DEF first
<1>2. (\E x \in first : x.run.status \in Failing) => (CHOOSE x \in first : TRUE).run.key \in Nat
  BY <1>1
<1> QED BY <1>2 DEF Latched, first, None

\* The greatest key of a page is the key of a run of it.
LEMMA NewestOfPage ==
    ASSUME NEW page \in SUBSET Run, IsFiniteSet(page), page # {}
    PROVE  /\ \E r \in page : r.key = Newest(Keys(page))
           /\ \A r \in page : r.key <= Newest(Keys(page))
<1>1. Keys(page) \subseteq Nat /\ IsFiniteSet(Keys(page)) /\ Keys(page) # {}
  BY PageKeys DEF Keyed
<1>2. Newest(Keys(page)) \in Keys(page) /\ \A x \in Keys(page) : x <= Newest(Keys(page))
  BY <1>1, NewestOf
<1> QED BY <1>2 DEF Keys

LEMMA AppliedTyped ==
    ASSUME NEW prior \in Obs, NEW page \in SUBSET Run, IsFiniteSet(page), NEW ignore \in BOOLEAN,
           NEW retain, NEW context, Known(context)
    PROVE  /\ Applied(prior, page, ignore, retain, context) \in Obs
           /\ Applied(prior, page, ignore, retain, context).cov = prior.cov
<1> DEFINE was      == IF ignore THEN NoObservation ELSE prior
           compared == Compared(prior, page, ignore, retain, context)
           kept     == \E x \in compared : x.rank = 1
           latest   == IF kept \/ page = {} THEN was.last
                       ELSE CHOOSE r \in page : r.key = Newest(Keys(page))
<1>1. was \in Obs
  BY NoObservationTyped
<1>2. compared \subseteq CompRec
  BY ComparedTyped
<1> HIDE DEF was, compared
<1>3. Latched(was.latched, compared) \in Nat
  BY <1>1, <1>2, LatchedTyped DEF Obs
<1>4. latest \in LastRun
  <2>1. page # {} => (CHOOSE r \in page : r.key = Newest(Keys(page))) \in page
    BY NewestOfPage
  <2> QED BY <1>1, <2>1, RunIsLast DEF Obs
<1> HIDE DEF latest
<1>5. [prior EXCEPT !.last = latest, !.latched = Latched(was.latched, compared), !.err = FALSE]
      \in Obs
  BY <1>3, <1>4 DEF Obs
<1>6. Applied(prior, page, ignore, retain, context) =
      [prior EXCEPT !.last = latest, !.latched = Latched(was.latched, compared), !.err = FALSE]
  BY DEF Applied, was, compared, kept, latest
<1> QED BY <1>5, <1>6 DEF Obs

LEMMA UnavailableTyped ==
    ASSUME NEW prior \in Obs
    PROVE  Unavailable(prior) \in Obs
BY DEF Unavailable, Obs

\* A new coverage does not disturb the rest of an observation.
LEMMA WithCoverage ==
    ASSUME NEW seen \in Obs, NEW cov \in Cov
    PROVE  [seen EXCEPT !.cov = cov] \in Obs
BY DEF Obs

\* What an observation knows besides an older page.
LEMMA ContextKnown ==
    ASSUME NEW t, NEW d, t.obs[d].latched \in Nat, t.newest[d].first \in SUBSET Run
    PROVE  Known(Context(t, d))
<1> DEFINE latched == t.obs[d].latched
           first   == t.newest[d].first
           left    == IF first = {} THEN <<>> ELSE <<CHOOSE r \in first : TRUE>>
           right   == IF latched = None THEN <<>> ELSE <<[key |-> latched, status |-> "failed"]>>
<1>1. left \in Seq(Run)
  BY DEF left
<1>2. right \in Seq(Run)
  <2>1. latched # None => [key |-> latched, status |-> "failed"] \in Run
    BY DEF Run, Keyed, Statuses
  <2> QED BY <2>1 DEF right
<1>3. Context(t, d) = left \o right
  BY DEF Context
<1> HIDE DEF left, right
<1>4. Context(t, d) \in Seq(Run)
  BY <1>1, <1>2, <1>3
<1> QED BY <1>4 DEF Known

-----------------------------------------------------------------------------
(* The types of the state. *)

Kinds == {"observed", "unavailable", "failed", "throttled"}

Got == [kind : Kinds, page : Pages]

NewestRec == [known : BOOLEAN, first : SUBSET Run]

Pcs == {"idle", "clear", "fetch", "apply", "settle", "consider", "create"}

\* Empty while nothing is observed, and then an element of S.
Maybe(S) == {<<>>} \union S

TurnRec ==
    [pc : Pcs, phase : {"latest", "catch_up", "end"}, defs : SUBSET Definitions,
     todo : SUBSET Definitions, obs : Maybe([Definitions -> Obs]), active : Nat,
     branch : Branches \union {NoBranch}, changed : BOOLEAN, throttled : BOOLEAN,
     closed : BOOLEAN, bases : Maybe([Definitions -> Nat]),
     newest : Maybe([Definitions -> Maybe(NewestRec)]), got : Maybe(Got),
     ev : SUBSET (Definitions \X Keyed), due : SUBSET Items,
     known : Maybe([Definitions -> SUBSET Nat])]

EvidenceOK(ev) ==
    /\ ev \in SUBSET (Definitions \X Keyed)
    /\ \A e, f \in ev : e[1] = f[1] => e[2] = f[2]

\* An observation has read what it uses: the tables when it began or settled, and
\* in its second phase the newest page of every definition. A page of the
\* definitions of S is at hand.
Heard(t, S) ==
    /\ t.obs \in [Definitions -> Obs]
    /\ t.bases \in [Definitions -> Nat]
    /\ t.newest \in [Definitions -> Maybe(NewestRec)]
    /\ t.phase = "latest" =>
          IF t.throttled THEN t.todo = {}
          ELSE \A d \in t.defs : d \in t.todo \/ d \in S \/ t.newest[d] \in NewestRec
    /\ t.phase = "catch_up" => \A d \in t.defs : t.newest[d] \in NewestRec

\* The definition whose page is applied.
AtHand(t) == IF t.pc = "apply" THEN {t.got.page.def} ELSE {}

Read(t) ==
    /\ t.todo \subseteq t.defs
    /\ t.pc # "idle" => Heard(t, AtHand(t))
    /\ t.pc = "apply" => t.got \in Got /\ t.got.page.def \in t.defs
    /\ EvidenceOK(t.ev) /\ (t.pc = "create" => t.ev # {})
    /\ t.pc \in {"consider", "create"} =>
          t.phase \in {"latest", "end"} /\ (t.phase = "latest" => t.todo = {})

PlanOK ==
    /\ plan \in Plans
    /\ may \in [Calls -> Nat]

ForgeOK(f) ==
    /\ f \in [branch : Branches, runs : [Definitions -> SUBSET ForgeRun], next : Nat \ {0}]
    /\ \A d \in Definitions : IsFiniteSet(f.runs[d]) /\ \A r \in f.runs[d] : r.id < f.next

GateOK(g) ==
    /\ g \in [definitions : SUBSET Definitions, branch : Branches \union {NoBranch},
              obs : [Definitions -> Obs], open : SUBSET Keyed, incidents : Nat]
    /\ g.open \subseteq 1..g.incidents

Baseline == [order : Nat, floor : Nat, suppress : Nat]

RepairOK(r) ==
    /\ r \in [unfinished : BOOLEAN, ev : SUBSET (Definitions \X Keyed),
              base : [Definitions -> Baseline]]
    /\ EvidenceOK(r.ev)
    /\ r.unfinished <=> r.ev # {}

ItemRec == [held : BOOLEAN, merging : BOOLEAN, incidents : SUBSET Nat]

HistOK(h) ==
    h \in [read : [Definitions -> SUBSET Nat], handled : [Definitions -> SUBSET Nat],
           settled : [Definitions -> Nat], overlapped : BOOLEAN,
           mixed : SUBSET Definitions]

\* An observation never writes an incident newer than the newest.
TurnOK(t, g) == t \in TurnRec /\ Read(t) /\ t.active <= g.incidents

TurnsOK(tt, g) ==
    /\ tt \in [Observers -> TurnRec]
    /\ \A o \in Observers : TurnOK(tt[o], g)

Types ==
    /\ PlanOK /\ ForgeOK(forge) /\ GateOK(gate) /\ RepairOK(repair)
    /\ items \in [Items -> ItemRec]
    /\ TurnsOK(turn, gate) /\ EvidenceOK(manual) /\ HistOK(hist)

LEMMA NoTurnOK ==
    ASSUME NEW g, g.incidents \in Nat
    PROVE  TurnOK(NoTurn, g)
<1>1. NoTurn \in TurnRec
  BY DEF NoTurn, TurnRec, Pcs, None, Maybe
<1>2. Read(NoTurn)
  BY DEF NoTurn, Read, EvidenceOK
<1> QED BY <1>1, <1>2 DEF TurnOK, NoTurn, None

\* The next id is greater than those of the runs there are.
LEMMA NextIdTyped ==
    ASSUME NEW runs \in [Definitions -> SUBSET ForgeRun],
           \A d \in Definitions : IsFiniteSet(runs[d])
    PROVE  /\ NextId(runs) \in Nat \ {0}
           /\ \A d \in Definitions : \A r \in runs[d] : r.id < NextId(runs)
<1> DEFINE Ids(d) == {r.id : r \in runs[d]}
           idsOf  == [d \in Definitions |-> Ids(d)]
           all    == {idsOf[d] : d \in Definitions}
<1>1. \A d \in Definitions : Ids(d) \subseteq Nat /\ IsFiniteSet(Ids(d))
  <2> TAKE d \in Definitions
  <2> DEFINE f == [r \in runs[d] |-> r.id]
  <2>1. f \in [runs[d] -> Nat] /\ IsFiniteSet(runs[d])
    BY DEF ForgeRun
  <2>2. Ids(d) = {f[r] : r \in runs[d]}
    OBVIOUS
  <2> HIDE DEF f
  <2>3. IsFiniteSet({f[r] : r \in runs[d]})
    BY <2>1, FiniteImage
  <2>4. \A r \in runs[d] : r.id \in Nat
    BY DEF ForgeRun
  <2>5. Ids(d) \subseteq Nat
    BY <2>4
  <2> HIDE DEF Ids
  <2> QED BY <2>2, <2>3, <2>5
<1>2. idsOf \in [Definitions -> SUBSET Nat]
  BY <1>1
<1>3. \A T \in all : T \subseteq Nat /\ IsFiniteSet(T)
  BY <1>1
<1>4. NextId(runs) = 1 + Newest(UNION all)
  BY DEF NextId
<1>5. \A d \in Definitions : \A r \in runs[d] : r.id \in UNION all
  OBVIOUS
<1> HIDE DEF idsOf
<1>6. IsFiniteSet(all)
  <2> HIDE DEF Ids
  <2>1. IsFiniteSet(Definitions)
    BY GateAssumption
  <2>2. IsFiniteSet({idsOf[d] : d \in Definitions})
    BY <1>2, <2>1, FiniteImage
  <2> QED BY <2>2
<1> HIDE DEF all
<1>7. IsFiniteSet(UNION all) /\ UNION all \subseteq Nat
  BY <1>3, <1>6, FS_UNION
<1>8. Newest(UNION all) \in Nat /\ \A n \in UNION all : n <= Newest(UNION all)
  BY <1>7, NewestOf
<1> HIDE DEF Ids
<1> DEFINE top == Newest(UNION all)
<1>9. 1 + top \in Nat \ {0} /\ \A n \in UNION all : n < 1 + top
  <2>1. top \in Nat /\ \A n \in UNION all : n \in Nat /\ n <= top
    BY <1>7, <1>8
  <2> HIDE DEF top
  <2> QED BY <2>1
<1> QED BY <1>4, <1>5, <1>9

LEMMA TypesInit == Init => Types
<1> SUFFICES ASSUME Init PROVE Types
  OBVIOUS
<1> USE GateAssumption, CoverageAssumption
<1>1. PlanOK
  BY DEF Init, PlanOK
<1>2. ForgeOK(forge)
  <2>1. plan \in Plans /\ plan.runs \in [Definitions -> SUBSET ForgeRun] /\ plan.branch \in Branches
        /\ \A d \in Definitions : IsFiniteSet(plan.runs[d])
    BY DEF Init
  <2>2. /\ NextId(plan.runs) \in Nat \ {0}
        /\ \A d \in Definitions : \A r \in plan.runs[d] : r.id < NextId(plan.runs)
    BY <2>1, NextIdTyped
  <2>3. forge = [branch |-> plan.branch, runs |-> plan.runs, next |-> NextId(plan.runs)]
    BY DEF Init
  <2> QED BY <2>1, <2>2, <2>3 DEF ForgeOK
<1>3. GateOK(gate)
  BY NoObservationTyped DEF Init, GateOK
<1>4. RepairOK(repair)
  BY DEF Init, RepairOK, EvidenceOK, NoBaseline, Baseline, None
<1>5. items \in [Items -> ItemRec]
  BY DEF Init, ItemRec
<1>6. TurnsOK(turn, gate)
  <2>1. gate.incidents \in Nat
    BY DEF Init
  <2>2. TurnOK(NoTurn, gate)
    BY <2>1, NoTurnOK
  <2> QED BY <2>2 DEF Init, TurnsOK, TurnOK
<1>7. EvidenceOK(manual)
  BY DEF Init, EvidenceOK
<1>8. HistOK(hist)
  BY DEF Init, HistOK, None
<1> QED BY <1>1, <1>2, <1>3, <1>4, <1>5, <1>6, <1>7, <1>8 DEF Types

-----------------------------------------------------------------------------
(* The forge and its answers. *)

LEMMA ChangedTyped ==
    ASSUME ForgeOK(forge), NEW d \in Definitions, NEW r, NEW s \in SUBSET ForgeRun, IsFiniteSet(s),
           \A n \in s : n.id < forge.next, Changed(d, r, s)
    PROVE  ForgeOK(forge') /\ UNCHANGED <<plan, gate, repair, items, turn, manual, hist>>
<1> DEFINE left == forge.runs[d] \ {r}
<1>1. /\ forge.runs[d] \in SUBSET ForgeRun /\ IsFiniteSet(forge.runs[d])
      /\ \A n \in left \union s : n.id < forge.next
  BY DEF ForgeOK
<1>2. IsFiniteSet(left \union s)
  <2>1. IsFiniteSet(left)
    BY <1>1, FS_Subset
  <2> HIDE DEF left
  <2> QED BY <2>1, FS_Union
<1>3. forge' = [forge EXCEPT !.runs[d] = left \union s]
  BY DEF Changed
<1>4. ForgeOK(forge')
  BY <1>1, <1>2, <1>3 DEF ForgeOK
<1> QED BY <1>4 DEF Changed

\* A step of the forge changes nothing else.
Forged ==
    /\ ForgeOK(forge') /\ UNCHANGED <<plan, gate, repair, items, turn, manual, hist>>
    /\ \E call \in Calls : Once(call)

LEMMA ForgeStep ==
    ASSUME Types, NEW d \in Definitions,
           \/ \E s \in plan.fresh : AppendRun(d, s)
           \/ \E r \in forge.runs[d] :
                 Rerun(d, r) \/ Delete(d, r) \/ \E s \in plan.outcomes : Decide(d, r, s)
    PROVE  Forged
<1>1. ForgeOK(forge) /\ plan \in Plans
  BY DEF Types, PlanOK
<1>2. ASSUME NEW s \in plan.fresh, AppendRun(d, s)
      PROVE  Forged
  <2> DEFINE new == [id |-> forge.next, attempt |-> 1, status |-> s, branch |-> forge.branch]
             all == forge.runs[d] \union {new}
  <2>1. s \in Statuses /\ 1 \in 1..(MaxAttempts - 1)
    BY <1>1, GateAssumption, CoverageAssumption
  <2>2. new \in ForgeRun /\ new.id = forge.next
    BY <1>1, <2>1 DEF ForgeRun, ForgeOK
  <2>3. forge' = [forge EXCEPT !.runs[d] = all, !.next = @ + 1]
    BY <1>2 DEF AppendRun
  <2> HIDE DEF new
  <2>4. IsFiniteSet({new}) /\ IsFiniteSet(forge.runs[d])
    BY <1>1, FS_Singleton DEF ForgeOK
  <2>5. IsFiniteSet(all) /\ all \in SUBSET ForgeRun /\ \A r \in all : r.id < forge.next + 1
    <3>1. forge.next \in Nat /\ \A r \in forge.runs[d] : r \in ForgeRun /\ r.id \in Nat
      BY <1>1 DEF ForgeOK, ForgeRun
    <3>2. \A r \in forge.runs[d] : r.id < forge.next
      BY <1>1 DEF ForgeOK
    <3>3. IsFiniteSet(all)
      BY <2>4, FS_Union
    <3>4. \A r \in all : r \in ForgeRun /\ r.id < forge.next + 1
      BY <2>2, <3>1, <3>2
    <3> QED BY <3>3, <3>4
  <2> HIDE DEF all
  <2>6. ForgeOK(forge')
    <3>1. \A e \in Definitions : \A r \in forge.runs[e] : r.id < forge.next + 1
      <4>1. forge.next \in Nat /\ \A e \in Definitions : \A r \in forge.runs[e] :
                r.id \in Nat /\ r.id < forge.next
        BY <1>1 DEF ForgeOK, ForgeRun
      <4> QED BY <4>1
    <3>2. forge.next + 1 \in Nat \ {0}
      BY <1>1 DEF ForgeOK
    <3> QED BY <1>1, <2>3, <2>5, <3>1, <3>2 DEF ForgeOK
  <2>7. Once("append") /\ UNCHANGED <<plan, gate, repair, items, turn, manual, hist>>
    BY <1>2 DEF AppendRun
  <2> QED BY <2>6, <2>7 DEF Forged, Calls
<1>3. ASSUME NEW r \in forge.runs[d], NEW s \in plan.outcomes, Decide(d, r, s)
      PROVE  Forged
  <2> DEFINE new == [r EXCEPT !.status = s]
  <2>1. s \in Statuses /\ r \in ForgeRun
    BY <1>1, GateAssumption DEF ForgeOK
  <2>2. new \in ForgeRun /\ new.id < forge.next
    BY <1>1, <2>1 DEF ForgeRun, ForgeOK
  <2> HIDE DEF new
  <2>3. {new} \in SUBSET ForgeRun /\ IsFiniteSet({new}) /\ \A n \in {new} : n.id < forge.next
    BY <2>2, FS_Singleton
  <2>4. Changed(d, r, {new})
    BY <1>3 DEF Decide, new
  <2>5. ForgeOK(forge') /\ UNCHANGED <<plan, gate, repair, items, turn, manual, hist>>
    BY <1>1, <2>3, <2>4, ChangedTyped
  <2>6. Once("decide")
    BY <1>3 DEF Decide
  <2> QED BY <2>5, <2>6 DEF Forged, Calls
<1>4. ASSUME NEW r \in forge.runs[d], Rerun(d, r)
      PROVE  Forged
  <2> DEFINE new == [r EXCEPT !.attempt = @ + 1, !.status = "pending"]
  <2>1. r \in ForgeRun
    BY <1>1 DEF ForgeOK
  <2>2. new \in ForgeRun /\ new.id < forge.next
    <3>1. r.attempt + 1 \in 1..(MaxAttempts - 1) /\ "pending" \in Statuses
      <4>1. r.attempt \in 1..(MaxAttempts - 1) /\ r.attempt + 1 < MaxAttempts
        BY <1>4, <2>1 DEF ForgeRun, Rerun
      <4>2. MaxAttempts \in Nat
        BY CoverageAssumption
      <4>3. r.attempt + 1 \in 1..(MaxAttempts - 1)
        BY <4>1, <4>2
      <4> QED BY <4>3 DEF Statuses
    <3>2. r.id < forge.next
      BY <1>1 DEF ForgeOK
    <3> QED BY <2>1, <3>1, <3>2 DEF ForgeRun
  <2> HIDE DEF new
  <2>3. {new} \in SUBSET ForgeRun /\ IsFiniteSet({new}) /\ \A n \in {new} : n.id < forge.next
    BY <2>2, FS_Singleton
  <2>4. Changed(d, r, {new})
    BY <1>4 DEF Rerun, new
  <2>5. ForgeOK(forge') /\ UNCHANGED <<plan, gate, repair, items, turn, manual, hist>>
    BY <1>1, <2>3, <2>4, ChangedTyped
  <2>6. Once("rerun")
    BY <1>4 DEF Rerun
  <2> QED BY <2>5, <2>6 DEF Forged, Calls
<1>5. ASSUME NEW r \in forge.runs[d], Delete(d, r)
      PROVE  Forged
  <2>1. {} \in SUBSET ForgeRun /\ IsFiniteSet({})
    BY FS_EmptySet
  <2>2. Changed(d, r, {})
    BY <1>5 DEF Delete
  <2>5. ForgeOK(forge') /\ UNCHANGED <<plan, gate, repair, items, turn, manual, hist>>
    BY <1>1, <2>1, <2>2, ChangedTyped
  <2>6. Once("delete")
    BY <1>5 DEF Delete
  <2> QED BY <2>5, <2>6 DEF Forged, Calls
<1> QED BY <1>2, <1>3, <1>4, <1>5

LEMMA OnceTyped ==
    ASSUME NEW call \in Calls, may \in [Calls -> Nat], Once(call)
    PROVE  may' \in [Calls -> Nat] /\ may' # may
BY DEF Once

LEMMA AsRunTyped ==
    ASSUME NEW r \in ForgeRun
    PROVE  AsRun(r) \in Run
<1>1. r.id \in Nat \ {0} /\ r.attempt \in Nat /\ MaxAttempts \in Nat \ {0} /\ r.status \in Statuses
  BY CoverageAssumption DEF ForgeRun
<1>2. Key(r.id, r.attempt) \in Keyed
  BY <1>1 DEF Key, Keyed, None
<1> QED BY <1>1, <1>2 DEF AsRun, Run

LEMMA AnnotatedTyped ==
    ASSUME NEW page \in SUBSET Run, IsFiniteSet(page)
    PROVE  Annotated(page) \in SUBSET Run /\ IsFiniteSet(Annotated(page))
<1> DEFINE open   == {r \in page : r.status \in {"pending", "red"}}
           looked == {r \in open : /\ \A q \in open : q.key <= r.key
                                   /\ \A q \in page : q.key > r.key => q.status = "cancelled"}
           Of(r)  == IF r \in looked THEN r
                     ELSE [r EXCEPT !.status = IF @ = "red" THEN "pending" ELSE @]
           f      == [r \in page |-> Of(r)]
<1>1. Annotated(page) = {Of(r) : r \in page}
  BY DEF Annotated
<1> HIDE DEF looked
<1>2. \A r \in page : Of(r) \in Run
  BY DEF Run, Statuses
<1>3. f \in [page -> Run]
  BY <1>2
<1> HIDE DEF Of
<1>4. Annotated(page) = {f[r] : r \in page}
  BY <1>1
<1> HIDE DEF f
<1>5. IsFiniteSet({f[r] : r \in page})
  BY <1>3, FiniteImage
<1> QED BY <1>3, <1>4, <1>5

\* The runs of a part of what is listed.
LEMMA RunsOfListed ==
    ASSUME ForgeOK(forge), NEW d \in Definitions, NEW S, S \subseteq forge.runs[d]
    PROVE  {AsRun(r) : r \in S} \in SUBSET Run /\ IsFiniteSet({AsRun(r) : r \in S})
<1>1. S \subseteq ForgeRun /\ IsFiniteSet(S)
  BY FS_Subset DEF ForgeOK
<1> DEFINE f == [r \in S |-> AsRun(r)]
<1>2. f \in [S -> Run]
  BY <1>1, AsRunTyped
<1>3. {AsRun(r) : r \in S} = {f[r] : r \in S}
  OBVIOUS
<1> HIDE DEF f
<1>4. IsFiniteSet({f[r] : r \in S})
  BY <1>1, <1>2, FiniteImage
<1>5. {f[r] : r \in S} \in SUBSET Run
  BY <1>2
<1> QED BY <1>3, <1>4, <1>5

LEMMA LatestPageTyped ==
    ASSUME ForgeOK(forge), NEW d \in Definitions
    PROVE  LatestPage(d) \in Pages /\ LatestPage(d).def = d
<1> DEFINE raw  == Top(Listed(d, forge.branch))
           runs == {AsRun(r) : r \in raw}
<1>1. raw \subseteq forge.runs[d]
  BY DEF Top, Listed
<1>2. runs \in SUBSET Run /\ IsFiniteSet(runs)
  BY <1>1, RunsOfListed
<1>3. LatestPage(d) = [def |-> d, branch |-> forge.branch, exhausted |-> Cardinality(raw) < Page,
                       runs |-> Annotated(runs)]
  BY DEF LatestPage
<1> HIDE DEF raw, runs
<1>4. Annotated(runs) \in SUBSET Run /\ IsFiniteSet(Annotated(runs))
  BY <1>2, AnnotatedTyped
<1>5. forge.branch \in Branches
  BY DEF ForgeOK
<1> QED BY <1>3, <1>4, <1>5 DEF Pages

LEMMA CatchUpPageTyped ==
    ASSUME ForgeOK(forge), NEW d \in Definitions, NEW bound, NEW revisit
    PROVE  CatchUpPage(d, bound, revisit) \in Pages /\ CatchUpPage(d, bound, revisit).def = d
<1> DEFINE listed == Listed(d, forge.branch)
           raw    == Top({r \in listed : r.id <= RunOf(bound)})
           one    == {q \in listed : q.id = RunOf(revisit)}
           again  == {AsRun(r) : r \in one}
           all    == {AsRun(r) : r \in raw}
           within == {x \in all : x.key <= bound}
           part   == {x \in within : \A y \in again : ~SameRun(x.key, y.key)}
           runs   == part \union again
<1>1. raw \subseteq forge.runs[d] /\ one \subseteq forge.runs[d]
  BY DEF Top, Listed
<1>2. again \in SUBSET Run /\ IsFiniteSet(again) /\ all \in SUBSET Run /\ IsFiniteSet(all)
  BY <1>1, RunsOfListed
<1>3. CatchUpPage(d, bound, revisit) =
          [def |-> d, branch |-> forge.branch, exhausted |-> Cardinality(raw) < Page,
           runs |-> Annotated(runs)]
  BY DEF CatchUpPage
<1> HIDE DEF raw, again, all
<1>4. part \in SUBSET all
  OBVIOUS
<1> HIDE DEF part
<1>5. IsFiniteSet(part) /\ part \in SUBSET Run
  BY <1>2, <1>4, FS_Subset
<1>6. runs \in SUBSET Run /\ IsFiniteSet(runs)
  BY <1>2, <1>5, FS_Union
<1> HIDE DEF runs
<1>7. Annotated(runs) \in SUBSET Run /\ IsFiniteSet(Annotated(runs))
  BY <1>6, AnnotatedTyped
<1>8. forge.branch \in Branches
  BY DEF ForgeOK
<1> QED BY <1>3, <1>7, <1>8 DEF Pages

LEMMA AnswerTyped ==
    ASSUME ForgeOK(forge), NEW t, NEW d \in Definitions
    PROVE  Answer(t, d) \in Pages /\ Answer(t, d).def = d
BY LatestPageTyped, CatchUpPageTyped DEF Answer

-----------------------------------------------------------------------------
(* What is written back. *)

LEMMA TurnsSet ==
    ASSUME NEW tt, NEW g, NEW h, TurnsOK(tt, g), GateOK(g), GateOK(h), h.incidents >= g.incidents,
           NEW o \in Observers, NEW t, TurnOK(t, h)
    PROVE  TurnsOK([tt EXCEPT ![o] = t], h)
<1>1. \A p \in Observers : tt[p] \in TurnRec /\ Read(tt[p]) /\ tt[p].active <= g.incidents
  BY DEF TurnsOK, TurnOK
<1>2. g.incidents \in Nat /\ h.incidents \in Nat /\ \A p \in Observers : tt[p].active \in Nat
  BY <1>1 DEF GateOK, TurnRec
<1>3. \A p \in Observers : TurnOK(tt[p], h)
  BY <1>1, <1>2 DEF TurnOK
<1> QED BY <1>1, <1>3 DEF TurnsOK, TurnOK

LEMMA TurnsKept ==
    ASSUME NEW tt, NEW g, NEW h, TurnsOK(tt, g), g.incidents = h.incidents
    PROVE  TurnsOK(tt, h)
BY DEF TurnsOK, TurnOK

LEMMA OpenFinite ==
    ASSUME NEW g, GateOK(g)
    PROVE  /\ g.open \subseteq Nat /\ IsFiniteSet(g.open)
           /\ Newest(g.open) \in Nat /\ Newest(g.open) <= g.incidents
<1>1. g.incidents \in Nat /\ g.open \subseteq 1..g.incidents
  BY DEF GateOK
<1>2. IsFiniteSet(1..g.incidents)
  BY <1>1, FS_Interval
<1>3. IsFiniteSet(g.open) /\ g.open \subseteq Nat
  BY <1>1, <1>2, FS_Subset
<1>4. Newest(g.open) \in Nat /\ (g.open # {} => Newest(g.open) \in g.open)
  BY <1>3, NewestOf
<1>5. g.open = {} => Newest(g.open) = 0
  BY DEF Newest, None
<1> QED BY <1>1, <1>3, <1>4, <1>5

LEMMA CommitTyped ==
    ASSUME GateOK(gate), NEW t, t.obs \in [Definitions -> Obs], t.active \in Nat,
           t.active <= gate.incidents, NEW d \in Definitions, NEW record \in Obs,
           NEW changed, NEW branch \in Branches \union {NoBranch}
    PROVE  /\ GateOK(Commit(t, d, record, changed, branch))
           /\ Commit(t, d, record, changed, branch).incidents >= gate.incidents
<1> DEFINE obs   == [e \in Definitions |-> IF e = d THEN record
                                           ELSE IF e \in t.defs THEN t.obs[e] ELSE NoObservation]
           open  == Incidents(t, changed, obs)
           count == IF open \ gate.open = {} THEN gate.incidents
                    ELSE Newest(open \union {gate.incidents})
           next  == Commit(t, d, record, changed, branch)
<1>1. obs \in [Definitions -> Obs]
  BY NoObservationTyped
<1>2. /\ gate.incidents \in Nat /\ gate.open \subseteq 1..gate.incidents
      /\ gate.open \subseteq Keyed /\ IsFiniteSet(gate.open)
  BY OpenFinite DEF GateOK
<1> HIDE DEF obs
<1>3. open \subseteq gate.open \union {1 + gate.incidents}
                    \union (IF t.active = None THEN {} ELSE {t.active})
  BY DEF Incidents
<1> HIDE DEF open
<1>4. open \subseteq Keyed /\ IsFiniteSet(open \union {gate.incidents})
  <2>1. open \subseteq Keyed
    BY <1>2, <1>3 DEF Keyed, None
  <2>2. open \union {gate.incidents} \subseteq 0..(1 + gate.incidents)
    BY <1>2, <1>3
  <2>3. IsFiniteSet(0..(1 + gate.incidents))
    BY <1>2, FS_Interval
  <2> QED BY <2>1, <2>2, <2>3, FS_Subset
<1>5. count \in Nat /\ count >= gate.incidents /\ open \subseteq 1..count
  <2>1. CASE open \ gate.open = {}
    BY <1>2, <2>1
  <2>2. CASE open \ gate.open # {}
    <3> DEFINE all == open \union {gate.incidents}
    <3>1. all \subseteq Nat
      BY <1>2, <1>4 DEF Keyed
    <3>2. count = Newest(all)
      BY <2>2
    <3>3. Newest(all) \in Nat /\ \A x \in all : x <= Newest(all)
      BY <1>4, <3>1, NewestOf
    <3>4. \A x \in open : x \in Nat /\ x # 0
      BY <1>4 DEF Keyed, None
    <3> HIDE DEF count
    <3> QED BY <1>2, <3>2, <3>3, <3>4
  <2> QED BY <2>1, <2>2
<1>6. next = [gate EXCEPT !.obs = obs, !.branch = branch, !.open = open, !.incidents = count]
  BY DEF Commit, obs, open, count
<1> HIDE DEF count, next
<1>7. GateOK(next) /\ next.incidents = count
  BY <1>1, <1>4, <1>5, <1>6 DEF GateOK
<1> QED BY <1>5, <1>7 DEF next

LEMMA EvidenceTyped ==
    ASSUME GateOK(gate)
    PROVE  EvidenceOK(Evidence)
<1>1. \A d \in Definitions : gate.obs[d].latched \in Nat
  BY DEF GateOK, Obs
<1>2. gate.definitions \subseteq Definitions
  BY DEF GateOK
<1> QED BY <1>1, <1>2 DEF Evidence, EvidenceOK, Keyed, None

LEMMA KeyOfTyped ==
    ASSUME NEW ev, EvidenceOK(ev), NEW d
    PROVE  KeyOf(ev, d) \in Nat
<1> DEFINE keys == {e[2] : e \in {x \in ev : x[1] = d}}
<1>1. \A e \in ev : e[2] \in Nat
  BY DEF EvidenceOK, Keyed
<1>2. CASE keys = {}
  BY <1>2, NewestOfOne DEF KeyOf, None, Newest
<1>3. CASE keys # {}
  <2>1. PICK e \in ev : e[1] = d
    BY <1>3
  <2>2. keys = {e[2]}
    BY <2>1 DEF EvidenceOK
  <2>3. KeyOf(ev, d) = Newest(keys)
    BY DEF KeyOf
  <2> HIDE DEF keys
  <2> QED BY <1>1, <2>2, <2>3, NewestOfOne
<1> QED BY <1>2, <1>3

LEMMA RunOfTyped ==
    ASSUME NEW k \in Nat
    PROVE  RunOf(k) \in Nat
BY CoverageAssumption DEF RunOf

LEMMA RunOfMonotone ==
    ASSUME NEW k \in Nat, NEW l \in Nat, k <= l
    PROVE  RunOf(k) <= RunOf(l)
BY CoverageAssumption DEF RunOf

-----------------------------------------------------------------------------
(* The steps keep the types. *)

LEMMA BeginTyped ==
    ASSUME Types, NEW o \in Observers, Begin(o)
    PROVE  Types'
<1> DEFINE t == [NoTurn EXCEPT !.pc = IF gate.definitions = {} THEN "clear" ELSE "fetch",
                               !.defs = gate.definitions, !.todo = gate.definitions,
                               !.obs = gate.obs, !.active = Active, !.branch = gate.branch,
                               !.bases = [d \in Definitions |-> repair.base[d].order],
                               !.newest = [d \in Definitions |-> <<>>]]
<1>1. /\ PlanOK /\ ForgeOK(forge) /\ GateOK(gate) /\ RepairOK(repair) /\ items \in [Items -> ItemRec]
      /\ TurnsOK(turn, gate) /\ EvidenceOK(manual) /\ HistOK(hist)
  BY DEF Types
<1>2. turn' = [turn EXCEPT ![o] = t] /\ Once("begin")
      /\ UNCHANGED <<plan, forge, manual, gate, repair, items>>
      /\ hist' = [hist EXCEPT !.overlapped = @ \/ \E p \in Observers : turn[p].pc # "idle"]
  BY DEF Begin, Set, World
<1>3. Active \in Nat /\ Active <= gate.incidents /\ gate.obs \in [Definitions -> Obs]
      /\ gate.definitions \in SUBSET Definitions /\ gate.branch \in Branches \union {NoBranch}
      /\ gate.incidents \in Nat /\ GateOK(gate)
  BY <1>1, OpenFinite DEF Active, GateOK
<1>4. [d \in Definitions |-> repair.base[d].order] \in [Definitions -> Nat]
  BY <1>1 DEF RepairOK, Baseline
<1>5. /\ t.pc = IF gate.definitions = {} THEN "clear" ELSE "fetch"
      /\ t.phase = "latest" /\ t.defs = gate.definitions /\ t.todo = gate.definitions
      /\ t.obs = gate.obs /\ t.active = Active /\ t.ev = {} /\ ~t.throttled
      /\ t.bases = [d \in Definitions |-> repair.base[d].order]
      /\ t.newest = [d \in Definitions |-> <<>>]
  BY DEF NoTurn
<1>6. t \in TurnRec
  BY <1>3, <1>4 DEF TurnRec, Pcs, NoTurn, Maybe
<1> HIDE DEF t
<1>7. Read(t)
  BY <1>3, <1>4, <1>5 DEF Read, Heard, AtHand, EvidenceOK, Maybe
<1>8. TurnOK(t, gate)
  BY <1>3, <1>5, <1>6, <1>7 DEF TurnOK
<1>9. TurnsOK(turn', gate)
  <2>1. gate.incidents >= gate.incidents
    BY <1>3
  <2>2. TurnsOK([turn EXCEPT ![o] = t], gate)
    BY <1>1, <1>8, <2>1, TurnsSet
  <2> QED BY <1>2, <2>2
<1>10. HistOK(hist')
  BY <1>1, <1>2 DEF HistOK
<1>11. PlanOK'
  BY <1>1, <1>2, OnceTyped DEF PlanOK, Calls
<1> QED BY <1>1, <1>2, <1>9, <1>10, <1>11 DEF Types

\* A step that changes one observer, and the tables of the gate only.
LEMMA TurnStepTyped ==
    ASSUME Types, PlanOK', UNCHANGED <<forge, manual, repair>>, GateOK(gate'),
           gate'.incidents >= gate.incidents, items' \in [Items -> ItemRec], HistOK(hist'),
           NEW o \in Observers, NEW t, Set(o, t), TurnOK(t, gate')
    PROVE  Types'
<1>1. TurnsOK(turn, gate) /\ GateOK(gate)
  BY DEF Types
<1>2. TurnsOK([turn EXCEPT ![o] = t], gate')
  BY <1>1, TurnsSet
<1>3. TurnsOK(turn', gate')
  BY <1>2 DEF Set
<1> QED BY <1>3 DEF Types

LEMMA ClearTyped ==
    ASSUME Types, NEW o \in Observers, Clear(o)
    PROVE  Types'
<1> DEFINE t == turn[o]
           n == [t EXCEPT !.pc = "settle", !.phase = "end", !.closed = FALSE,
                          !.due = {w \in Items : items[w].held}]
<1>1. /\ t \in TurnRec /\ Read(t) /\ t.active <= gate.incidents /\ t.pc = "clear"
      /\ GateOK(gate) /\ gate.incidents \in Nat
  BY DEF Types, TurnsOK, TurnOK, GateOK, Clear
<1>2. gate' = [gate EXCEPT !.obs = [d \in Definitions |-> NoObservation], !.open = @ \ {t.active}]
      /\ Set(o, n) /\ UNCHANGED <<plan, may, forge, manual, repair, items, hist>>
  BY DEF Clear, World
<1>3. GateOK(gate') /\ gate'.incidents = gate.incidents
  BY <1>1, <1>2, NoObservationTyped DEF GateOK
<1>4. n \in TurnRec /\ n.active = t.active
  <2>1. {w \in Items : items[w].held} \in SUBSET Items
    OBVIOUS
  <2> QED BY <1>1, <2>1 DEF TurnRec, Pcs
<1>5. Read(n)
  <2>1. /\ n.todo = t.todo /\ n.defs = t.defs /\ n.obs = t.obs /\ n.bases = t.bases
        /\ n.newest = t.newest /\ n.throttled = t.throttled /\ n.ev = t.ev /\ n.pc = "settle" /\ n.phase = "end"
    BY <1>1 DEF TurnRec
  <2> HIDE DEF n
  <2> QED BY <1>1, <2>1 DEF Read, Heard, AtHand
<1>6. TurnOK(n, gate')
  BY <1>1, <1>3, <1>4, <1>5 DEF TurnOK
<1>7. gate'.incidents >= gate.incidents
  BY <1>1, <1>3
<1>8. items' \in [Items -> ItemRec] /\ HistOK(hist')
  BY <1>2 DEF Types
<1>9. PlanOK'
  BY <1>2 DEF Types, PlanOK
<1> HIDE DEF n
<1> QED BY <1>2, <1>3, <1>6, <1>7, <1>8, <1>9, TurnStepTyped

\* A step of an observation that leaves the tables alone.
LEMMA QuietStepTyped ==
    ASSUME Types, PlanOK', UNCHANGED <<forge, manual, gate, repair, items, hist>>,
           NEW o \in Observers, NEW t, Set(o, t), TurnOK(t, gate)
    PROVE  Types'
<1>1. GateOK(gate) /\ gate.incidents \in Nat
  BY DEF Types, GateOK
<1>2. GateOK(gate') /\ gate'.incidents >= gate.incidents /\ TurnOK(t, gate')
  BY <1>1
<1>3. items' \in [Items -> ItemRec] /\ HistOK(hist')
  BY DEF Types
<1> QED BY <1>2, <1>3, TurnStepTyped

LEMMA FetchTyped ==
    ASSUME Types, NEW o \in Observers, NEW kind \in Kinds, Fetch(o, kind)
    PROVE  Types'
<1> DEFINE t    == turn[o]
           todo == IF t.phase = "latest" THEN t.todo ELSE Behind(t)
           d    == Min(todo)
           page == Answer(t, d)
           left == IF kind = "throttled" THEN {} ELSE {e \in todo : e > d}
           n    == [t EXCEPT !.pc = "apply", !.got = [kind |-> kind, page |-> page],
                             !.todo = left, !.throttled = kind = "throttled"]
<1>1. /\ t \in TurnRec /\ Read(t) /\ t.active <= gate.incidents /\ t.pc = "fetch"
      /\ ForgeOK(forge) /\ todo # {}
  BY DEF Types, TurnsOK, TurnOK, Fetch
<1>2. Set(o, n) /\ UNCHANGED <<forge, manual, gate, repair, items, hist>>
  BY DEF Fetch, World
<1>3. PlanOK'
  <2>1. UNCHANGED may \/ Once("fail")
    BY DEF Fetch
  <2> QED BY <2>1, OnceTyped DEF Types, PlanOK, Fetch, World, Calls
<1>4. todo \subseteq t.todo /\ todo \subseteq Definitions /\ todo \subseteq t.defs
  BY <1>1 DEF Behind, Read, TurnRec
<1>5. d \in todo /\ d \in Definitions /\ \A e \in todo : e # d => e > d
  <2>1. todo \subseteq Nat
    BY <1>4, GateAssumption
  <2> HIDE DEF todo
  <2> QED BY <1>1, <1>4, <2>1, MinOf
<1>6. page \in Pages /\ page.def = d
  BY <1>1, <1>5, AnswerTyped
<1>7. [kind |-> kind, page |-> page] \in Got /\ left \in SUBSET Definitions /\ left \subseteq t.defs
  BY <1>4, <1>6 DEF Got
<1>8. t.phase = "latest" => /\ todo = t.todo /\ ~t.throttled
                            /\ kind # "throttled" => left = t.todo \ {d}
  <2> SUFFICES ASSUME t.phase = "latest"
               PROVE  todo = t.todo /\ ~t.throttled
                      /\ (kind # "throttled" => left = t.todo \ {d})
    OBVIOUS
  <2>1. todo = t.todo
    OBVIOUS
  <2>2. ~t.throttled
    BY <1>1, <2>1 DEF Read, Heard
  <2>3. \A e \in todo : e > d <=> e # d
    <3>1. \A e \in todo : e \in Nat
      BY <1>4, GateAssumption
    <3> QED BY <1>5, <3>1
  <2> HIDE DEF d
  <2> QED BY <2>1, <2>2, <2>3
<1> HIDE DEF page, left, d, todo
<1>9. n \in TurnRec
  <2>1. [kind |-> kind, page |-> page] \in Maybe(Got) /\ (kind = "throttled") \in BOOLEAN
    BY <1>7 DEF Maybe
  <2> QED BY <1>1, <1>7, <2>1 DEF TurnRec, Pcs
<1>10. /\ n.pc = "apply" /\ n.got = [kind |-> kind, page |-> page] /\ n.todo = left
       /\ n.throttled = (kind = "throttled") /\ n.phase = t.phase /\ n.defs = t.defs
       /\ n.obs = t.obs /\ n.bases = t.bases /\ n.newest = t.newest /\ n.ev = t.ev
       /\ n.active = t.active
  BY <1>1 DEF TurnRec
<1> HIDE DEF n
<1>11. Heard(t, {}) /\ AtHand(n) = {d}
  BY <1>1, <1>6, <1>10 DEF Read, AtHand
<1>12. Heard(n, {d})
  <2>1. kind = "throttled" => left = {}
    BY DEF left
  <2> QED BY <1>8, <1>10, <1>11, <2>1 DEF Heard
<1>13. Read(n)
  BY <1>1, <1>4, <1>5, <1>6, <1>7, <1>10, <1>11, <1>12 DEF Read
<1>14. TurnOK(n, gate)
  BY <1>1, <1>9, <1>10, <1>13 DEF TurnOK
<1> QED BY <1>2, <1>3, <1>14, QuietStepTyped

LEMMA CaughtUpTyped ==
    ASSUME Types, NEW o \in Observers, CaughtUp(o)
    PROVE  Types'
<1> DEFINE t == turn[o]
           n == [t EXCEPT !.pc = "consider", !.phase = "end"]
<1>1. t \in TurnRec /\ Read(t) /\ t.active <= gate.incidents /\ t.pc = "fetch"
  BY DEF Types, TurnsOK, TurnOK, CaughtUp
<1>2. /\ n \in TurnRec /\ n.pc = "consider" /\ n.phase = "end" /\ n.todo = t.todo
      /\ n.defs = t.defs /\ n.obs = t.obs /\ n.bases = t.bases /\ n.newest = t.newest
      /\ n.ev = t.ev /\ n.active = t.active
  BY <1>1 DEF TurnRec, Pcs
<1>3. Set(o, n) /\ UNCHANGED <<forge, manual, gate, repair, items, hist>>
  BY DEF CaughtUp, World
<1> HIDE DEF n
<1>4. Read(n)
  BY <1>1, <1>2 DEF Read, Heard, AtHand
<1>5. TurnOK(n, gate)
  BY <1>1, <1>2, <1>4 DEF TurnOK
<1>6. PlanOK'
  BY DEF Types, PlanOK, CaughtUp, World
<1> QED BY <1>3, <1>5, <1>6, QuietStepTyped

\* A page is written back by an observation that has one at hand.
LEMMA CommittedTyped ==
    ASSUME Types, NEW o \in Observers, NEW t \in TurnRec, Heard(t, {}), EvidenceOK(t.ev),
           t.todo \subseteq t.defs, t.active <= gate.incidents, turn[o].got \in Got,
           NEW d \in Definitions, NEW record \in Obs, NEW changed \in BOOLEAN,
           NEW branch \in Branches \union {NoBranch},
           Committed(o, t, d, record, changed, branch)
    PROVE  Types'
<1> DEFINE next   == Commit(t, d, record, changed, branch)
           page   == turn[o].got.page
           closed == ClosedIn(next.obs)
           due    == IF closed THEN {} ELSE {w \in Items : items[w].held}
           n      == [t EXCEPT !.pc = "settle", !.changed = changed, !.branch = branch,
                               !.closed = closed, !.got = <<>>, !.due = due]
           read   == {RunOf(k) : k \in Keys(page.runs)}
<1>1. GateOK(gate) /\ items \in [Items -> ItemRec] /\ HistOK(hist) /\ gate.incidents \in Nat
  BY DEF Types, GateOK
<1>2. gate' = next /\ Set(o, n) /\ UNCHANGED <<plan, forge, manual, may, repair, items>>
      /\ hist' = IF turn[o].got.kind # "observed" THEN hist
                 ELSE [hist EXCEPT !.read[d] = @ \union read,
                                   !.mixed = IF page.branch = record.cov.branch THEN @
                                             ELSE @ \union {d}]
  BY DEF Committed, World
<1>3. t.obs \in [Definitions -> Obs] /\ t.active \in Nat
  BY DEF Heard, TurnRec
<1>4. GateOK(next) /\ next.incidents >= gate.incidents
  BY <1>1, <1>3, CommitTyped
<1>5. closed \in BOOLEAN /\ due \in SUBSET Items
  BY DEF ClosedIn
<1>6. read \in SUBSET Nat
  <2>1. \A k \in Keys(page.runs) : k \in Nat
    BY DEF Got, Pages, Run, Keyed, Keys
  <2> QED BY <2>1, RunOfTyped
<1> HIDE DEF next, closed, due, read
<1>7. HistOK(hist')
  <2> DEFINE mixed == IF page.branch = record.cov.branch THEN hist.mixed
                      ELSE hist.mixed \union {d}
  <2>1. mixed \in SUBSET Definitions
    BY <1>1 DEF HistOK
  <2> HIDE DEF mixed
  <2>2. hist' = IF turn[o].got.kind # "observed" THEN hist
                ELSE [hist EXCEPT !.read[d] = @ \union read, !.mixed = mixed]
    BY <1>2 DEF mixed
  <2> QED BY <1>1, <1>6, <2>1, <2>2 DEF HistOK
<1>8. n \in TurnRec
  <2>1. <<>> \in Maybe(Got)
    BY DEF Maybe
  <2> QED BY <1>5, <2>1 DEF TurnRec, Pcs
<1>9. /\ n.pc = "settle" /\ n.todo = t.todo /\ n.defs = t.defs /\ n.obs = t.obs
      /\ n.bases = t.bases /\ n.newest = t.newest /\ n.ev = t.ev /\ n.active = t.active
      /\ n.throttled = t.throttled /\ n.phase = t.phase
  BY DEF TurnRec
<1> HIDE DEF n
<1>10. Read(n)
  BY <1>9 DEF Read, Heard, AtHand
<1>11. TurnOK(n, gate')
  <2>1. n.active <= next.incidents
    BY <1>1, <1>3, <1>4, <1>9 DEF GateOK
  <2> QED BY <1>2, <1>8, <1>10, <2>1 DEF TurnOK
<1>12. GateOK(gate') /\ gate'.incidents >= gate.incidents /\ items' \in [Items -> ItemRec]
  BY <1>1, <1>2, <1>4
<1>13. PlanOK'
  BY <1>2 DEF Types, PlanOK
<1>14. UNCHANGED <<forge, manual, repair>> /\ Set(o, n)
  BY <1>2
<1> QED BY <1>7, <1>11, <1>12, <1>13, <1>14, TurnStepTyped

\* The runs that decide a newest page are runs of it.
LEMMA NewestCompared ==
    ASSUME NEW prior, NEW page \in SUBSET Run
    PROVE  /\ Compared(prior, page, FALSE, FALSE, <<>>) = {[run |-> r, rank |-> 2] : r \in page}
           /\ {x.run : x \in Decisive(Compared(prior, page, FALSE, FALSE, <<>>))} \in SUBSET Run
<1>1. DOMAIN <<>> = {}
  OBVIOUS
<1>2. Compared(prior, page, FALSE, FALSE, <<>>) = {[run |-> r, rank |-> 2] : r \in page}
  BY <1>1 DEF Compared
<1>3. \A x \in {[run |-> r, rank |-> 2] : r \in page} : x.run \in Run
  OBVIOUS
<1> QED BY <1>2, <1>3 DEF Decisive

LEMMA ApplyNewestTyped ==
    ASSUME Types, NEW o \in Observers, ApplyNewest(o)
    PROVE  Types'
<1> DEFINE t       == turn[o]
           kind    == t.got.kind
           p       == t.got.page
           prior   == t.obs[p.def]
           called  == kind \in {"observed", "unavailable"}
           changed == t.changed \/ (called /\ t.branch \notin {NoBranch, p.branch})
           known   == IF changed THEN NoObservation ELSE prior
           branch  == IF called THEN p.branch ELSE t.branch
           seen    == Applied(known, p.runs, FALSE, FALSE, <<>>)
           cov     == ApplyLatest(known.cov, branch, p.runs, p.exhausted, t.bases[p.def],
                                  Irrelevant(seen))
           first   == Decisive(Compared(known, p.runs, FALSE, FALSE, <<>>))
           heard   == [known |-> TRUE, first |-> {x.run : x \in first}]
           missed  == [known |-> FALSE, first |-> {}]
<1>1. /\ t \in TurnRec /\ Read(t) /\ t.active <= gate.incidents /\ t.pc = "apply"
      /\ t.phase = "latest"
  BY DEF Types, TurnsOK, TurnOK, ApplyNewest
<1>2. /\ t.got \in Got /\ p.def \in t.defs /\ Heard(t, {p.def}) /\ EvidenceOK(t.ev)
      /\ t.todo \subseteq t.defs
  BY <1>1 DEF Read, AtHand
<1>3. p \in Pages /\ p.def \in Definitions /\ p.runs \in SUBSET Run /\ IsFiniteSet(p.runs)
      /\ p.branch \in Branches /\ p.exhausted \in BOOLEAN
  BY <1>2 DEF Got, Pages
<1>4. prior \in Obs /\ t.bases[p.def] \in Nat /\ t.branch \in Branches \union {NoBranch}
      /\ t.changed \in BOOLEAN
  BY <1>1, <1>2, <1>3 DEF Heard, TurnRec
<1> HIDE DEF prior, p, kind
<1>5. changed \in BOOLEAN /\ branch \in Branches \union {NoBranch}
      /\ (kind = "observed" => branch \in Branches)
  BY <1>3, <1>4
<1> HIDE DEF changed, branch, called
<1>6. known \in Obs /\ known.cov \in Cov
  BY <1>4, NoObservationTyped DEF Obs
<1> HIDE DEF known
<1>7. seen \in Obs
  <2>1. Known(<<>>)
    BY DEF Known
  <2>2. FALSE \in BOOLEAN
    OBVIOUS
  <2> QED BY <1>3, <1>6, <2>1, <2>2, AppliedTyped
<1>8. {x.run : x \in first} \in SUBSET Run
  BY <1>3, NewestCompared
<1> HIDE DEF seen, first
<1>9. kind = "observed" => cov \in Cov
  <2>1. Irrelevant(seen) \in BOOLEAN
    BY DEF Irrelevant
  <2> QED BY <1>3, <1>4, <1>5, <1>6, <2>1, LatestShaped
<1> HIDE DEF cov
<1>10. kind = "observed" => [seen EXCEPT !.cov = cov] \in Obs
  BY <1>7, <1>9, WithCoverage
<1>11. Unavailable(known) \in Obs
  BY <1>6, UnavailableTyped
<1>12. heard \in NewestRec /\ missed \in NewestRec
  BY <1>8 DEF NewestRec
<1> HIDE DEF heard, missed
<1>13. ASSUME NEW r \in NewestRec
       PROVE  LET n == [t EXCEPT !.newest[p.def] = r]
              IN  /\ n \in TurnRec /\ Heard(n, {}) /\ EvidenceOK(n.ev) /\ n.todo \subseteq n.defs
                  /\ n.active <= gate.incidents
  <2> DEFINE n == [t EXCEPT !.newest[p.def] = r]
             f == [t.newest EXCEPT ![p.def] = r]
  <2>1. t.newest \in [Definitions -> Maybe(NewestRec)]
    BY <1>2 DEF Heard
  <2>2. f \in [Definitions -> Maybe(NewestRec)] /\ f[p.def] = r
        /\ \A d \in Definitions : d # p.def => f[d] = t.newest[d]
    BY <1>3, <1>13, <2>1 DEF Maybe
  <2>3. n = [t EXCEPT !.newest = f]
    BY <1>1 DEF TurnRec
  <2> HIDE DEF f, n
  <2>4. f \in Maybe([Definitions -> Maybe(NewestRec)])
    BY <2>2 DEF Maybe
  <2>5. n \in TurnRec
    BY <1>1, <2>3, <2>4 DEF TurnRec
  <2>6. /\ n.newest = f /\ n.todo = t.todo /\ n.defs = t.defs /\ n.obs = t.obs
        /\ n.bases = t.bases /\ n.ev = t.ev /\ n.active = t.active /\ n.phase = t.phase
        /\ n.throttled = t.throttled
    BY <1>1, <2>3 DEF TurnRec
  <2>7. Heard(n, {})
    <3>1. t.defs \subseteq Definitions
      BY <1>1 DEF TurnRec
    <3> QED BY <1>1, <1>2, <1>13, <2>2, <2>6, <3>1 DEF Heard
  <2> QED BY <1>1, <1>2, <2>5, <2>6, <2>7 DEF n
<1>14. CASE kind = "observed"
  <2> DEFINE n == [t EXCEPT !.newest[p.def] = heard]
  <2>1. Committed(o, n, p.def, [seen EXCEPT !.cov = cov], changed, branch)
    BY <1>14 DEF ApplyNewest, kind, p, prior, called, changed, known, branch, seen, cov, first,
                 heard
  <2>2. /\ n \in TurnRec /\ Heard(n, {}) /\ EvidenceOK(n.ev) /\ n.todo \subseteq n.defs
        /\ n.active <= gate.incidents
    BY <1>12, <1>13
  <2> HIDE DEF n
  <2> QED BY <1>2, <1>3, <1>5, <1>10, <1>14, <2>1, <2>2, CommittedTyped
<1>15. CASE kind # "observed"
  <2> DEFINE n == [t EXCEPT !.newest[p.def] = missed]
  <2>1. Committed(o, n, p.def, Unavailable(known), changed, branch)
    BY <1>15 DEF ApplyNewest, kind, p, prior, called, changed, known, branch, missed
  <2>2. /\ n \in TurnRec /\ Heard(n, {}) /\ EvidenceOK(n.ev) /\ n.todo \subseteq n.defs
        /\ n.active <= gate.incidents
    BY <1>12, <1>13
  <2> HIDE DEF n
  <2> QED BY <1>2, <1>3, <1>5, <1>11, <1>15, <2>1, <2>2, CommittedTyped
<1> QED BY <1>14, <1>15

LEMMA ApplyOlderTyped ==
    ASSUME Types, NEW o \in Observers, ApplyOlder(o)
    PROVE  Types'
<1> DEFINE t     == turn[o]
           p     == t.got.page
           prior == t.obs[p.def]
           cov   == ApplyCatchUp(prior.cov, p.runs, p.exhausted)
           seen  == IF t.newest[p.def].known
                    THEN Applied(prior, p.runs, t.changed, TRUE, Context(t, p.def))
                    ELSE prior
<1>1. /\ t \in TurnRec /\ Read(t) /\ t.active <= gate.incidents /\ t.pc = "apply"
      /\ t.phase = "catch_up"
  BY DEF Types, TurnsOK, TurnOK, ApplyOlder
<1>2. /\ t.got \in Got /\ p.def \in t.defs /\ Heard(t, {p.def}) /\ EvidenceOK(t.ev)
      /\ t.todo \subseteq t.defs
  BY <1>1 DEF Read, AtHand
<1>3. p \in Pages /\ p.def \in Definitions /\ p.runs \in SUBSET Run /\ IsFiniteSet(p.runs)
      /\ p.branch \in Branches /\ p.exhausted \in BOOLEAN
  BY <1>2 DEF Got, Pages
<1>4. prior \in Obs /\ prior.cov \in Cov /\ t.branch \in Branches \union {NoBranch}
      /\ t.changed \in BOOLEAN /\ t.newest[p.def] \in NewestRec
  BY <1>1, <1>2, <1>3 DEF Heard, TurnRec, Obs
<1>5. cov \in Cov
  BY <1>3, <1>4, CatchUpShaped
<1>6. Known(Context(t, p.def))
  BY <1>4, ContextKnown DEF Obs, NewestRec
<1>7. seen \in Obs
  <2>1. Applied(prior, p.runs, t.changed, TRUE, Context(t, p.def)) \in Obs
    BY <1>3, <1>4, <1>6, AppliedTyped
  <2> QED BY <1>4, <2>1
<1> HIDE DEF cov, seen
<1>8. [seen EXCEPT !.cov = cov] \in Obs
  BY <1>5, <1>7, WithCoverage
<1>9. Heard(t, {})
  BY <1>1, <1>2 DEF Heard
<1>10. CASE t.got.kind = "observed"
  <2>1. Committed(o, t, p.def, [seen EXCEPT !.cov = cov], t.changed, t.branch)
    BY <1>10 DEF ApplyOlder, seen, cov
  <2> QED BY <1>1, <1>2, <1>3, <1>4, <1>8, <1>9, <2>1, CommittedTyped
<1>11. CASE t.got.kind = "unavailable"
  <2> DEFINE n == [t EXCEPT !.pc = "fetch", !.got = <<>>]
  <2>1. Set(o, n) /\ UNCHANGED <<plan, forge, manual, may, gate, repair, items, hist>>
    BY <1>11 DEF ApplyOlder, World
  <2>2. n \in TurnRec
    <3>1. <<>> \in Maybe(Got)
      BY DEF Maybe
    <3> QED BY <1>1, <3>1 DEF TurnRec, Pcs
  <2>3. /\ n.pc = "fetch" /\ n.todo = t.todo /\ n.defs = t.defs /\ n.obs = t.obs
        /\ n.bases = t.bases /\ n.newest = t.newest /\ n.ev = t.ev /\ n.active = t.active
        /\ n.throttled = t.throttled /\ n.phase = t.phase
    BY <1>1 DEF TurnRec
  <2> HIDE DEF n
  <2>4. Read(n)
    BY <1>2, <1>9, <2>3 DEF Read, Heard, AtHand
  <2>5. TurnOK(n, gate)
    BY <1>1, <2>2, <2>3, <2>4 DEF TurnOK
  <2>6. PlanOK'
    BY <2>1 DEF Types, PlanOK
  <2> QED BY <2>1, <2>5, <2>6, QuietStepTyped
<1>12. CASE t.got.kind \notin {"observed", "unavailable"}
  <2>1. Committed(o, t, p.def, prior, t.changed, t.branch)
    BY <1>12 DEF ApplyOlder
  <2> QED BY <1>1, <1>2, <1>3, <1>4, <1>9, <2>1, CommittedTyped
<1> QED BY <1>10, <1>11, <1>12

LEMMA SettleTyped ==
    ASSUME Types, NEW o \in Observers, NEW left \in SUBSET Items, Settle(o, left)
    PROVE  Types'
<1> DEFINE t   == turn[o]
           due == {w \in t.due \ left : ~GateHolds(w)}
           pc  == IF t.phase = "end" \/ (t.phase = "latest" /\ t.todo = {})
                  THEN "consider" ELSE "fetch"
           n   == [t EXCEPT !.obs = gate.obs, !.active = Active, !.due = due, !.pc = pc]
<1>1. /\ t \in TurnRec /\ Read(t) /\ t.active <= gate.incidents /\ t.pc = "settle"
      /\ GateOK(gate) /\ items \in [Items -> ItemRec] /\ HistOK(hist)
  BY DEF Types, TurnsOK, TurnOK, Settle
<1>2. /\ items' = Released(t, left) /\ Set(o, n)
      /\ UNCHANGED <<plan, forge, manual, repair, gate, hist>>
  BY DEF Settle, World
<1>3. Active \in Nat /\ Active <= gate.incidents /\ gate.obs \in [Definitions -> Obs]
      /\ gate.incidents \in Nat
  BY <1>1, OpenFinite DEF GateOK, Active
<1>4. due \in SUBSET Items /\ pc \in Pcs
  BY <1>1 DEF TurnRec, Pcs
<1> HIDE DEF due
<1>5. n \in TurnRec
  <2>1. gate.obs \in Maybe([Definitions -> Obs])
    BY <1>3 DEF Maybe
  <2> HIDE DEF pc
  <2> QED BY <1>1, <1>3, <1>4, <2>1 DEF TurnRec
<1>6. /\ n.pc = pc /\ n.todo = t.todo /\ n.defs = t.defs /\ n.obs = gate.obs
      /\ n.bases = t.bases /\ n.newest = t.newest /\ n.ev = t.ev /\ n.active = Active
      /\ n.throttled = t.throttled /\ n.phase = t.phase
  BY <1>1 DEF TurnRec
<1> HIDE DEF n
<1>7. Read(n)
  <2>1. t.phase \in {"latest", "catch_up", "end"}
    BY <1>1 DEF TurnRec
  <2> QED BY <1>1, <1>3, <1>6, <2>1 DEF Read, Heard, AtHand
<1>8. TurnOK(n, gate) /\ TurnOK(n, gate')
  BY <1>2, <1>3, <1>5, <1>6, <1>7 DEF TurnOK
<1>9. items' \in [Items -> ItemRec]
  <2>1. \A w \in Items : (items[w].held /\ (w \in left \/ GateHolds(w))) \in BOOLEAN
    BY <1>1 DEF ItemRec
  <2>2. [w \in Items |-> [items[w] EXCEPT !.held = @ /\ (w \in left \/ GateHolds(w))]]
        \in [Items -> ItemRec]
    BY <1>1, <2>1 DEF ItemRec
  <2> QED BY <1>1, <1>2, <2>2 DEF Released
<1>p. PlanOK'
  <2>1. UNCHANGED may \/ Once("fault")
    BY DEF Settle
  <2> QED BY <1>2, <2>1, OnceTyped DEF Types, PlanOK, Calls
<1>10. PlanOK' /\ GateOK(gate') /\ gate'.incidents >= gate.incidents /\ HistOK(hist')
  BY <1>1, <1>2, <1>3, <1>p
<1>11. UNCHANGED <<forge, manual, repair>> /\ Set(o, n)
  BY <1>2
<1> QED BY <1>8, <1>9, <1>10, <1>11, TurnStepTyped

\* An observation goes on after its CI Repair was considered.
LEMMA ResumeTyped ==
    ASSUME NEW t, GateOK(gate), TurnOK(t, gate), t.pc \in {"consider", "create"}
    PROVE  TurnOK(Resume(t), gate)
<1>1. t \in TurnRec /\ Read(t) /\ t.active <= gate.incidents /\ gate.incidents \in Nat
  BY DEF TurnOK, GateOK
<1>2. EvidenceOK({})
  BY DEF EvidenceOK
<1>3. CASE t.phase = "end"
  BY <1>1, <1>3, NoTurnOK DEF Resume
<1>4. CASE t.phase # "end" /\ t.throttled
  <2> DEFINE n == [t EXCEPT !.pc = "consider", !.phase = "end", !.ev = {}]
  <2>1. /\ n \in TurnRec /\ n.pc = "consider" /\ n.phase = "end" /\ n.todo = t.todo
        /\ n.defs = t.defs /\ n.obs = t.obs /\ n.bases = t.bases /\ n.newest = t.newest
        /\ n.ev = {} /\ n.active = t.active
    BY <1>1 DEF TurnRec, Pcs
  <2>2. Resume(t) = n
    BY <1>4 DEF Resume
  <2> HIDE DEF n
  <2>3. Read(n)
    BY <1>1, <1>2, <2>1 DEF Read, Heard, AtHand
  <2> QED BY <1>1, <2>1, <2>2, <2>3 DEF TurnOK
<1>5. CASE t.phase # "end" /\ ~t.throttled
  <2> DEFINE n == [t EXCEPT !.pc = "fetch", !.phase = "catch_up", !.todo = t.defs, !.ev = {}]
  <2>1. /\ n \in TurnRec /\ n.pc = "fetch" /\ n.phase = "catch_up" /\ n.todo = t.defs
        /\ n.defs = t.defs /\ n.obs = t.obs /\ n.bases = t.bases /\ n.newest = t.newest
        /\ n.ev = {} /\ n.active = t.active
    BY <1>1 DEF TurnRec, Pcs
  <2>2. Resume(t) = n
    BY <1>5 DEF Resume
  <2>3. t.phase = "latest" /\ t.todo = {} /\ Heard(t, {})
    BY <1>1, <1>5 DEF Read, AtHand
  <2>4. \A d \in t.defs : t.newest[d] \in NewestRec
    BY <1>5, <2>3 DEF Heard
  <2> HIDE DEF n
  <2>5. Read(n)
    BY <1>2, <2>1, <2>3, <2>4 DEF Read, Heard, AtHand
  <2> QED BY <1>1, <2>1, <2>2, <2>5 DEF TurnOK
<1> QED BY <1>3, <1>4, <1>5

LEMMA ConsiderTyped ==
    ASSUME Types, NEW o \in Observers, Consider(o)
    PROVE  Types'
<1> DEFINE t == turn[o]
           n == [t EXCEPT !.pc = "create", !.ev = Evidence, !.known = hist.handled]
<1>1. /\ t \in TurnRec /\ Read(t) /\ t.active <= gate.incidents /\ t.pc = "consider"
      /\ TurnOK(t, gate) /\ GateOK(gate) /\ HistOK(hist)
  BY DEF Types, TurnsOK, TurnOK, Consider
<1>2. Set(o, IF plan.auto /\ ~repair.unfinished /\ Wanted THEN n ELSE Resume(t))
      /\ UNCHANGED <<plan, forge, manual, may, repair, gate, items, hist>>
  BY DEF Consider, World
<1>3. PlanOK'
  BY <1>2 DEF Types, PlanOK
<1>4. CASE ~(plan.auto /\ ~repair.unfinished /\ Wanted)
  <2>1. TurnOK(Resume(t), gate)
    BY <1>1, ResumeTyped
  <2> QED BY <1>2, <1>3, <1>4, <2>1, QuietStepTyped
<1>5. CASE plan.auto /\ ~repair.unfinished /\ Wanted
  <2>1. EvidenceOK(Evidence) /\ Evidence # {}
    BY <1>1, <1>5, EvidenceTyped DEF Wanted
  <2>2. hist.handled \in Maybe([Definitions -> SUBSET Nat])
    BY <1>1 DEF HistOK, Maybe
  <2>3. /\ n \in TurnRec /\ n.pc = "create" /\ n.phase = t.phase /\ n.todo = t.todo
        /\ n.defs = t.defs /\ n.obs = t.obs /\ n.bases = t.bases /\ n.newest = t.newest
        /\ n.ev = Evidence /\ n.active = t.active /\ n.throttled = t.throttled
    BY <1>1, <2>1, <2>2 DEF TurnRec, Pcs, EvidenceOK
  <2> HIDE DEF n
  <2>4. Read(n)
    BY <1>1, <2>1, <2>3 DEF Read, Heard, AtHand
  <2>5. TurnOK(n, gate)
    BY <1>1, <2>3, <2>4 DEF TurnOK
  <2>6. Set(o, n)
    BY <1>2, <1>5
  <2> QED BY <1>2, <1>3, <2>5, <2>6, QuietStepTyped
<1> QED BY <1>4, <1>5

LEMMA CreatedTyped ==
    ASSUME RepairOK(repair), NEW ev, EvidenceOK(ev), ev # {}
    PROVE  RepairOK(Created(ev))
BY DEF RepairOK, Created, EvidenceOK

LEMMA CreateTyped ==
    ASSUME Types, NEW o \in Observers, Create(o)
    PROVE  Types'
<1> DEFINE t == turn[o]
<1>1. /\ t \in TurnRec /\ Read(t) /\ t.pc = "create" /\ TurnOK(t, gate) /\ GateOK(gate)
      /\ RepairOK(repair) /\ TurnsOK(turn, gate)
  BY DEF Types, TurnsOK, TurnOK, Create
<1>2. repair' = Created(t.ev) /\ Set(o, Resume(t))
      /\ UNCHANGED <<plan, forge, manual, may, gate, items, hist>>
  BY DEF Create, World
<1>3. RepairOK(repair')
  BY <1>1, <1>2, CreatedTyped DEF Read
<1>4. TurnOK(Resume(t), gate)
  BY <1>1, ResumeTyped
<1>5. TurnsOK(turn', gate)
  <2>1. gate.incidents >= gate.incidents
    BY <1>1 DEF GateOK
  <2>2. TurnsOK([turn EXCEPT ![o] = Resume(t)], gate)
    BY <1>1, <1>4, <2>1, TurnsSet
  <2> QED BY <1>2, <2>2 DEF Set
<1> QED BY <1>2, <1>3, <1>5 DEF Types, PlanOK

LEMMA StartFailsTyped ==
    ASSUME Types, NEW o \in Observers, StartFails(o)
    PROVE  Types'
<1> DEFINE t == turn[o]
<1>1. t.pc \in {"consider", "create"} /\ TurnOK(t, gate) /\ GateOK(gate)
  BY DEF Types, TurnsOK, StartFails
<1>2. Set(o, Resume(t)) /\ UNCHANGED <<forge, manual, gate, repair, items, hist>>
  BY DEF StartFails, World
<1>3. PlanOK'
  BY OnceTyped DEF StartFails, World, Types, PlanOK, Calls
<1>4. TurnOK(Resume(t), gate)
  BY <1>1, ResumeTyped
<1> QED BY <1>2, <1>3, <1>4, QuietStepTyped

\* A Work Item that is held anew is nobody's to let go.
LEMMA LessDueTyped ==
    ASSUME NEW t, TurnOK(t, gate), NEW w
    PROVE  TurnOK([t EXCEPT !.due = @ \ {w}], gate)
<1>1. t \in TurnRec /\ Read(t) /\ t.active <= gate.incidents
  BY DEF TurnOK
<1> DEFINE n == [t EXCEPT !.due = @ \ {w}]
<1>2. /\ n \in TurnRec /\ n.pc = t.pc /\ n.phase = t.phase /\ n.todo = t.todo
      /\ n.defs = t.defs /\ n.obs = t.obs /\ n.bases = t.bases /\ n.newest = t.newest
      /\ n.ev = t.ev /\ n.active = t.active /\ n.throttled = t.throttled /\ n.got = t.got
  BY <1>1 DEF TurnRec
<1> HIDE DEF n
<1>3. Read(n)
  BY <1>1, <1>2 DEF Read, Heard, AtHand
<1>4. TurnOK(n, gate)
  BY <1>1, <1>2, <1>3 DEF TurnOK
<1> QED BY <1>4 DEF n

LEMMA NotDueTyped ==
    ASSUME TurnsOK(turn, gate), NEW w, NotDue(w)
    PROVE  TurnsOK(turn', gate)
<1>1. \A o \in Observers : TurnOK(turn'[o], gate)
  BY LessDueTyped DEF TurnsOK, NotDue
<1> QED BY <1>1 DEF TurnsOK, TurnOK, NotDue

LEMMA ManualTyped ==
    ASSUME Types, StartManual \/ CreateManual \/ ManualFails
    PROVE  Types'
<1>1. GateOK(gate) /\ RepairOK(repair) /\ EvidenceOK(manual) /\ PlanOK /\ TurnsOK(turn, gate)
  BY DEF Types
<1>2. CASE StartManual
  <2>1. PlanOK'
    BY <1>1, <1>2, OnceTyped DEF StartManual, PlanOK, Calls
  <2>2. EvidenceOK(manual')
    BY <1>1, <1>2, EvidenceTyped DEF StartManual
  <2>3. UNCHANGED <<forge, gate, repair, items, turn, hist>>
    BY <1>2 DEF StartManual
  <2> QED BY <2>1, <2>2, <2>3 DEF Types
<1>3. CASE CreateManual
  <2>1. RepairOK(repair') /\ EvidenceOK(manual')
    BY <1>1, <1>3, CreatedTyped DEF CreateManual, EvidenceOK
  <2>2. PlanOK'
    BY <1>1, <1>3 DEF CreateManual, Bound, PlanOK
  <2>3. UNCHANGED <<forge, gate, items, turn, hist>>
    BY <1>3 DEF CreateManual
  <2> QED BY <2>1, <2>2, <2>3 DEF Types
<1>4. CASE ManualFails
  <2>1. PlanOK'
    BY <1>1, <1>4, OnceTyped DEF ManualFails, PlanOK, Calls
  <2>2. EvidenceOK(manual')
    BY <1>4 DEF ManualFails, EvidenceOK
  <2>3. UNCHANGED <<forge, gate, repair, items, turn, hist>>
    BY <1>4 DEF ManualFails
  <2> QED BY <2>1, <2>2, <2>3 DEF Types
<1> QED BY <1>2, <1>3, <1>4

LEMMA NewestOfThree ==
    ASSUME NEW a \in Nat, NEW b \in Nat, NEW c \in Nat
    PROVE  /\ Newest({a, b, c}) \in Nat
           /\ a <= Newest({a, b, c}) /\ b <= Newest({a, b, c}) /\ c <= Newest({a, b, c})
<1> DEFINE S == {a, b, c}
<1>1. S \subseteq Nat
  OBVIOUS
<1>2. \A x \in S : x <= a + b + c
  OBVIOUS
<1>3. a + b + c \in Nat
  OBVIOUS
<1> HIDE DEF S
<1>4. IsFiniteSet(S)
  BY <1>1, <1>2, <1>3, FS_BoundedSetOfNaturals
<1>5. Newest(S) \in Nat /\ \A x \in S : x <= Newest(S)
  BY <1>1, <1>4, NewestOf
<1> QED BY <1>5 DEF S

LEMMA EndTyped ==
    ASSUME Types, NEW how \in {"merged", "no_change", "abandoned"}, End(how)
    PROVE  Types'
<1> DEFINE ev      == repair.ev
           last(d) == IF how = "no_change" THEN gate.obs[d].last.key ELSE None
<1>1. GateOK(gate) /\ RepairOK(repair) /\ PlanOK /\ TurnsOK(turn, gate) /\ HistOK(hist)
  BY DEF Types
<1>2. EvidenceOK(ev) /\ repair.base \in [Definitions -> Baseline]
  BY <1>1 DEF RepairOK
<1>3. \A d \in Definitions : KeyOf(ev, d) \in Nat
  BY <1>2, KeyOfTyped
<1>4. \A d \in Definitions : gate.obs[d].last.key \in Nat /\ last(d) \in Nat
  BY <1>1 DEF GateOK, Obs, LastRun, None
<1>5. /\ MergeFloor(repair.base, ev) \in [Definitions -> Baseline]
      /\ NoChange(repair.base) \in [Definitions -> Baseline]
      /\ Suppress(repair.base, ev) \in [Definitions -> Baseline]
  BY <1>2, <1>3, <1>4 DEF MergeFloor, NoChange, Suppress, Baseline, NoBaseline, None
<1>6. RepairOK(repair')
  <2>1. EvidenceOK({})
    BY DEF EvidenceOK
  <2> QED BY <1>5, <2>1 DEF End, RepairOK
<1>7. HistOK(hist')
  <2> DEFINE handled == [d \in Definitions |-> hist.handled[d] \union {KeyOf(ev, d)}]
             settled == [d \in Definitions |-> Newest({hist.settled[d], KeyOf(ev, d), last(d)})]
  <2>1. handled \in [Definitions -> SUBSET Nat]
    BY <1>1, <1>3 DEF HistOK
  <2>2. \A d \in Definitions : Newest({hist.settled[d], KeyOf(ev, d), last(d)}) \in Nat
    BY <1>1, <1>3, <1>4, NewestOfThree DEF HistOK
  <2>3. settled \in [Definitions -> Nat]
    BY <2>2
  <2>4. hist' = [hist EXCEPT !.handled = handled, !.settled = settled]
    BY DEF End
  <2> HIDE DEF handled, settled
  <2> QED BY <1>1, <2>1, <2>3, <2>4 DEF HistOK
<1>8. PlanOK'
  BY <1>1, OnceTyped DEF End, PlanOK, Calls
<1>9. UNCHANGED <<forge, gate, items, turn, manual>>
  BY DEF End
<1> QED BY <1>6, <1>7, <1>8, <1>9 DEF Types

LEMMA ItemTyped ==
    ASSUME Types, NEW w \in Items, Hold(w) \/ AskToMerge(w) \/ HoldMerge(w) \/ Authorize(w)
    PROVE  Types'
<1>1. GateOK(gate) /\ PlanOK /\ TurnsOK(turn, gate) /\ items \in [Items -> ItemRec]
  BY DEF Types
<1>2. Active \in Nat
  BY <1>1, OpenFinite DEF Active
<1>3. items' \in [Items -> ItemRec]
  <2>1. CASE Hold(w)
    BY <1>1, <2>1 DEF Hold, ItemRec
  <2>2. CASE AskToMerge(w)
    BY <1>1, <2>2 DEF AskToMerge, ItemRec
  <2>3. CASE HoldMerge(w)
    <3> DEFINE r == [items[w] EXCEPT !.merging = FALSE, !.held = TRUE]
    <3>1. r \in ItemRec
      BY <1>1 DEF ItemRec
    <3>2. items' = [items EXCEPT ![w] = r]
      BY <1>1, <2>3 DEF HoldMerge, ItemRec
    <3> QED BY <1>1, <3>1, <3>2
  <2>4. CASE Authorize(w)
    <3> DEFINE r == [items[w] EXCEPT !.incidents = @ \union {Active}, !.held = FALSE]
    <3>1. r \in ItemRec
      BY <1>1, <1>2 DEF ItemRec
    <3>2. items' = [items EXCEPT ![w] = r]
      BY <1>1, <2>4 DEF Authorize, ItemRec
    <3> QED BY <1>1, <3>1, <3>2
  <2> QED BY <2>1, <2>2, <2>3, <2>4
<1>4. TurnsOK(turn', gate)
  BY <1>1, NotDueTyped DEF Hold, AskToMerge, HoldMerge, Authorize
<1>5. PlanOK'
  BY <1>1, OnceTyped DEF Hold, AskToMerge, HoldMerge, Authorize, PlanOK, Calls, Bound
<1>6. UNCHANGED <<forge, gate, repair, manual, hist>>
  BY DEF Hold, AskToMerge, HoldMerge, Authorize
<1> QED BY <1>3, <1>4, <1>5, <1>6 DEF Types

LEMMA SelectTyped ==
    ASSUME Types, NEW defs \in SUBSET Definitions, Select(defs)
    PROVE  Types'
<1>1. GateOK(gate) /\ PlanOK /\ TurnsOK(turn, gate)
  BY DEF Types
<1>2. GateOK(gate') /\ gate'.incidents = gate.incidents
  BY <1>1 DEF GateOK, Select
<1>3. TurnsOK(turn, gate')
  BY <1>1, <1>2, TurnsKept
<1>4. PlanOK'
  BY <1>1, OnceTyped DEF Select, PlanOK, Calls
<1>5. UNCHANGED <<forge, repair, items, turn, manual, hist>>
  BY DEF Select
<1> QED BY <1>2, <1>3, <1>4, <1>5 DEF Types

LEMMA CrashTyped ==
    ASSUME Types, Crash
    PROVE  Types'
<1>1. GateOK(gate) /\ PlanOK /\ items \in [Items -> ItemRec]
  BY DEF Types
<1>2. TurnsOK(turn', gate)
  <2>1. TurnOK(NoTurn, gate)
    BY <1>1, NoTurnOK DEF GateOK
  <2> QED BY <2>1 DEF Crash, TurnsOK, TurnOK
<1>3. items' \in [Items -> ItemRec]
  BY <1>1 DEF Crash, ItemRec
<1>4. PlanOK'
  BY <1>1, OnceTyped DEF Crash, PlanOK, Calls
<1>5. EvidenceOK(manual')
  BY DEF Crash, EvidenceOK
<1>6. UNCHANGED <<forge, gate, repair, hist>>
  BY DEF Crash
<1> QED BY <1>2, <1>3, <1>4, <1>5, <1>6 DEF Types

LEMMA BranchTyped ==
    ASSUME Types, NEW b \in Branches, ChangeBranch(b)
    PROVE  Types'
<1>1. ForgeOK(forge') /\ PlanOK'
  BY OnceTyped DEF Types, ForgeOK, ChangeBranch, PlanOK, Calls
<1>2. UNCHANGED <<gate, repair, items, turn, manual, hist>>
  BY DEF ChangeBranch
<1> QED BY <1>1, <1>2 DEF Types

LEMMA ForgeTyped ==
    ASSUME Types, Forged
    PROVE  Types'
<1>1. PlanOK'
  BY OnceTyped DEF Types, PlanOK, Forged
<1> QED BY <1>1 DEF Types, Forged

\* What a step is.
ForgeMoves ==
    \E d \in Definitions :
       \/ \E s \in plan.fresh : AppendRun(d, s)
       \/ \E r \in forge.runs[d] :
             Rerun(d, r) \/ Delete(d, r) \/ \E s \in plan.outcomes : Decide(d, r, s)

Observes(o) ==
    \/ Begin(o) \/ Clear(o) \/ CaughtUp(o) \/ ApplyNewest(o) \/ ApplyOlder(o)
    \/ \E k \in Kinds : Fetch(o, k)
    \/ \E left \in SUBSET Items : Settle(o, left)
    \/ Consider(o) \/ Create(o) \/ StartFails(o)

\* The observations are left alone.
Aside ==
    \/ StartManual \/ CreateManual \/ ManualFails \/ UNCHANGED vars
    \/ \E how \in {"merged", "no_change", "abandoned"} : End(how)
    \/ \E b \in Branches : ChangeBranch(b)
    \/ \E w \in Items : AskToMerge(w) \/ Authorize(w)
    \/ \E defs \in SUBSET Definitions : Select(defs)

\* A Work Item is held.
Holds == \E w \in Items : Hold(w) \/ HoldMerge(w)

LEMMA Steps ==
    ASSUME PlanOK, GateOK(gate), [Next]_vars
    PROVE  \/ ForgeMoves \/ Aside \/ Holds \/ Crash
           \/ \E o \in Observers : Observes(o)
<1>1. /\ plan.observers \subseteq Observers /\ plan.items \subseteq Items
      /\ plan.definitions \subseteq Definitions
  BY GateAssumption DEF PlanOK
<1>2. \A left \in SUBSET plan.items : left \in SUBSET Items
  BY <1>1
<1> QED BY <1>1, <1>2 DEF Next, ForgeMoves, Aside, Holds, Observes, Kinds

LEMMA TypesStep == Types /\ [Next]_vars => Types'
<1> SUFFICES ASSUME Types, [Next]_vars PROVE Types'
  OBVIOUS
<1>1. PlanOK /\ GateOK(gate)
  BY DEF Types
<1>2. CASE ForgeMoves
  BY <1>2, ForgeStep, ForgeTyped DEF ForgeMoves
<1>3. CASE Aside
  <2>1. UNCHANGED vars => Types'
    BY DEF vars, Types, PlanOK
  <2> QED BY <1>3, <2>1, ManualTyped, EndTyped, BranchTyped, ItemTyped, SelectTyped DEF Aside
<1>4. CASE Holds
  BY <1>4, ItemTyped DEF Holds
<1>5. CASE Crash
  BY <1>5, CrashTyped
<1>6. CASE \E o \in Observers : Observes(o)
  BY <1>6, BeginTyped, ClearTyped, CaughtUpTyped, ApplyNewestTyped, ApplyOlderTyped, FetchTyped,
     SettleTyped, ConsiderTyped, CreateTyped, StartFailsTyped DEF Observes
<1> QED BY <1>1, <1>2, <1>3, <1>4, <1>5, <1>6, Steps

LEMMA TypesGiveTypeOK == Types => TypeOK
<1> SUFFICES ASSUME Types PROVE TypeOK
  OBVIOUS
<1>1. GateOK(gate) /\ RepairOK(repair) /\ TurnsOK(turn, gate) /\ items \in [Items -> ItemRec]
  BY DEF Types
<1>2. ASSUME NEW d \in Definitions
      PROVE  LET o == gate.obs[d]
             IN  /\ o.latched \in Nat /\ o.err \in BOOLEAN
                 /\ o.last.key \in Nat
                 /\ o.cov.state \in {"complete", "gap", "truncated"}
                 /\ o.cov.state = "gap" => o.cov.upper # None /\ o.cov.progress # None
                 /\ o.cov.floor >= o.cov.upper
                 /\ \A k \in o.cov.pending : k \in Nat \ {None}
  <2>1. gate.obs[d] \in Obs
    BY <1>1 DEF GateOK
  <2>2. gate.obs[d].cov \in CovRec /\ Shaped(gate.obs[d].cov)
    BY <2>1 DEF Obs, Cov
  <2> QED BY <2>1, <2>2 DEF Obs, LastRun, CovRec, Shaped, Keyed
<1>3. /\ gate.definitions \subseteq Definitions
      /\ gate.branch \in Branches \union {NoBranch}
      /\ gate.open \subseteq 1..gate.incidents
      /\ repair.unfinished <=> repair.ev # {}
  BY <1>1 DEF GateOK, RepairOK
<1>4. \A w \in Items : items[w].held \in BOOLEAN /\ items[w].merging \in BOOLEAN
  BY <1>1 DEF ItemRec
<1>5. \A o \in Observers : turn[o].pc \in {"idle", "clear", "fetch", "apply", "settle",
                                             "consider", "create"}
  BY <1>1 DEF TurnsOK, TurnRec, Pcs
<1> QED BY <1>2, <1>3, <1>4, <1>5 DEF TypeOK

LEMMA TypesAlways == Spec => []Types
BY TypesInit, TypesStep, PTL DEF Spec

\* The tables of the CI Gate stay well formed (TypeOK): whatever pages are read,
\* the runs below a gap's upper end are never taken for read, a gap always has a
\* place where reading goes on, and no incident is newer than the newest
\* (ci-gate-coverage.ts, commitWithIncidents).
THEOREM TypeCorrect == Spec => []TypeOK
BY TypesAlways, TypesGiveTypeOK, PTL

-----------------------------------------------------------------------------
(* Observations that follow one another: the incident and the gate. *)

\* Nobody else observes while somebody does.
Solo == \A o, p \in Observers : turn[o].pc # "idle" /\ turn[p].pc # "idle" => o = p

\* One incident is open if the gate is closed, none otherwise.
Single(g) == IF ClosedIn(g.obs) THEN \E i \in Keyed : g.open = {i} ELSE g.open = {}

\* What an observation has read is what the tables hold.
InStep(t, g) == t.pc \notin {"idle", "settle"} => t.obs = g.obs /\ t.active = Newest(g.open)

Sequential ==
    ~hist.overlapped => /\ Solo /\ Single(gate)
                        /\ \A o \in Observers : InStep(turn[o], gate)

\* An observation goes on with what it has read, or is over.
Follows(t, n) ==
    \/ n.pc = "idle"
    \/ t.pc # "idle" /\ n.pc = "settle"
    \/ t.pc \notin {"idle", "settle"} /\ n.obs = t.obs /\ n.active = t.active

LEMMA SequentialInit == Init => Sequential
<1> SUFFICES ASSUME Init PROVE Sequential
  OBVIOUS
<1>1. \A d \in Definitions : gate.obs[d].latched = None
  BY DEF Init, NoObservation
<1>2. gate.open = {} /\ \A o \in Observers : turn[o].pc = "idle"
  BY DEF Init, NoTurn
<1> QED BY <1>1, <1>2 DEF Sequential, Solo, Single, InStep, ClosedIn

LEMMA QuietSequential ==
    ASSUME Sequential, gate'.obs = gate.obs, gate'.open = gate.open,
           hist'.overlapped = hist.overlapped,
           \A o \in Observers : Follows(turn[o], turn'[o])
    PROVE  Sequential'
<1> SUFFICES ASSUME ~hist.overlapped
             PROVE  Solo' /\ Single(gate') /\ \A o \in Observers : InStep(turn'[o], gate')
  BY DEF Sequential
<1>1. Solo /\ Single(gate) /\ \A o \in Observers : InStep(turn[o], gate)
  BY DEF Sequential
<1>2. Solo'
  BY <1>1 DEF Solo, Follows
<1>3. Single(gate')
  BY <1>1 DEF Single
<1>4. \A o \in Observers : InStep(turn'[o], gate')
  BY <1>1 DEF InStep, Follows
<1> QED BY <1>2, <1>3, <1>4

\* A step of an observation that leaves the tables alone.
LEMMA OwnSequential ==
    ASSUME Types, Sequential, UNCHANGED <<gate, hist>>, NEW o \in Observers, NEW n, Set(o, n),
           Follows(turn[o], n)
    PROVE  Sequential'
<1>1. turn' = [turn EXCEPT ![o] = n] /\ turn \in [Observers -> TurnRec]
  BY DEF Set, Types, TurnsOK
<1>2. \A p \in Observers : turn'[p] = IF p = o THEN n ELSE turn[p]
  BY <1>1
<1>3. \A p \in Observers : Follows(turn[p], turn[p])
  BY DEF Follows
<1>4. \A p \in Observers : Follows(turn[p], turn'[p])
  BY <1>2, <1>3
<1> QED BY <1>4, QuietSequential

\* A step of an observation that writes the tables.
LEMMA WritingSequential ==
    ASSUME Types, Sequential, hist'.overlapped = hist.overlapped, NEW o \in Observers, NEW n,
           Set(o, n), turn[o].pc # "idle", n.pc = "settle",
           ~hist.overlapped => Single(gate')
    PROVE  Sequential'
<1> SUFFICES ASSUME ~hist.overlapped
             PROVE  Solo' /\ Single(gate') /\ \A p \in Observers : InStep(turn'[p], gate')
  BY DEF Sequential
<1>1. turn' = [turn EXCEPT ![o] = n] /\ turn \in [Observers -> TurnRec]
  BY DEF Set, Types, TurnsOK
<1>2. \A p \in Observers : turn'[p] = IF p = o THEN n ELSE turn[p]
  BY <1>1
<1>3. \A p \in Observers : p # o => turn[p].pc = "idle"
  BY DEF Sequential, Solo
<1>4. Solo'
  BY <1>2, <1>3 DEF Solo
<1>5. \A p \in Observers : InStep(turn'[p], gate')
  BY <1>2, <1>3 DEF InStep
<1> QED BY <1>4, <1>5

LEMMA BeginSequential ==
    ASSUME Types, Sequential, NEW o \in Observers, Begin(o)
    PROVE  Sequential'
<1> DEFINE t == [NoTurn EXCEPT !.pc = IF gate.definitions = {} THEN "clear" ELSE "fetch",
                               !.defs = gate.definitions, !.todo = gate.definitions,
                               !.obs = gate.obs, !.active = Active, !.branch = gate.branch,
                               !.bases = [d \in Definitions |-> repair.base[d].order],
                               !.newest = [d \in Definitions |-> <<>>]]
<1>1. turn' = [turn EXCEPT ![o] = t] /\ gate' = gate
      /\ hist' = [hist EXCEPT !.overlapped = @ \/ \E p \in Observers : turn[p].pc # "idle"]
  BY DEF Begin, Set
<1>2. t.obs = gate.obs /\ t.active = Newest(gate.open)
  BY DEF NoTurn, Active
<1> HIDE DEF t
<1>3. hist'.overlapped = (hist.overlapped \/ \E p \in Observers : turn[p].pc # "idle")
  BY <1>1 DEF Types, HistOK
<1>4. \A p \in Observers : turn'[p] = IF p = o THEN t ELSE turn[p]
  BY <1>1 DEF Types, TurnsOK
<1> SUFFICES ASSUME ~hist'.overlapped
             PROVE  Solo' /\ Single(gate') /\ \A p \in Observers : InStep(turn'[p], gate')
  BY DEF Sequential
<1>5. ~hist.overlapped /\ \A p \in Observers : turn[p].pc = "idle"
  BY <1>3
<1>6. Solo'
  BY <1>4, <1>5 DEF Solo
<1>7. Single(gate')
  BY <1>1, <1>5 DEF Sequential
<1>8. \A p \in Observers : InStep(turn'[p], gate')
  BY <1>1, <1>2, <1>4, <1>5 DEF InStep
<1> QED BY <1>6, <1>7, <1>8

LEMMA ClearSequential ==
    ASSUME Types, Sequential, NEW o \in Observers, Clear(o)
    PROVE  Sequential'
<1> DEFINE t == turn[o]
           n == [t EXCEPT !.pc = "settle", !.phase = "end", !.closed = FALSE,
                          !.due = {w \in Items : items[w].held}]
<1>1. /\ t \in TurnRec /\ t.pc = "clear" /\ GateOK(gate)
      /\ gate' = [gate EXCEPT !.obs = [d \in Definitions |-> NoObservation], !.open = @ \ {t.active}]
      /\ Set(o, n) /\ UNCHANGED hist
  BY DEF Types, TurnsOK, TurnOK, Clear
<1>2. n.pc = "settle" /\ turn[o].pc # "idle"
  BY <1>1 DEF TurnRec
<1> HIDE DEF n
<1>3. ~hist.overlapped => Single(gate')
  <2> SUFFICES ASSUME ~hist.overlapped PROVE Single(gate')
    OBVIOUS
  <2>1. Single(gate) /\ t.active = Newest(gate.open)
    BY <1>1 DEF Sequential, InStep
  <2>2. ~ClosedIn(gate'.obs) /\ gate'.open = gate.open \ {t.active}
    BY <1>1 DEF ClosedIn, NoObservation, GateOK
  <2>3. gate.open = {} \/ gate.open = {t.active}
    BY <2>1, NewestOfOne DEF Single, Keyed
  <2> QED BY <2>2, <2>3 DEF Single
<1>4. hist'.overlapped = hist.overlapped
  BY <1>1
<1> QED BY <1>1, <1>2, <1>3, <1>4, WritingSequential

\* The incidents follow the latches, if what was read is what the tables hold.
LEMMA CommitSingle ==
    ASSUME GateOK(gate), Single(gate), NEW t, t.obs = gate.obs, t.active = Newest(gate.open),
           NEW d, NEW record, NEW changed, NEW branch
    PROVE  Single(Commit(t, d, record, changed, branch))
<1> DEFINE obs   == [e \in Definitions |-> IF e = d THEN record
                                           ELSE IF e \in t.defs THEN t.obs[e] ELSE NoObservation]
           open  == Incidents(t, changed, obs)
           count == IF open \ gate.open = {} THEN gate.incidents
                    ELSE Newest(open \union {gate.incidents})
           next  == Commit(t, d, record, changed, branch)
<1>1. next = [gate EXCEPT !.obs = obs, !.branch = branch, !.open = open, !.incidents = count]
  BY DEF Commit, obs, open, count
<1> HIDE DEF next, obs, count
<1>2. next.obs = obs /\ next.open = open
  BY <1>1 DEF GateOK
<1>3. 1 + gate.incidents \in Keyed
  BY DEF GateOK, Keyed, None
<1>4. IF ClosedIn(obs) THEN \E i \in Keyed : open = {i} ELSE open = {}
  <2>1. CASE ~ClosedIn(gate.obs)
    <3>1. gate.open = {}
      BY <2>1 DEF Single
    <3> QED BY <1>3, <2>1, <3>1 DEF Incidents
  <2>2. CASE ClosedIn(gate.obs)
    <3>1. PICK i \in Keyed : gate.open = {i}
      BY <2>2 DEF Single
    <3>2. t.active = i /\ i # None
      BY <3>1, NewestOfOne DEF Keyed
    <3> QED BY <1>3, <2>2, <3>1, <3>2 DEF Incidents
  <2> QED BY <2>1, <2>2
<1> HIDE DEF open
<1>5. Single(next)
  BY <1>2, <1>4 DEF Single
<1> QED BY <1>5 DEF next

LEMMA CommittedSequential ==
    ASSUME Types, Sequential, NEW o \in Observers, turn[o].pc = "apply",
           NEW t \in TurnRec, t.obs = turn[o].obs, t.active = turn[o].active, NEW d, NEW record,
           NEW changed, NEW branch, Committed(o, t, d, record, changed, branch)
    PROVE  Sequential'
<1> DEFINE next == Commit(t, d, record, changed, branch)
           n    == [t EXCEPT !.pc = "settle", !.changed = changed, !.branch = branch,
                             !.closed = ClosedIn(next.obs), !.got = <<>>,
                             !.due = IF ClosedIn(next.obs) THEN {} ELSE {w \in Items : items[w].held}]
<1>1. gate' = next /\ Set(o, n)
  BY DEF Committed
<1>2. n.pc = "settle"
  BY DEF TurnRec
<1> HIDE DEF n
<1>3. hist'.overlapped = hist.overlapped
  BY DEF Committed, Types, HistOK
<1>4. ~hist.overlapped => Single(gate')
  <2>1. GateOK(gate) /\ (~hist.overlapped => /\ Single(gate) /\ t.obs = gate.obs
                                             /\ t.active = Newest(gate.open))
    BY DEF Types, Sequential, InStep
  <2> QED BY <1>1, <2>1, CommitSingle
<1>5. turn[o].pc # "idle"
  OBVIOUS
<1> QED BY <1>1, <1>2, <1>3, <1>4, <1>5, WritingSequential

\* The newest page is written back by an observation that remembers it.
LEMMA NewestWritten ==
    ASSUME Types, NEW o \in Observers, ApplyNewest(o)
    PROVE  \E n, d, record, changed, branch :
              /\ n \in TurnRec
              /\ Committed(o, n, d, record, changed, branch)
              /\ n.obs = turn[o].obs /\ n.active = turn[o].active
<1> DEFINE t == turn[o]
           p == t.got.page
<1>1. t \in TurnRec /\ Read(t) /\ p.def \in t.defs /\ Heard(t, {p.def}) /\ p \in Pages
  BY DEF Types, TurnsOK, TurnOK, Read, AtHand, Got, ApplyNewest
<1>2. \A known : [known |-> TRUE,
                  first |-> {x.run : x \in Decisive(Compared(known, p.runs, FALSE, FALSE, <<>>))}]
                 \in NewestRec
  BY <1>1, NewestCompared DEF Pages, NewestRec
<1>3. [known |-> FALSE, first |-> {}] \in NewestRec
  BY DEF NewestRec
<1>4. PICK r, record, changed, branch :
         /\ r \in NewestRec
         /\ Committed(o, [t EXCEPT !.newest[p.def] = r], p.def, record, changed, branch)
  BY <1>2, <1>3 DEF ApplyNewest
<1>r. r \in NewestRec
  BY <1>4
<1> DEFINE f == [t.newest EXCEPT ![p.def] = r]
           n == [t EXCEPT !.newest[p.def] = r]
<1>5. n = [t EXCEPT !.newest = f]
  BY <1>1 DEF TurnRec
<1>6. f \in Maybe([Definitions -> Maybe(NewestRec)])
  BY <1>1, <1>r DEF Heard, Maybe
<1>7. Committed(o, n, p.def, record, changed, branch)
  BY <1>4
<1> HIDE DEF f, n
<1>8. n \in TurnRec /\ n.obs = t.obs /\ n.active = t.active
  BY <1>1, <1>5, <1>6 DEF TurnRec
<1> QED BY <1>7, <1>8

LEMMA ApplySequential ==
    ASSUME Types, Sequential, NEW o \in Observers, ApplyNewest(o) \/ ApplyOlder(o)
    PROVE  Sequential'
<1> DEFINE t == turn[o]
<1>1. t \in TurnRec
  BY DEF Types, TurnsOK
<1>2. CASE ApplyNewest(o)
  <2>1. t.pc = "apply"
    BY <1>2 DEF ApplyNewest
  <2>2. PICK n, d, record, changed, branch :
           /\ n \in TurnRec /\ Committed(o, n, d, record, changed, branch)
           /\ n.obs = t.obs /\ n.active = t.active
    BY <1>2, NewestWritten
  <2> QED BY <2>1, <2>2, CommittedSequential
<1>3. CASE ApplyOlder(o)
  <2>1. t.pc = "apply"
    BY <1>3 DEF ApplyOlder
  <2>2. CASE \E d, record, changed, branch : Committed(o, t, d, record, changed, branch)
    BY <1>1, <2>1, <2>2, CommittedSequential
  <2>3. CASE Set(o, [t EXCEPT !.pc = "fetch", !.got = <<>>]) /\ UNCHANGED <<gate, hist>>
    <3> DEFINE n == [t EXCEPT !.pc = "fetch", !.got = <<>>]
    <3>1. Follows(t, n)
      BY <1>1, <2>1 DEF Follows, TurnRec
    <3> HIDE DEF n
    <3>2. Set(o, n)
      BY <2>3 DEF n
    <3> QED BY <2>3, <3>1, <3>2, OwnSequential
  <2> QED BY <1>3, <2>2, <2>3 DEF ApplyOlder
<1> QED BY <1>2, <1>3

LEMMA ResumeFollows ==
    ASSUME NEW t \in TurnRec, t.pc \in {"consider", "create"}
    PROVE  Follows(t, Resume(t))
BY DEF Follows, Resume, NoTurn, TurnRec

\* The steps of an observation that leave the tables alone.
LEMMA QuietObserves ==
    ASSUME Types, Sequential, NEW o \in Observers,
           \/ CaughtUp(o) \/ Consider(o) \/ Create(o) \/ StartFails(o)
           \/ \E k \in Kinds : Fetch(o, k)
    PROVE  Sequential'
<1> DEFINE t == turn[o]
<1>1. t \in TurnRec /\ GateOK(gate)
  BY DEF Types, TurnsOK
<1>2. CASE CaughtUp(o)
  <2> DEFINE n == [t EXCEPT !.pc = "consider", !.phase = "end"]
  <2>1. Set(o, n) /\ UNCHANGED <<gate, hist>> /\ t.pc = "fetch"
    BY <1>2 DEF CaughtUp
  <2>2. Follows(t, n)
    BY <1>1, <2>1 DEF Follows, TurnRec
  <2> HIDE DEF n
  <2> QED BY <2>1, <2>2, OwnSequential
<1>3. ASSUME NEW k \in Kinds, Fetch(o, k) PROVE Sequential'
  <2>1. PICK got, todo, throttled :
           Set(o, [t EXCEPT !.pc = "apply", !.got = got, !.todo = todo, !.throttled = throttled])
    BY <1>3 DEF Fetch
  <2> DEFINE n == [t EXCEPT !.pc = "apply", !.got = got, !.todo = todo, !.throttled = throttled]
  <2>2. UNCHANGED <<gate, hist>> /\ t.pc = "fetch"
    BY <1>3 DEF Fetch
  <2>3. Follows(t, n)
    BY <1>1, <2>2 DEF Follows, TurnRec
  <2>4. Set(o, n)
    BY <2>1
  <2> HIDE DEF n
  <2> QED BY <2>2, <2>3, <2>4, OwnSequential
<1>4. CASE Consider(o)
  <2> DEFINE n == [t EXCEPT !.pc = "create", !.ev = Evidence, !.known = hist.handled]
  <2>1. UNCHANGED <<gate, hist>> /\ t.pc = "consider" /\ (Set(o, n) \/ Set(o, Resume(t)))
    BY <1>4 DEF Consider
  <2>2. Follows(t, n)
    BY <1>1, <2>1 DEF Follows, TurnRec
  <2>3. Follows(t, Resume(t))
    BY <1>1, <2>1, ResumeFollows
  <2> HIDE DEF n
  <2> QED BY <2>1, <2>2, <2>3, OwnSequential
<1>5. CASE Create(o) \/ StartFails(o)
  <2>1. UNCHANGED <<gate, hist>> /\ t.pc \in {"consider", "create"} /\ Set(o, Resume(t))
    BY <1>5 DEF Create, StartFails
  <2>2. Follows(t, Resume(t))
    BY <1>1, <2>1, ResumeFollows
  <2> QED BY <2>1, <2>2, OwnSequential
<1> QED BY <1>2, <1>3, <1>4, <1>5

LEMMA SettleSequential ==
    ASSUME Types, Sequential, NEW o \in Observers, NEW left \in SUBSET Items, Settle(o, left)
    PROVE  Sequential'
<1> DEFINE t == turn[o]
           n == [t EXCEPT !.obs = gate.obs, !.active = Active,
                          !.due = {w \in @ \ left : ~GateHolds(w)},
                          !.pc = IF t.phase = "end" \/ (t.phase = "latest" /\ t.todo = {})
                                 THEN "consider" ELSE "fetch"]
<1>1. t \in TurnRec /\ turn' = [turn EXCEPT ![o] = n] /\ turn \in [Observers -> TurnRec]
      /\ t.pc = "settle" /\ UNCHANGED <<gate, hist>>
  BY DEF Types, TurnsOK, Settle, Set
<1>2. n.obs = gate.obs /\ n.active = Newest(gate.open) /\ n.pc \in {"consider", "fetch"}
  BY <1>1 DEF TurnRec, Active
<1> HIDE DEF n
<1>3. \A p \in Observers : turn'[p] = IF p = o THEN n ELSE turn[p]
  BY <1>1
<1> SUFFICES ASSUME ~hist.overlapped
             PROVE  Solo' /\ Single(gate') /\ \A p \in Observers : InStep(turn'[p], gate')
  BY <1>1 DEF Sequential
<1>4. Solo /\ Single(gate) /\ \A p \in Observers : InStep(turn[p], gate)
  BY DEF Sequential
<1>5. Solo'
  BY <1>1, <1>3, <1>4 DEF Solo
<1>6. \A p \in Observers : InStep(turn'[p], gate')
  BY <1>1, <1>2, <1>3, <1>4 DEF InStep
<1> QED BY <1>1, <1>4, <1>5, <1>6

\* The steps of others.
LEMMA OthersSequential ==
    ASSUME Types, Sequential,
           Forged \/ Aside \/ Holds \/ Crash
    PROVE  Sequential'
<1>1. /\ \A o \in Observers : turn[o] \in TurnRec
      /\ GateOK(gate) /\ HistOK(hist)
  BY DEF Types, TurnsOK
<1>2. \A o \in Observers : Follows(turn[o], turn[o])
  BY DEF Follows
<1>3. CASE turn' = turn /\ gate'.obs = gate.obs /\ gate'.open = gate.open
           /\ hist'.overlapped = hist.overlapped
  BY <1>2, <1>3, QuietSequential
<1>4. CASE Forged \/ Aside
  <2>1. turn' = turn /\ gate'.obs = gate.obs /\ gate'.open = gate.open
        /\ hist'.overlapped = hist.overlapped
    BY <1>1, <1>4 DEF Forged, Aside, ChangeBranch, StartManual, CreateManual, ManualFails, End,
                         AskToMerge, Authorize, Select, GateOK, HistOK, vars
  <2> QED BY <1>3, <2>1
<1>5. CASE Holds
  <2>1. PICK w : NotDue(w) /\ gate' = gate /\ hist' = hist
    BY <1>5 DEF Holds, Hold, HoldMerge
  <2>2. \A o \in Observers : Follows(turn[o], [turn[o] EXCEPT !.due = @ \ {w}])
    BY <1>1 DEF Follows, TurnRec
  <2>3. \A o \in Observers : Follows(turn[o], turn'[o])
    BY <2>1, <2>2 DEF NotDue
  <2> QED BY <2>1, <2>3, QuietSequential
<1>6. CASE Crash
  <2>1. gate' = gate /\ hist' = hist /\ turn' = [o \in Observers |-> NoTurn]
    BY <1>6 DEF Crash
  <2>2. \A o \in Observers : Follows(turn[o], turn'[o])
    BY <2>1 DEF Follows, NoTurn
  <2> QED BY <2>1, <2>2, QuietSequential
<1> QED BY <1>4, <1>5, <1>6

LEMMA SequentialStep == Types /\ Sequential /\ [Next]_vars => Sequential'
<1> SUFFICES ASSUME Types, Sequential, [Next]_vars PROVE Sequential'
  OBVIOUS
<1>1. PlanOK /\ GateOK(gate)
  BY DEF Types
<1>2. CASE ForgeMoves
  BY <1>2, ForgeStep, OthersSequential DEF ForgeMoves
<1>3. CASE \E o \in Observers : Observes(o)
  BY <1>3, BeginSequential, ClearSequential, ApplySequential, QuietObserves, SettleSequential
     DEF Observes
<1>4. CASE Aside \/ Holds \/ Crash
  BY <1>4, OthersSequential
<1> QED BY <1>1, <1>2, <1>3, <1>4, Steps

LEMMA SequentialAlways == Spec => []Sequential
BY TypesInit, TypesStep, SequentialInit, SequentialStep, PTL DEF Spec

\* While observations follow one another, one incident is open exactly while the
\* gate is closed, whatever runs, answers and settings they meet, a crash between
\* any two steps included (commitWithIncidents).
THEOREM GateMatches == Spec => []IncidentMatchesGate
<1>1. Sequential => IncidentMatchesGate
  <2> SUFFICES ASSUME Sequential, ~hist.overlapped
               PROVE  Cardinality(gate.open) = IF Closed THEN 1 ELSE 0
    BY DEF IncidentMatchesGate
  <2> QED BY FS_EmptySet, FS_Singleton DEF Sequential, Single, Closed
<1> QED BY <1>1, SequentialAlways, PTL

-----------------------------------------------------------------------------
(* The release of held Work Items. *)

\* Whoever an observation is to let go is let go when it settles; nobody is, if
\* what it wrote closes the gate.
LetGo(t, rows) ==
    IF t.pc = "settle" THEN t.closed => t.due = {} ELSE \A w \in t.due : ~rows[w].held

Freed == \A o \in Observers : LetGo(turn[o], items)

\* What an observation has to let go is kept, given up or set anew.
Carries(t, n) ==
    \/ n.due = {}
    \/ n.pc = "settle" /\ ~n.closed
    \/ n.due = t.due /\ n.closed = t.closed /\ (n.pc = "settle" <=> t.pc = "settle")

LEMMA FreedInit == Init => Freed
BY DEF Init, Freed, LetGo, NoTurn

LEMMA CarriedFreed ==
    ASSUME Types, Freed, \A w \in Items : items'[w].held => items[w].held,
           \A o \in Observers : Carries(turn[o], turn'[o])
    PROVE  Freed'
<1>1. \A o \in Observers : turn[o].due \subseteq Items
  BY DEF Types, TurnsOK, TurnRec
<1> SUFFICES ASSUME NEW o \in Observers PROVE LetGo(turn'[o], items')
  BY DEF Freed
<1>2. LetGo(turn[o], items) /\ Carries(turn[o], turn'[o])
  BY DEF Freed
<1> QED BY <1>1, <1>2 DEF LetGo, Carries

LEMMA OwnFreed ==
    ASSUME Types, Freed, items' = items, NEW o \in Observers, NEW n, Set(o, n), Carries(turn[o], n)
    PROVE  Freed'
<1>1. turn' = [turn EXCEPT ![o] = n] /\ turn \in [Observers -> TurnRec]
  BY DEF Set, Types, TurnsOK
<1>2. \A p \in Observers : turn'[p] = IF p = o THEN n ELSE turn[p]
  BY <1>1
<1>3. \A p \in Observers : Carries(turn[p], turn[p])
  BY DEF Carries
<1>4. \A p \in Observers : Carries(turn[p], turn'[p])
  BY <1>2, <1>3
<1> QED BY <1>4, CarriedFreed

LEMMA SettleFreed ==
    ASSUME Types, Freed, NEW o \in Observers, NEW left \in SUBSET Items, Settle(o, left)
    PROVE  Freed'
<1> DEFINE t   == turn[o]
           due == {w \in t.due \ left : ~GateHolds(w)}
           n   == [t EXCEPT !.obs = gate.obs, !.active = Active, !.due = due,
                            !.pc = IF t.phase = "end" \/ (t.phase = "latest" /\ t.todo = {})
                                   THEN "consider" ELSE "fetch"]
<1>1. t \in TurnRec /\ turn' = [turn EXCEPT ![o] = n] /\ turn \in [Observers -> TurnRec]
      /\ t.pc = "settle" /\ items' = Released(t, left) /\ items \in [Items -> ItemRec]
  BY DEF Types, TurnsOK, Settle, Set
<1>2. n.pc # "settle" /\ n.due = due /\ due \subseteq t.due /\ t.due \subseteq Items
  BY <1>1 DEF TurnRec
<1> HIDE DEF n
<1>3. \A p \in Observers : turn'[p] = IF p = o THEN n ELSE turn[p]
  BY <1>1
<1>4. \A w \in Items : /\ items'[w].held => items[w].held
                       /\ ~t.closed /\ w \notin left /\ ~GateHolds(w) => ~items'[w].held
  <2>1. CASE t.closed
    BY <1>1, <2>1 DEF Released
  <2>2. CASE ~t.closed
    <3>1. items' = [w \in Items |-> [items[w] EXCEPT !.held = @ /\ (w \in left \/ GateHolds(w))]]
      BY <1>1, <2>2 DEF Released
    <3>2. \A w \in Items : items'[w].held <=> (items[w].held /\ (w \in left \/ GateHolds(w)))
      BY <1>1, <3>1 DEF ItemRec
    <3> QED BY <3>2
  <2> QED BY <2>1, <2>2
<1> SUFFICES ASSUME NEW p \in Observers PROVE LetGo(turn'[p], items')
  BY DEF Freed
<1>5. LetGo(turn[p], items) /\ turn[p].due \subseteq Items
  BY DEF Freed, Types, TurnsOK, TurnRec
<1>6. CASE p = o
  <2>1. t.closed => due = {}
    BY <1>1, <1>2, <1>5, <1>6 DEF LetGo
  <2>2. turn'[p] = n
    BY <1>3, <1>6
  <2>3. \A w \in due : ~items'[w].held
    BY <1>2, <1>4, <2>1
  <2> QED BY <1>2, <2>2, <2>3 DEF LetGo
<1>7. CASE p # o
  BY <1>3, <1>4, <1>5, <1>7 DEF LetGo
<1> QED BY <1>6, <1>7

LEMMA HoldFreed ==
    ASSUME Types, Freed, NEW w \in Items, Hold(w) \/ HoldMerge(w)
    PROVE  Freed'
<1>1. items \in [Items -> ItemRec] /\ \A o \in Observers : turn[o] \in TurnRec
  BY DEF Types, TurnsOK
<1>2. \A v \in Items : v # w => items'[v] = items[v]
  BY <1>1 DEF Hold, HoldMerge
<1>3. NotDue(w)
  BY DEF Hold, HoldMerge
<1> SUFFICES ASSUME NEW o \in Observers PROVE LetGo(turn'[o], items')
  BY DEF Freed
<1> DEFINE n == [turn[o] EXCEPT !.due = @ \ {w}]
<1>4. n.pc = turn[o].pc /\ n.closed = turn[o].closed /\ n.due = turn[o].due \ {w}
      /\ turn[o].due \subseteq Items
  BY <1>1 DEF TurnRec
<1>5. turn'[o] = n
  BY <1>3 DEF NotDue
<1> HIDE DEF n
<1>6. LetGo(turn[o], items)
  BY DEF Freed
<1> QED BY <1>2, <1>4, <1>5, <1>6 DEF LetGo

LEMMA ObservesFreed ==
    ASSUME Types, Freed, NEW o \in Observers, Observes(o)
    PROVE  Freed'
<1> DEFINE t == turn[o]
<1>1. t \in TurnRec
  BY DEF Types, TurnsOK
<1>2. CASE Begin(o)
  <2> DEFINE n == [NoTurn EXCEPT !.pc = IF gate.definitions = {} THEN "clear" ELSE "fetch",
                                 !.defs = gate.definitions, !.todo = gate.definitions,
                                 !.obs = gate.obs, !.active = Active, !.branch = gate.branch,
                                 !.bases = [d \in Definitions |-> repair.base[d].order],
                                 !.newest = [d \in Definitions |-> <<>>]]
  <2>2. Carries(t, n)
    BY DEF Carries, NoTurn
  <2>3. Set(o, n) /\ items' = items
    BY <1>2 DEF Begin
  <2> HIDE DEF n
  <2> QED BY <2>2, <2>3, OwnFreed
<1>3. CASE Clear(o)
  <2> DEFINE n == [t EXCEPT !.pc = "settle", !.phase = "end", !.closed = FALSE,
                            !.due = {w \in Items : items[w].held}]
  <2>1. Set(o, n) /\ items' = items
    BY <1>3 DEF Clear
  <2>2. Carries(t, n)
    BY <1>1 DEF Carries, TurnRec
  <2> HIDE DEF n
  <2> QED BY <2>1, <2>2, OwnFreed
<1>4. CASE CaughtUp(o)
  <2> DEFINE n == [t EXCEPT !.pc = "consider", !.phase = "end"]
  <2>1. Set(o, n) /\ items' = items /\ t.pc = "fetch"
    BY <1>4 DEF CaughtUp
  <2>2. Carries(t, n)
    BY <1>1, <2>1 DEF Carries, TurnRec
  <2> HIDE DEF n
  <2> QED BY <2>1, <2>2, OwnFreed
<1>5. ASSUME NEW k \in Kinds, Fetch(o, k) PROVE Freed'
  <2>1. PICK got, todo, throttled :
           Set(o, [t EXCEPT !.pc = "apply", !.got = got, !.todo = todo, !.throttled = throttled])
    BY <1>5 DEF Fetch
  <2> DEFINE n == [t EXCEPT !.pc = "apply", !.got = got, !.todo = todo, !.throttled = throttled]
  <2>2. items' = items /\ t.pc = "fetch"
    BY <1>5 DEF Fetch
  <2>3. Carries(t, n)
    BY <1>1, <2>2 DEF Carries, TurnRec
  <2>4. Set(o, n)
    BY <2>1
  <2> HIDE DEF n
  <2> QED BY <2>2, <2>3, <2>4, OwnFreed
<1>6. ASSUME NEW m \in TurnRec, NEW d, NEW record, NEW changed, NEW branch,
             Committed(o, m, d, record, changed, branch)
      PROVE  Freed'
  <2> DEFINE next == Commit(m, d, record, changed, branch)
             n    == [m EXCEPT !.pc = "settle", !.changed = changed, !.branch = branch,
                               !.closed = ClosedIn(next.obs), !.got = <<>>,
                               !.due = IF ClosedIn(next.obs) THEN {}
                                       ELSE {w \in Items : items[w].held}]
  <2>1. Set(o, n) /\ items' = items
    BY <1>6 DEF Committed
  <2>2. Carries(t, n)
    <3> HIDE DEF next
    <3> QED BY <1>6 DEF Carries, TurnRec
  <2> HIDE DEF n
  <2> QED BY <2>1, <2>2, OwnFreed
<1>7. CASE ApplyNewest(o)
  BY <1>1, <1>6, <1>7, NewestWritten
<1>8. CASE ApplyOlder(o)
  <2>1. CASE \E d, record, changed, branch : Committed(o, t, d, record, changed, branch)
    BY <1>1, <1>6, <2>1
  <2>2. CASE Set(o, [t EXCEPT !.pc = "fetch", !.got = <<>>]) /\ items' = items
    <3> DEFINE n == [t EXCEPT !.pc = "fetch", !.got = <<>>]
    <3>1. Carries(t, n)
      BY <1>1, <1>8 DEF Carries, TurnRec, ApplyOlder
    <3> HIDE DEF n
    <3>2. Set(o, n)
      BY <2>2 DEF n
    <3> QED BY <2>2, <3>1, <3>2, OwnFreed
  <2> QED BY <1>8, <2>1, <2>2 DEF ApplyOlder
<1>9. ASSUME NEW left \in SUBSET Items, Settle(o, left) PROVE Freed'
  BY <1>9, SettleFreed
<1>10. ASSUME t.pc \in {"consider", "create"} PROVE Carries(t, Resume(t))
  BY <1>1, <1>10 DEF Carries, Resume, NoTurn, TurnRec
<1>11. CASE Consider(o)
  <2> DEFINE n == [t EXCEPT !.pc = "create", !.ev = Evidence, !.known = hist.handled]
  <2>1. items' = items /\ t.pc = "consider" /\ (Set(o, n) \/ Set(o, Resume(t)))
    BY <1>11 DEF Consider
  <2>2. Carries(t, n)
    BY <1>1, <2>1 DEF Carries, TurnRec
  <2> HIDE DEF n
  <2> QED BY <1>10, <2>1, <2>2, OwnFreed
<1>12. CASE Create(o) \/ StartFails(o)
  <2>1. items' = items /\ t.pc \in {"consider", "create"} /\ Set(o, Resume(t))
    BY <1>12 DEF Create, StartFails
  <2> QED BY <1>10, <2>1, OwnFreed
<1> QED BY <1>2, <1>3, <1>4, <1>5, <1>7, <1>8, <1>9, <1>11, <1>12 DEF Observes

LEMMA OthersFreed ==
    ASSUME Types, Freed, Forged \/ Aside \/ Crash
    PROVE  Freed'
<1>1. /\ \A o \in Observers : turn[o] \in TurnRec
      /\ items \in [Items -> ItemRec]
  BY DEF Types, TurnsOK
<1>2. \A o \in Observers : Carries(turn[o], turn[o])
  BY DEF Carries
<1>3. \A w \in Items : items'[w].held => items[w].held
  <2>1. CASE items' = items
    BY <2>1
  <2>2. ASSUME NEW v \in Items, AskToMerge(v) \/ Authorize(v)
        PROVE  \A w \in Items : items'[w].held => items[w].held
    BY <1>1, <2>2 DEF AskToMerge, Authorize, ItemRec
  <2>3. CASE Crash
    BY <1>1, <2>3 DEF Crash, ItemRec
  <2> QED BY <2>1, <2>2, <2>3 DEF Forged, Aside, StartManual, CreateManual, ManualFails, End,
                                  ChangeBranch, Select, vars
<1>4. CASE Forged \/ Aside
  <2>1. turn' = turn
    BY <1>4 DEF Forged, Aside, StartManual, CreateManual, ManualFails, End, ChangeBranch, Select,
                AskToMerge, Authorize, vars
  <2> QED BY <1>2, <1>3, <2>1, CarriedFreed
<1>5. CASE Crash
  <2>1. \A o \in Observers : Carries(turn[o], turn'[o])
    BY <1>5 DEF Crash, Carries, NoTurn
  <2> QED BY <1>3, <2>1, CarriedFreed
<1> QED BY <1>4, <1>5

LEMMA FreedStep == Types /\ Freed /\ [Next]_vars => Freed'
<1> SUFFICES ASSUME Types, Freed, [Next]_vars PROVE Freed'
  OBVIOUS
<1>1. PlanOK /\ GateOK(gate)
  BY DEF Types
<1>2. CASE ForgeMoves
  BY <1>2, ForgeStep, OthersFreed DEF ForgeMoves
<1>3. CASE \E o \in Observers : Observes(o)
  BY <1>3, ObservesFreed
<1>4. CASE Aside \/ Crash
  BY <1>4, OthersFreed
<1>5. CASE Holds
  BY <1>5, HoldFreed DEF Holds
<1> QED BY <1>1, <1>2, <1>3, <1>4, <1>5, Steps

\* When an observation ends and the gate is open, whoever was held when it
\* committed that has been let go, unless it failed to release that Work Item,
\* however holds, merges and other observations come in between
\* (releaseWaitingForCiRepair, wakeMergeHoldsIfGateNotClosed).
THEOREM ReleaseComplete == Spec => ReleasedAfterOpening
<1>1. Freed =>
        [\A o \in Observers : Ends(o) /\ ~Closed => \A w \in turn[o].due : ~items[w].held]_vars
  BY DEF Freed, LetGo, Ends
<1> QED BY <1>1, TypesInit, TypesStep, FreedInit, FreedStep, PTL DEF Spec, ReleasedAfterOpening

-----------------------------------------------------------------------------
(* A failure newer than what is settled gets its CI Repair. *)

\* No bound of an automatic start is above what ended CI Repairs have settled.
Settled ==
    \A d \in Definitions :
       LET base == repair.base[d]
       IN  /\ base.order <= hist.settled[d] /\ base.floor <= hist.settled[d]
           /\ base.suppress <= hist.settled[d]

LEMMA SettledInit == Init => Settled
BY DEF Init, Settled, NoBaseline, None

LEMMA SettledStep == Types /\ Settled /\ [Next]_vars => Settled'
<1> SUFFICES ASSUME Types, Settled, [Next]_vars PROVE Settled'
  OBVIOUS
<1>1. PlanOK /\ GateOK(gate) /\ RepairOK(repair) /\ HistOK(hist)
  BY DEF Types
<1>2. CASE repair'.base = repair.base /\ hist'.settled = hist.settled
  BY <1>2 DEF Settled
<1>3. ASSUME NEW how \in {"merged", "no_change", "abandoned"}, End(how) PROVE Settled'
  <2> DEFINE ev      == repair.ev
             last(d) == IF how = "no_change" THEN gate.obs[d].last.key ELSE None
             base    == CASE how = "merged" -> MergeFloor(repair.base, ev)
                          [] how = "no_change" -> NoChange(repair.base)
                          [] OTHER -> Suppress(repair.base, ev)
             settled == [d \in Definitions |-> Newest({hist.settled[d], KeyOf(ev, d), last(d)})]
  <2>1. repair'.base = base /\ hist'.settled = settled
    BY <1>1, <1>3 DEF End, HistOK
  <2>2. ASSUME NEW d \in Definitions
        PROVE  /\ base[d].order <= settled[d] /\ base[d].floor <= settled[d]
               /\ base[d].suppress <= settled[d]
    <3> DEFINE was == repair.base[d]
               k   == KeyOf(ev, d)
               l   == gate.obs[d].last.key
    <3>1. k \in Nat /\ l \in Nat /\ last(d) \in Nat /\ hist.settled[d] \in Nat /\ was \in Baseline
      BY <1>1, KeyOfTyped DEF RepairOK, GateOK, Obs, LastRun, HistOK, None
    <3>2. /\ settled[d] \in Nat /\ hist.settled[d] <= settled[d] /\ k <= settled[d]
          /\ last(d) <= settled[d]
      BY <3>1, NewestOfThree
    <3>3. /\ was.order <= hist.settled[d] /\ was.floor <= hist.settled[d]
          /\ was.suppress <= hist.settled[d]
      BY DEF Settled
    <3>4. was.order \in Nat /\ was.floor \in Nat /\ was.suppress \in Nat
      BY <3>1 DEF Baseline
    <3> HIDE DEF settled, k, was
    <3>5. was.order <= settled[d] /\ was.floor <= settled[d] /\ was.suppress <= settled[d]
          /\ None <= settled[d]
      BY <3>1, <3>2, <3>3, <3>4 DEF None
    <3>6. CASE how = "merged"
      <4>1. base[d] = IF k = None THEN was ELSE [was EXCEPT !.order = None, !.floor = k]
        BY <3>6 DEF MergeFloor, k, was
      <4> HIDE DEF base
      <4> QED BY <3>1, <3>2, <3>5, <4>1 DEF Baseline
    <3>7. CASE how = "no_change"
      <4>1. base[d] = IF l = None THEN was ELSE [NoBaseline EXCEPT !.order = l]
        BY <3>7 DEF NoChange, was
      <4>2. l <= settled[d]
        BY <3>2, <3>7
      <4> HIDE DEF base, l
      <4> QED BY <3>1, <3>5, <4>1, <4>2 DEF Baseline, NoBaseline
    <3>8. CASE how = "abandoned"
      <4>1. base[d] = IF k = None THEN was ELSE [was EXCEPT !.suppress = k]
        BY <3>8 DEF Suppress, k, was
      <4> HIDE DEF base
      <4> QED BY <3>1, <3>2, <3>5, <4>1 DEF Baseline
    <3> QED BY <3>6, <3>7, <3>8
  <2> HIDE DEF base, settled
  <2> QED BY <2>1, <2>2 DEF Settled
<1>4. CASE ForgeMoves
  BY <1>2, <1>4, ForgeStep DEF ForgeMoves, Forged
<1>5. CASE Aside
  <2>1. CASE StartManual \/ ManualFails \/ UNCHANGED vars \/ (\E b \in Branches : ChangeBranch(b))
             \/ (\E w \in Items : AskToMerge(w) \/ Authorize(w))
             \/ (\E defs \in SUBSET Definitions : Select(defs))
    BY <1>2, <2>1 DEF StartManual, ManualFails, ChangeBranch, AskToMerge, Authorize, Select, vars
  <2>2. CASE CreateManual
    BY <1>1, <1>2, <2>2 DEF CreateManual, Created, RepairOK
  <2> QED BY <1>3, <1>5, <2>1, <2>2 DEF Aside
<1>6. CASE Holds
  BY <1>2, <1>6 DEF Holds, Hold, HoldMerge
<1>7. CASE Crash
  BY <1>2, <1>7 DEF Crash
<1>8. ASSUME NEW o \in Observers, Observes(o) PROVE Settled'
  <2>1. repair' = repair \/ \E ev : repair' = Created(ev)
    BY <1>8 DEF Observes, Begin, Clear, CaughtUp, ApplyNewest, ApplyOlder, Fetch, Settle, Consider,
                Create, StartFails, Committed, World
  <2>2. repair'.base = repair.base
    BY <1>1, <2>1 DEF Created, RepairOK
  <2>3. hist'.settled = hist.settled
    BY <1>1, <1>8 DEF Observes, Begin, Clear, CaughtUp, ApplyNewest, ApplyOlder, Fetch, Settle,
                      Consider, Create, StartFails, Committed, HistOK
  <2> QED BY <1>2, <2>2, <2>3
<1> QED BY <1>1, <1>4, <1>5, <1>6, <1>7, <1>8, Steps

\* The observation that ends is the one that takes the step.
LEMMA EndsByItself ==
    ASSUME Types, [Next]_vars, NEW o \in Observers, Ends(o)
    PROVE  Consider(o) \/ Create(o) \/ StartFails(o)
<1>1. PlanOK /\ GateOK(gate) /\ TurnsOK(turn, gate)
  BY DEF Types
<1>2. turn[o].pc \in {"consider", "create"} /\ turn'[o].pc = "idle"
      /\ turn[o] \in TurnRec
  BY <1>1 DEF Ends, TurnsOK
<1>3. turn'[o] # turn[o]
  BY <1>2
<1>4. ~ForgeMoves
  BY <1>3, ForgeStep DEF ForgeMoves, Forged
<1>5. ~Aside
  BY <1>3 DEF Aside, StartManual, CreateManual, ManualFails, End, ChangeBranch, AskToMerge,
              Authorize, Select, vars
<1>6. ~Holds
  <2>1. \A w : [turn[o] EXCEPT !.due = @ \ {w}].pc = turn[o].pc
    BY <1>2 DEF TurnRec
  <2>2. ASSUME NEW w, NotDue(w) PROVE turn'[o].pc = turn[o].pc
    BY <2>1, <2>2 DEF NotDue
  <2> QED BY <1>2, <2>2 DEF Holds, Hold, HoldMerge
<1>7. ~Crash
  BY <1>1 DEF Ends, Crash, Once, PlanOK, Calls
<1>8. PICK p \in Observers : Observes(p)
  BY <1>1, <1>4, <1>5, <1>6, <1>7, Steps
<1>9. p = o
  <2>1. \E n : Set(p, n)
    BY <1>8 DEF Observes, Begin, Clear, CaughtUp, ApplyNewest, ApplyOlder, Fetch, Settle, Consider,
                Create, StartFails, Committed
  <2> QED BY <1>1, <1>3, <2>1 DEF Set, TurnsOK
<1> QED BY <1>2, <1>8, <1>9
        DEF Observes, Begin, Clear, CaughtUp, ApplyNewest, ApplyOlder, Fetch, Settle, Committed

\* When an observation ends, a failure that is newer than all that ended CI
\* Repairs settled, of a definition that still fails, has its CI Repair, unless the
\* last attempt to start one failed: no floor, baseline or suppression of an earlier
\* one stands in its way, and nothing that an attempt that failed left behind
\* (considerAutomaticCiRepairWorkItem, failurePassesCiRepairBaseline).
THEOREM NewFailureRepaired == Spec => NewFailureIsRepaired
<1>1. Types /\ Settled /\ [Next]_vars =>
        [\A o \in Observers : Ends(o) /\ plan.auto /\ ~StartFails(o) =>
            \A d \in gate.definitions :
               LET obs == gate.obs[d]
               IN  obs.latched > hist.settled[d] /\ Qualifies(obs) => repair'.unfinished]_vars
  <2> SUFFICES ASSUME Types, Settled, [Next]_vars, NEW o \in Observers, Ends(o), plan.auto,
                      ~StartFails(o), NEW d \in gate.definitions, gate.obs[d].latched > hist.settled[d],
                      Qualifies(gate.obs[d])
               PROVE  repair'.unfinished
    OBVIOUS
  <2> DEFINE k    == gate.obs[d].latched
             base == repair.base[d]
  <2>1. RepairOK(repair) /\ d \in Definitions /\ k \in Nat /\ hist.settled[d] \in Nat
        /\ base \in Baseline
    BY DEF Types, GateOK, RepairOK, HistOK, Obs
  <2>2. base.order <= hist.settled[d] /\ base.floor <= hist.settled[d]
        /\ base.suppress <= hist.settled[d]
    BY <2>1 DEF Settled
  <2>3. k # None /\ k > base.order /\ k > base.floor /\ k > base.suppress
    BY <2>1, <2>2 DEF Baseline, None
  <2>4. Wanted
    <3> DEFINE e == <<d, k>>
    <3>1. e \in Evidence /\ e[1] = d /\ e[2] = k
      BY <2>1, <2>3 DEF Evidence
    <3>2. Passes(k, base)
      BY <2>3 DEF Passes
    <3> HIDE DEF e
    <3> QED BY <3>1, <3>2 DEF Wanted
  <2>5. CASE Consider(o)
    <3>1. CASE repair.unfinished
      BY <2>5, <3>1 DEF Consider
    <3>2. CASE ~repair.unfinished
      <4> DEFINE n == [turn[o] EXCEPT !.pc = "create", !.ev = Evidence, !.known = hist.handled]
      <4>1. turn' = [turn EXCEPT ![o] = n]
        BY <2>4, <2>5, <3>2 DEF Consider, Set
      <4>2. n.pc = "create" /\ turn'[o] = n
        BY <4>1 DEF Types, TurnsOK, TurnRec
      <4> QED BY <4>2 DEF Ends
    <3> QED BY <3>1, <3>2
  <2>6. CASE Create(o)
    <3>1. repair' = Created(turn[o].ev)
      BY <2>6 DEF Create
    <3> QED BY <2>1, <3>1 DEF Created, RepairOK
  <2> QED BY <2>5, <2>6, EndsByItself
<1> QED BY <1>1, TypesInit, TypesStep, SettledInit, SettledStep, PTL DEF Spec, NewFailureIsRepaired

-----------------------------------------------------------------------------
(* An older page and the newest one. *)

Decided == Failing \union {"passed"}

\* What an observation remembers of the newest page agrees with the latch, and
\* with the run that is known as the latest.
Agrees(n, o) ==
    n.known => \A x \in n.first :
       /\ x.status \in Decided /\ \A y \in n.first : y = x
       /\ x.status \in Failing => o.latched = x.key
       /\ x.status = "passed" => o.latched = None \/ o.latched > x.key
       /\ o.last.status \in Decided => o.last = x

\* Of two runs with a result that are compared, the newest page and a page read
\* for the first time have no other rank.
LEMMA NewestAgrees ==
    ASSUME NEW prior \in Obs, NEW page \in SUBSET Run, IsFiniteSet(page), NEW cov,
           NEW n, n.first = {x.run : x \in Decisive(Compared(prior, page, FALSE, FALSE, <<>>))}
    PROVE  Agrees(n, [Applied(prior, page, FALSE, FALSE, <<>>) EXCEPT !.cov = cov])
<1> DEFINE C    == Compared(prior, page, FALSE, FALSE, <<>>)
           seen == Applied(prior, page, FALSE, FALSE, <<>>)
           o    == [seen EXCEPT !.cov = cov]
           W    == Decisive(C)
<1>1. C = {[run |-> r, rank |-> 2] : r \in page}
  BY DEF Compared
<1> HIDE DEF C
<1>2. \A y \in C : y.run \in page /\ y.rank = 2 /\ y.run.key \in Keyed
  BY <1>1 DEF Run
<1>3. seen \in Obs
  <2>1. Known(<<>>)
    BY DEF Known
  <2> QED BY <2>1, AppliedTyped
<1>4. o.latched = Latched(prior.latched, C)
      /\ o.last = IF page = {} THEN prior.last ELSE CHOOSE r \in page : r.key = Newest(Keys(page))
  <2> DEFINE was    == IF FALSE THEN NoObservation ELSE prior
             kept   == \E x \in C : x.rank = 1
             latest == IF kept \/ page = {} THEN was.last
                       ELSE CHOOSE r \in page : r.key = Newest(Keys(page))
  <2>1. ~kept
    BY <1>2
  <2>2. seen = [prior EXCEPT !.last = latest, !.latched = Latched(was.latched, C), !.err = FALSE]
    BY DEF Applied, C, was, kept, latest
  <2> HIDE DEF seen, kept
  <2> QED BY <1>3, <2>1, <2>2 DEF Obs
<1> HIDE DEF seen, o
<1>5. W \subseteq C /\ \A y \in W : y.run.status \in Decided
      /\ \A z \in C : z.run.status \in Decided /\ z # y => y.run.key > z.run.key
  BY <1>2 DEF Decisive, Ahead, Decided
<1> HIDE DEF W
<1>6. \A y, z \in W : y = z
  <2> SUFFICES ASSUME NEW y \in W, NEW z \in W, y # z PROVE FALSE
    OBVIOUS
  <2>1. y.run.key \in Nat /\ z.run.key \in Nat /\ y.run.key > z.run.key /\ z.run.key > y.run.key
    BY <1>2, <1>5 DEF Keyed
  <2> QED BY <2>1
<1>7. n.first = {x.run : x \in W}
  BY DEF W, C
<1> SUFFICES ASSUME NEW w \in W
             PROVE  /\ w.run.status \in Decided /\ \A y \in n.first : y = w.run
                    /\ w.run.status \in Failing => o.latched = w.run.key
                    /\ w.run.status = "passed" => o.latched = None \/ o.latched > w.run.key
                    /\ o.last.status \in Decided => o.last = w.run
  BY <1>7 DEF Agrees, o, seen
<1>8. w.run.status \in Decided /\ w.run \in page /\ w.run.key \in Nat /\ w \in C
  BY <1>2, <1>5 DEF Keyed
<1>9. W = {w}
  BY <1>6
<1>10. \A y \in n.first : y = w.run
  BY <1>7, <1>9
<1>11. ASSUME w.run.status \in Failing PROVE o.latched = w.run.key
  BY <1>4, <1>9, <1>11 DEF Latched, W
<1>12. ASSUME w.run.status = "passed" PROVE o.latched = None \/ o.latched > w.run.key
  <2> DEFINE L     == prior.latched
             newer == \E x \in C : /\ SameRun(x.run.key, L) /\ x.run.status # "passed"
                                   /\ \A y \in W : Ahead(x, y)
  <2>1. w.run.status \notin Failing
    BY <1>12 DEF Failing
  <2>2. CASE L = None \/ ~newer \/ SameRun(w.run.key, L)
    <3>1. Latched(L, C) = None
      BY <1>9, <2>1, <2>2 DEF Latched, W
    <3> QED BY <1>4, <3>1
  <2>3. CASE newer /\ ~SameRun(w.run.key, L)
    <3>1. PICK x \in C : SameRun(x.run.key, L) /\ Ahead(x, w)
      BY <1>9, <2>3
    <3>2. x.run.key \in Nat /\ L \in Nat /\ x.run.key > w.run.key
      BY <1>2, <1>8, <3>1 DEF Ahead, Keyed, Obs
    <3>3. RunOf(w.run.key) <= RunOf(L) /\ RunOf(w.run.key) # RunOf(L)
      BY <1>8, <2>3, <3>1, <3>2, RunOfMonotone DEF SameRun
    <3>4. L > w.run.key
      <4> SUFFICES ASSUME L <= w.run.key PROVE FALSE
        BY <1>8, <3>2
      <4>1. RunOf(L) <= RunOf(w.run.key)
        BY <1>8, <3>2, RunOfMonotone
      <4>2. RunOf(L) \in Nat /\ RunOf(w.run.key) \in Nat
        BY <1>8, <3>2, RunOfTyped
      <4> QED BY <3>3, <4>1, <4>2
    <3>5. CASE L = None
      BY <2>2, <3>5
    <3>6. CASE L # None
      <4>1. Latched(L, C) = L
        BY <1>9, <2>1, <2>3, <3>6 DEF Latched, W
      <4> QED BY <1>4, <3>4, <4>1
    <3> QED BY <3>5, <3>6
  <2> QED BY <2>2, <2>3
<1>13. ASSUME o.last.status \in Decided PROVE o.last = w.run
  <2> DEFINE r == CHOOSE r \in page : r.key = Newest(Keys(page))
             v == [run |-> r, rank |-> 2]
  <2>1. page # {} /\ o.last = r
    BY <1>4, <1>8
  <2>2. r \in page /\ r.key = Newest(Keys(page)) /\ w.run.key <= r.key /\ r.key \in Nat
    BY <1>8, <2>1, NewestOfPage DEF Run, Keyed
  <2> HIDE DEF r
  <2>3. v \in C /\ v.run = r
    BY <1>1, <2>2
  <2>4. v = w
    <3> SUFFICES ASSUME v # w PROVE FALSE
      OBVIOUS
    <3>1. w.run.key > r.key
      BY <1>5, <1>13, <2>1, <2>3
    <3> QED BY <1>8, <2>2, <3>1
  <2> QED BY <2>1, <2>3, <2>4
<1> QED BY <1>8, <1>10, <1>11, <1>12, <1>13

\* An older page without a result as new as the newest page's leaves the latch.
LEMMA Overruled ==
    ASSUME NEW t, NEW d, t.obs[d] \in Obs, t.newest[d] \in NewestRec, t.newest[d].known,
           Agrees(t.newest[d], t.obs[d]), NEW x \in t.newest[d].first,
           NEW page \in SUBSET Run, NEW ignore \in BOOLEAN,
           \A r \in page : r.status \in Decided => r.key < x.key
    PROVE  Applied(t.obs[d], page, ignore, TRUE, Context(t, d)).latched = t.obs[d].latched
<1> DEFINE prior == t.obs[d]
           L     == prior.latched
           was   == IF ignore THEN NoObservation ELSE prior
           C     == Compared(prior, page, ignore, TRUE, Context(t, d))
           X     == [run |-> x, rank |-> 3]
           Y     == [run |-> x, rank |-> 1]
           F     == [run |-> [key |-> L, status |-> "failed"], rank |-> 4]
<1>1. x \in Run /\ x.key \in Nat /\ x.key # None /\ L \in Nat /\ prior.last \in LastRun
  BY DEF NewestRec, Run, Keyed, Obs
<1>2. /\ x.status \in Decided /\ \A y \in t.newest[d].first : y = x
      /\ x.status \in Failing => L = x.key
      /\ x.status = "passed" => L = None \/ L > x.key
      /\ prior.last.status \in Decided => prior.last = x
  BY DEF Agrees
<1>3. Context(t, d) = IF L = None THEN <<x>> ELSE <<x, [key |-> L, status |-> "failed"]>>
  <2>1. t.newest[d].first = {x}
    BY <1>2
  <2>2. Context(t, d) = <<x>> \o (IF L = None THEN <<>> ELSE <<[key |-> L, status |-> "failed"]>>)
    BY <2>1 DEF Context
  <2> QED BY <2>2
<1>4. X \in C /\ (L # None => F \in C)
  BY <1>3 DEF Compared
<1>5. \A y \in C : y.run.status \in Decided =>
         \/ y = X \/ y = Y \/ (L # None /\ y = F)
         \/ y.run.key \in Nat /\ y.rank = 2 /\ y.run.key < x.key
  <2> TAKE y \in C
  <2> HAVE y.run.status \in Decided
  <2>1. CASE y = [run |-> prior.last, rank |-> 1]
    BY <1>2, <2>1
  <2>2. CASE \E r \in page : y = [run |-> r, rank |-> 2]
    BY <2>2 DEF Run, Keyed
  <2>3. CASE \E i \in DOMAIN Context(t, d) : y = [run |-> Context(t, d)[i], rank |-> 2 + i]
    <3>1. CASE L = None
      BY <1>3, <2>3, <3>1
    <3>2. CASE L # None
      <4>1. DOMAIN Context(t, d) = 1..2 /\ Context(t, d)[1] = x
            /\ Context(t, d)[2] = [key |-> L, status |-> "failed"]
        BY <1>3, <3>2
      <4>2. PICK i \in 1..2 : y = [run |-> Context(t, d)[i], rank |-> 2 + i]
        BY <2>3, <4>1
      <4>3. i = 1 \/ i = 2
        BY <4>2
      <4> QED BY <3>2, <4>1, <4>2, <4>3
    <3> QED BY <3>1, <3>2
  <2> QED BY <2>1, <2>2, <2>3 DEF Compared
<1>6. Applied(prior, page, ignore, TRUE, Context(t, d)).latched = Latched(was.latched, C)
  BY DEF Applied, Obs
<1> HIDE DEF C
<1>7. Decisive(C) \subseteq C
      /\ \A y \in Decisive(C) : /\ y.run.status \in Decided
                                /\ \A z \in C : z.run.status \in Decided /\ z # y => Ahead(y, z)
  BY DEF Decisive, Decided
<1>8. \A y \in C : /\ y.run.status \in Decided
                   /\ \A z \in C : z.run.status \in Decided /\ z # y => Ahead(y, z)
                   => y \in Decisive(C)
  BY DEF Decisive, Decided
<1>9. CASE x.status \in Failing
  <2>1. \A y \in Decisive(C) : y \in {X, Y, F} /\ y.run.key = x.key /\ y.run.status \in Failing
    <3> TAKE y \in Decisive(C)
    <3>1. y = X \/ y = Y \/ y = F
      <4>1. y # X => Ahead(y, X)
        BY <1>2, <1>4, <1>7
      <4> QED BY <1>1, <1>5, <1>7, <4>1 DEF Ahead
    <3> QED BY <1>2, <1>9, <3>1 DEF Failing
  <2>2. Decisive(C) # {}
    <3>1. L # None /\ F.run.key = x.key
      BY <1>1, <1>2, <1>9
    <3>2. CASE Y \in C
      <4>1. \A z \in C : z.run.status \in Decided /\ z # Y => Ahead(Y, z)
        BY <1>1, <1>5, <3>1 DEF Ahead
      <4> QED BY <1>2, <1>8, <3>2, <4>1
    <3>3. CASE Y \notin C
      <4>1. \A z \in C : z.run.status \in Decided /\ z # X => Ahead(X, z)
        BY <1>1, <1>5, <3>1, <3>3 DEF Ahead
      <4> QED BY <1>2, <1>4, <1>8, <4>1
    <3> QED BY <3>2, <3>3
  <2>3. Latched(was.latched, C) = x.key
    <3>1. (CHOOSE y \in Decisive(C) : TRUE) \in Decisive(C)
      BY <2>2
    <3> QED BY <2>1, <2>2, <3>1 DEF Latched
  <2> QED BY <1>2, <1>6, <1>9, <2>3
<1>10. CASE x.status = "passed" /\ L = None
  <2>1. was.latched = None
    BY <1>10 DEF NoObservation
  <2>2. \A y \in Decisive(C) : y.run.status \notin Failing
    <3> TAKE y \in Decisive(C)
    <3>1. y = X \/ y = Y
      <4>1. y # X => Ahead(y, X)
        BY <1>2, <1>4, <1>7
      <4> QED BY <1>1, <1>5, <1>7, <1>10, <4>1 DEF Ahead
    <3> QED BY <1>10, <3>1 DEF Failing
  <2>3. Latched(was.latched, C) = None
    BY <2>1, <2>2 DEF Latched
  <2> QED BY <1>6, <1>10, <2>3
<1>11. CASE x.status = "passed" /\ L # None
  <2>1. L > x.key /\ F \in C /\ F.run.status \in Failing /\ F.run.key = L
    BY <1>2, <1>4, <1>11 DEF Failing
  <2>2. \A z \in C : z.run.status \in Decided /\ z # F => Ahead(F, z)
    BY <1>1, <1>5, <2>1 DEF Ahead
  <2>3. F \in Decisive(C)
    BY <1>8, <2>1, <2>2 DEF Decided
  <2>4. \A y \in Decisive(C) : y = F
    <3> TAKE y \in Decisive(C)
    <3> SUFFICES ASSUME y # F PROVE FALSE
      OBVIOUS
    <3>1. Ahead(y, F) /\ Ahead(F, y)
      BY <1>7, <2>1, <2>2 DEF Decided
    <3>2. y = X \/ y = Y \/ (y.run.key \in Nat /\ y.run.key < x.key)
      BY <1>5, <1>7
    <3> QED BY <1>1, <2>1, <3>1, <3>2 DEF Ahead
  <2>5. Latched(was.latched, C) = L
    <3>1. (CHOOSE y \in Decisive(C) : TRUE) = F
      BY <2>3, <2>4
    <3> HIDE DEF F
    <3> QED BY <2>1, <2>3, <3>1 DEF Latched
  <2> QED BY <1>6, <2>5
<1> QED BY <1>2, <1>9, <1>10, <1>11 DEF Decided

\* The definitions whose newest page an observation still compares with.
Recent(t) ==
    CASE t.phase = "latest" -> IF t.throttled THEN {} ELSE t.defs \ (t.todo \union AtHand(t))
      [] t.phase = "catch_up" -> t.todo \union AtHand(t)
      [] OTHER -> {}

Told(t, obs) ==
    t.pc # "idle" =>
       /\ \A d \in Recent(t) : Agrees(t.newest[d], obs[d])
       /\ t.pc = "apply" => t.got.page.def \notin t.todo

Heeded == ~hist.overlapped => \A o \in Observers : Told(turn[o], gate.obs)

\* An observation goes on comparing with what it did, or is over.
Remembers(t, n) ==
    \/ n.pc = "idle"
    \/ /\ t.pc # "idle" /\ n.newest = t.newest /\ Recent(n) \subseteq Recent(t)
       /\ n.pc = "apply" => n.got.page.def \notin n.todo

LEMMA HeededInit == Init => Heeded
BY DEF Init, Heeded, Told, NoTurn

\* What is not touched of an observation is remembered.
LEMMA SameRemembers ==
    ASSUME NEW t, NEW n, n.pc = t.pc, n.phase = t.phase, n.throttled = t.throttled,
           n.defs = t.defs, n.todo = t.todo, n.got = t.got, n.newest = t.newest,
           t.pc = "apply" => t.got.page.def \notin t.todo
    PROVE  Remembers(t, n)
BY DEF Remembers, Recent, AtHand

LEMMA QuietHeeded ==
    ASSUME Heeded, gate'.obs = gate.obs, hist'.overlapped = hist.overlapped,
           ~hist.overlapped => \A o \in Observers : Remembers(turn[o], turn'[o])
    PROVE  Heeded'
BY DEF Heeded, Told, Remembers

\* A step of an observation that leaves the latches alone.
LEMMA OwnHeeded ==
    ASSUME Types, Heeded, gate'.obs = gate.obs, hist'.overlapped = hist.overlapped,
           NEW o \in Observers, NEW n, Set(o, n), ~hist.overlapped => Remembers(turn[o], n)
    PROVE  Heeded'
<1> SUFFICES ASSUME ~hist.overlapped
             PROVE  \A p \in Observers : Remembers(turn[p], turn'[p])
  BY QuietHeeded
<1>1. turn' = [turn EXCEPT ![o] = n] /\ turn \in [Observers -> TurnRec]
  BY DEF Set, Types, TurnsOK
<1>2. \A p \in Observers : turn'[p] = IF p = o THEN n ELSE turn[p]
  BY <1>1
<1>3. \A p \in Observers : Remembers(turn[p], turn[p])
  BY DEF Heeded, Told, Remembers
<1> QED BY <1>2, <1>3

\* A step of an observation that writes the tables, while nobody else observes.
LEMMA WritingHeeded ==
    ASSUME Types, Sequential, hist'.overlapped = hist.overlapped, NEW o \in Observers, NEW n,
           Set(o, n), turn[o].pc # "idle", ~hist.overlapped => Told(n, gate'.obs)
    PROVE  Heeded'
<1> SUFFICES ASSUME ~hist.overlapped
             PROVE  \A p \in Observers : Told(turn'[p], gate'.obs)
  BY DEF Heeded
<1>1. turn' = [turn EXCEPT ![o] = n] /\ turn \in [Observers -> TurnRec]
  BY DEF Set, Types, TurnsOK
<1>2. \A p \in Observers : turn'[p] = IF p = o THEN n ELSE turn[p]
  BY <1>1
<1>3. \A p \in Observers : p # o => turn[p].pc = "idle"
  BY DEF Sequential, Solo
<1> QED BY <1>2, <1>3 DEF Told

\* What a commit writes of each definition.
LEMMA CommitObs ==
    ASSUME GateOK(gate), NEW t, NEW d, NEW record, NEW changed, NEW branch, NEW e \in Definitions
    PROVE  Commit(t, d, record, changed, branch).obs[e] =
             IF e = d THEN record ELSE IF e \in t.defs THEN t.obs[e] ELSE NoObservation
<1> DEFINE obs   == [f \in Definitions |-> IF f = d THEN record
                                           ELSE IF f \in t.defs THEN t.obs[f] ELSE NoObservation]
           open  == Incidents(t, changed, obs)
           count == IF open \ gate.open = {} THEN gate.incidents
                    ELSE Newest(open \union {gate.incidents})
           next  == Commit(t, d, record, changed, branch)
<1>1. next = [gate EXCEPT !.obs = obs, !.branch = branch, !.open = open, !.incidents = count]
  BY DEF Commit, obs, open, count
<1> HIDE DEF next, open, count
<1>2. next.obs = obs
  <2> HIDE DEF obs
  <2> QED BY <1>1 DEF GateOK
<1> QED BY <1>2 DEF next

LEMMA CommittedObs ==
    ASSUME GateOK(gate), NEW o, NEW t, NEW d \in Definitions, NEW record, NEW changed, NEW branch,
           Committed(o, t, d, record, changed, branch)
    PROVE  gate'.obs[d] = record
<1>1. gate' = Commit(t, d, record, changed, branch)
  BY DEF Committed
<1> QED BY <1>1, CommitObs

\* A definition's record is written: the others are kept.
LEMMA CommittedHeeded ==
    ASSUME Types, Sequential, Heeded, NEW o \in Observers, turn[o].pc = "apply",
           NEW t \in TurnRec, t.obs = turn[o].obs, t.defs = turn[o].defs, t.defs \subseteq Definitions,
           NEW d \in Definitions, NEW record, NEW changed, NEW branch,
           Committed(o, t, d, record, changed, branch),
           \A e \in Definitions : e # d => t.newest[e] = turn[o].newest[e],
           t.phase \in {"latest", "catch_up"},
           LET after == IF t.phase = "latest" THEN IF t.throttled THEN {} ELSE t.defs \ t.todo
                        ELSE t.todo
           IN  /\ after \subseteq t.defs /\ after \ {d} \subseteq Recent(turn[o])
               /\ d \in after /\ ~hist.overlapped => Agrees(t.newest[d], record)
    PROVE  Heeded'
<1> DEFINE next  == Commit(t, d, record, changed, branch)
           n     == [t EXCEPT !.pc = "settle", !.changed = changed, !.branch = branch,
                              !.closed = ClosedIn(next.obs), !.got = <<>>,
                              !.due = IF ClosedIn(next.obs) THEN {} ELSE {w \in Items : items[w].held}]
           after == IF t.phase = "latest" THEN IF t.throttled THEN {} ELSE t.defs \ t.todo
                    ELSE t.todo
<1>1. gate' = next /\ Set(o, n) /\ hist'.overlapped = hist.overlapped
  BY DEF Committed, Types, HistOK
<1>2. n.pc = "settle" /\ n.phase = t.phase /\ n.newest = t.newest /\ n.throttled = t.throttled
      /\ n.defs = t.defs /\ n.todo = t.todo
  BY DEF TurnRec
<1> HIDE DEF n
<1>3. Recent(n) = after
  BY <1>2 DEF Recent, AtHand
<1>4. ~hist.overlapped => Told(n, gate'.obs)
  <2> SUFFICES ASSUME ~hist.overlapped, NEW e \in after PROVE Agrees(t.newest[e], gate'.obs[e])
    BY <1>2, <1>3 DEF Told
  <2>1. GateOK(gate) /\ turn[o].obs = gate.obs
    BY DEF Types, Sequential, InStep
  <2>2. e \in Definitions /\ e \in t.defs
    OBVIOUS
  <2>3. gate'.obs[e] = IF e = d THEN record ELSE gate.obs[e]
    BY <1>1, <2>1, <2>2, CommitObs
  <2>4. CASE e = d
    BY <2>3, <2>4
  <2>5. CASE e # d
    <3>1. e \in Recent(turn[o])
      BY <2>5
    <3>2. Agrees(turn[o].newest[e], gate.obs[e])
      BY <3>1 DEF Heeded, Told
    <3> QED BY <2>2, <2>3, <2>5, <3>2
  <2> QED BY <2>4, <2>5
<1>5. turn[o].pc # "idle"
  OBVIOUS
<1> QED BY <1>1, <1>4, <1>5, WritingHeeded

LEMMA NewestHeeded ==
    ASSUME Types, Sequential, Heeded, NEW o \in Observers, ApplyNewest(o)
    PROVE  Heeded'
<1> DEFINE t == turn[o]
           p == t.got.page
<1>1. /\ t \in TurnRec /\ Read(t) /\ p.def \in t.defs /\ Heard(t, {p.def}) /\ p \in Pages
      /\ t.pc = "apply" /\ t.phase = "latest" /\ t.defs \subseteq Definitions
  BY DEF Types, TurnsOK, TurnOK, Read, AtHand, Got, ApplyNewest, TurnRec
<1>2. p.def \in Definitions /\ p.runs \in SUBSET Run /\ IsFiniteSet(p.runs)
      /\ t.obs[p.def] \in Obs
  BY <1>1 DEF Pages, Heard
<1>3. \E r, record, changed, branch :
         /\ r \in NewestRec
         /\ Committed(o, [t EXCEPT !.newest[p.def] = r], p.def, record, changed, branch)
         /\ Agrees(r, record)
  <2> DEFINE called  == t.got.kind \in {"observed", "unavailable"}
             changed == t.changed \/ (called /\ t.branch \notin {NoBranch, p.branch})
             known   == IF changed THEN NoObservation ELSE t.obs[p.def]
             branch  == IF called THEN p.branch ELSE t.branch
             seen    == Applied(known, p.runs, FALSE, FALSE, <<>>)
             cov     == ApplyLatest(known.cov, branch, p.runs, p.exhausted, t.bases[p.def],
                                    Irrelevant(seen))
             first   == Decisive(Compared(known, p.runs, FALSE, FALSE, <<>>))
             heard   == [known |-> TRUE, first |-> {x.run : x \in first}]
             silent  == [known |-> FALSE, first |-> {}]
             record  == [seen EXCEPT !.cov = cov]
  <2>1. known \in Obs
    BY <1>2, NoObservationTyped
  <2>2. CASE t.got.kind = "observed"
    <3>1. Committed(o, [t EXCEPT !.newest[p.def] = heard], p.def, record, changed, branch)
      BY <2>2 DEF ApplyNewest
    <3> HIDE DEF known, cov, changed, branch
    <3>2. heard \in NewestRec
      BY <1>2, <2>1, NewestCompared DEF NewestRec
    <3>3. heard.first = {x.run : x \in Decisive(Compared(known, p.runs, FALSE, FALSE, <<>>))}
      OBVIOUS
    <3> HIDE DEF heard, first
    <3>4. Agrees(heard, record)
      BY <1>2, <2>1, <3>3, NewestAgrees
    <3> HIDE DEF record
    <3> QED BY <3>1, <3>2, <3>4
  <2>3. CASE t.got.kind # "observed"
    <3>1. Committed(o, [t EXCEPT !.newest[p.def] = silent], p.def, Unavailable(known), changed, branch)
      BY <2>3 DEF ApplyNewest
    <3>2. silent \in NewestRec /\ Agrees(silent, Unavailable(known))
      BY DEF NewestRec, Agrees
    <3> HIDE DEF known, changed, branch, silent
    <3> QED BY <3>1, <3>2
  <2> QED BY <2>2, <2>3
<1>4. PICK r, record, changed, branch :
         /\ r \in NewestRec
         /\ Committed(o, [t EXCEPT !.newest[p.def] = r], p.def, record, changed, branch)
         /\ Agrees(r, record)
  BY <1>3
<1>r. r \in NewestRec
  BY <1>4
<1> DEFINE f == [t.newest EXCEPT ![p.def] = r]
           n == [t EXCEPT !.newest[p.def] = r]
<1>5. n = [t EXCEPT !.newest = f]
  BY <1>1 DEF TurnRec
<1>6. f \in Maybe([Definitions -> Maybe(NewestRec)]) /\ f[p.def] = r
      /\ \A e \in Definitions : e # p.def => f[e] = t.newest[e]
  BY <1>1, <1>2, <1>r DEF Heard, Maybe
<1>7. Committed(o, n, p.def, record, changed, branch)
  BY <1>4
<1> HIDE DEF f, n
<1>8. n \in TurnRec /\ n.obs = t.obs /\ n.defs = t.defs /\ n.todo = t.todo
      /\ n.throttled = t.throttled /\ n.phase = "latest" /\ n.newest = f
  BY <1>1, <1>5, <1>6 DEF TurnRec
<1>9. ~t.throttled => (t.defs \ t.todo) \ {p.def} \subseteq Recent(t)
  BY <1>1 DEF Recent, AtHand
<1> QED BY <1>1, <1>2, <1>4, <1>6, <1>7, <1>8, <1>9, CommittedHeeded

LEMMA OlderHeeded ==
    ASSUME Types, Sequential, Heeded, NEW o \in Observers, ApplyOlder(o)
    PROVE  Heeded'
<1> DEFINE t == turn[o]
           p == t.got.page
<1>1. /\ t \in TurnRec /\ Read(t) /\ p.def \in t.defs /\ p \in Pages
      /\ t.pc = "apply" /\ t.phase = "catch_up" /\ t.defs \subseteq Definitions /\ t.todo \subseteq t.defs
  BY DEF Types, TurnsOK, TurnOK, Read, Got, ApplyOlder, TurnRec
<1>2. p.def \in Definitions
  BY <1>1
<1>3. Recent(t) = t.todo \union {p.def}
  BY <1>1 DEF Recent, AtHand
<1>4. ~hist.overlapped => p.def \notin t.todo
  BY <1>1 DEF Heeded, Told
<1>5. CASE t.got.kind = "unavailable"
  <2> DEFINE n == [t EXCEPT !.pc = "fetch", !.got = <<>>]
  <2>1. Set(o, n) /\ gate'.obs = gate.obs /\ hist'.overlapped = hist.overlapped
    BY <1>5 DEF ApplyOlder
  <2>2. n.pc = "fetch" /\ n.phase = t.phase /\ n.newest = t.newest /\ n.todo = t.todo
    BY <1>1 DEF TurnRec
  <2> HIDE DEF n
  <2>3. Remembers(t, n)
    BY <1>1, <1>3, <2>2 DEF Remembers, Recent, AtHand
  <2> QED BY <2>1, <2>3, OwnHeeded
<1>6. CASE t.got.kind # "unavailable"
  <2>1. PICK record, changed, branch : Committed(o, t, p.def, record, changed, branch)
    BY <1>6 DEF ApplyOlder
  <2>2. CASE hist.overlapped
    BY <2>1, <2>2 DEF Committed, Heeded, Types, HistOK
  <2>3. CASE ~hist.overlapped
    BY <1>1, <1>2, <1>3, <1>4, <2>1, <2>3, CommittedHeeded
  <2> QED BY <2>2, <2>3
<1> QED BY <1>5, <1>6

LEMMA BeginHeeded ==
    ASSUME Types, Heeded, NEW o \in Observers, Begin(o)
    PROVE  Heeded'
<1> DEFINE t == [NoTurn EXCEPT !.pc = IF gate.definitions = {} THEN "clear" ELSE "fetch",
                               !.defs = gate.definitions, !.todo = gate.definitions,
                               !.obs = gate.obs, !.active = Active, !.branch = gate.branch,
                               !.bases = [d \in Definitions |-> repair.base[d].order],
                               !.newest = [d \in Definitions |-> <<>>]]
<1>1. turn' = [turn EXCEPT ![o] = t] /\ gate' = gate
      /\ hist' = [hist EXCEPT !.overlapped = @ \/ \E p \in Observers : turn[p].pc # "idle"]
  BY DEF Begin, Set
<1>2. t.phase = "latest" /\ t.defs = t.todo /\ t.pc # "apply"
  BY DEF NoTurn
<1> HIDE DEF t
<1>3. hist'.overlapped = (hist.overlapped \/ \E p \in Observers : turn[p].pc # "idle")
  BY <1>1 DEF Types, HistOK
<1>4. \A p \in Observers : turn'[p] = IF p = o THEN t ELSE turn[p]
  BY <1>1 DEF Types, TurnsOK
<1>5. Told(t, gate'.obs)
  BY <1>2 DEF Told, Recent
<1> QED BY <1>3, <1>4, <1>5 DEF Heeded, Told

LEMMA FetchHeeded ==
    ASSUME Types, Heeded, NEW o \in Observers, NEW kind \in Kinds, Fetch(o, kind)
    PROVE  Heeded'
<1> DEFINE t    == turn[o]
           todo == IF t.phase = "latest" THEN t.todo ELSE Behind(t)
           d    == Min(todo)
           page == Answer(t, d)
           left == IF kind = "throttled" THEN {} ELSE {e \in todo : e > d}
           got  == [kind |-> kind, page |-> page]
           n    == [t EXCEPT !.pc = "apply", !.got = got, !.todo = left,
                             !.throttled = kind = "throttled"]
<1>1. /\ t \in TurnRec /\ Read(t) /\ t.pc = "fetch" /\ ForgeOK(forge) /\ todo # {}
      /\ Set(o, n) /\ gate'.obs = gate.obs /\ hist'.overlapped = hist.overlapped
  BY DEF Types, TurnsOK, TurnOK, Fetch
<1>2. todo \subseteq t.todo /\ todo \subseteq Definitions
  BY <1>1 DEF Behind, TurnRec
<1>3. d \in todo /\ d \in Definitions /\ \A e \in todo : e # d => e > d
  <2>1. todo \subseteq Nat
    BY <1>2, GateAssumption
  <2> HIDE DEF todo
  <2> QED BY <1>1, <1>2, <2>1, MinOf
<1>4. page.def = d
  BY <1>1, <1>3, AnswerTyped
<1> HIDE DEF d, page
<1>5. d \notin left
  BY <1>3, GateAssumption
<1>6. /\ n.pc = "apply" /\ n.phase = t.phase /\ n.newest = t.newest /\ n.todo = left
      /\ n.defs = t.defs /\ n.got.page.def = d /\ n.throttled = (kind = "throttled")
  BY <1>1, <1>4 DEF TurnRec
<1> HIDE DEF n
<1>7. Recent(n) \subseteq Recent(t)
  <2>1. CASE t.phase = "latest"
    <3>1. ~t.throttled
      BY <1>1, <2>1 DEF Read, Heard
    <3>2. Recent(t) = t.defs \ t.todo
      BY <1>1, <2>1, <3>1 DEF Recent, AtHand
    <3>3. Recent(n) \subseteq t.defs \ todo
      BY <1>3, <1>6, <2>1 DEF Recent, AtHand
    <3> QED BY <2>1, <3>2, <3>3
  <2>2. CASE t.phase = "catch_up"
    <3>1. Recent(n) = left \union {d}
      BY <1>6, <2>2 DEF Recent, AtHand
    <3>2. Recent(t) = t.todo
      BY <1>1, <2>2 DEF Recent, AtHand
    <3> QED BY <1>2, <1>3, <3>1, <3>2
  <2>3. CASE t.phase = "end"
    BY <1>6, <2>3 DEF Recent
  <2> QED BY <1>1, <2>1, <2>2, <2>3 DEF TurnRec
<1>8. Remembers(t, n)
  BY <1>1, <1>5, <1>6, <1>7 DEF Remembers
<1> QED BY <1>1, <1>8, OwnHeeded

\* The other steps of an observation.
LEMMA QuietObservesHeeded ==
    ASSUME Types, Sequential, Heeded, NEW o \in Observers,
           \/ Clear(o) \/ CaughtUp(o) \/ Consider(o) \/ Create(o) \/ StartFails(o)
           \/ \E left \in SUBSET Items : Settle(o, left)
    PROVE  Heeded'
<1> DEFINE t == turn[o]
<1>1. t \in TurnRec /\ Read(t)
  BY DEF Types, TurnsOK, TurnOK
<1>2. CASE Clear(o)
  <2> DEFINE n == [t EXCEPT !.pc = "settle", !.phase = "end", !.closed = FALSE,
                            !.due = {w \in Items : items[w].held}]
  <2>1. Set(o, n) /\ t.pc # "idle" /\ hist' = hist
    BY <1>2 DEF Clear
  <2>2. n.pc = "settle" /\ n.phase = "end"
    BY <1>1 DEF TurnRec
  <2> HIDE DEF n
  <2>3. Told(n, gate'.obs)
    BY <2>2 DEF Told, Recent
  <2> QED BY <2>1, <2>3, WritingHeeded
<1>3. CASE CaughtUp(o)
  <2> DEFINE n == [t EXCEPT !.pc = "consider", !.phase = "end"]
  <2>1. Set(o, n) /\ UNCHANGED <<gate, hist>> /\ t.pc = "fetch"
    BY <1>3 DEF CaughtUp
  <2>2. n.pc = "consider" /\ n.phase = "end" /\ n.newest = t.newest
    BY <1>1 DEF TurnRec
  <2> HIDE DEF n
  <2>3. Remembers(t, n)
    BY <2>1, <2>2 DEF Remembers, Recent
  <2> QED BY <2>1, <2>3, OwnHeeded
<1>4. ASSUME NEW left \in SUBSET Items, Settle(o, left) PROVE Heeded'
  <2> DEFINE pc == IF t.phase = "end" \/ (t.phase = "latest" /\ t.todo = {})
                   THEN "consider" ELSE "fetch"
             due == {w \in t.due \ left : ~GateHolds(w)}
             n   == [t EXCEPT !.obs = gate.obs, !.active = Active, !.due = due, !.pc = pc]
  <2>1. Set(o, n) /\ UNCHANGED <<gate, hist>> /\ t.pc = "settle"
    BY <1>4 DEF Settle
  <2>2. /\ n.pc \in {"consider", "fetch"} /\ n.phase = t.phase /\ n.newest = t.newest
        /\ n.todo = t.todo /\ n.defs = t.defs /\ n.throttled = t.throttled
    BY <1>1 DEF TurnRec
  <2> HIDE DEF n
  <2>3. Remembers(t, n)
    BY <2>1, <2>2 DEF Remembers, Recent, AtHand
  <2> QED BY <2>1, <2>3, OwnHeeded
<1>5. ASSUME t.pc \in {"consider", "create"} PROVE Remembers(t, Resume(t))
  <2>1. CASE t.phase = "end"
    BY <2>1 DEF Remembers, Resume, NoTurn
  <2>2. CASE t.phase # "end" /\ t.throttled
    <3> DEFINE n == [t EXCEPT !.pc = "consider", !.phase = "end", !.ev = {}]
    <3>1. n.pc = "consider" /\ n.phase = "end" /\ n.newest = t.newest /\ Resume(t) = n
      BY <1>1, <2>2 DEF TurnRec, Resume
    <3> HIDE DEF n
    <3> QED BY <1>5, <3>1 DEF Remembers, Recent
  <2>3. CASE t.phase # "end" /\ ~t.throttled
    <3> DEFINE n == [t EXCEPT !.pc = "fetch", !.phase = "catch_up", !.todo = t.defs, !.ev = {}]
    <3>1. /\ n.pc = "fetch" /\ n.phase = "catch_up" /\ n.newest = t.newest /\ n.todo = t.defs
          /\ Resume(t) = n
      BY <1>1, <2>3 DEF TurnRec, Resume
    <3>2. Recent(t) = t.defs
      BY <1>1, <1>5, <2>3 DEF Read, Recent, AtHand
    <3> HIDE DEF n
    <3>3. Recent(n) = t.defs
      BY <3>1 DEF Recent, AtHand
    <3> QED BY <1>5, <3>1, <3>2, <3>3 DEF Remembers
  <2> QED BY <2>1, <2>2, <2>3
<1>6. CASE Consider(o)
  <2> DEFINE n == [t EXCEPT !.pc = "create", !.ev = Evidence, !.known = hist.handled]
  <2>1. UNCHANGED <<gate, hist>> /\ t.pc = "consider" /\ (Set(o, n) \/ Set(o, Resume(t)))
    BY <1>6 DEF Consider
  <2>2. /\ n.pc = "create" /\ n.phase = t.phase /\ n.newest = t.newest
        /\ n.todo = t.todo /\ n.defs = t.defs /\ n.throttled = t.throttled
    BY <1>1 DEF TurnRec
  <2> HIDE DEF n
  <2>3. Remembers(t, n)
    BY <2>1, <2>2 DEF Remembers, Recent, AtHand
  <2> QED BY <1>5, <2>1, <2>3, OwnHeeded
<1>7. CASE Create(o) \/ StartFails(o)
  <2>1. UNCHANGED <<gate, hist>> /\ t.pc \in {"consider", "create"} /\ Set(o, Resume(t))
    BY <1>7 DEF Create, StartFails
  <2> QED BY <1>5, <2>1, OwnHeeded
<1> QED BY <1>2, <1>3, <1>4, <1>6, <1>7

LEMMA OthersHeeded ==
    ASSUME Types, Heeded, Forged \/ Aside \/ Holds \/ Crash
    PROVE  Heeded'
<1>1. /\ \A o \in Observers : turn[o] \in TurnRec
      /\ GateOK(gate) /\ HistOK(hist)
  BY DEF Types, TurnsOK
<1>2. ~hist.overlapped => \A o \in Observers : Remembers(turn[o], turn[o])
  BY DEF Heeded, Told, Remembers
<1>3. CASE Forged \/ Aside
  <2>1. turn' = turn /\ gate'.obs = gate.obs /\ hist'.overlapped = hist.overlapped
    BY <1>1, <1>3 DEF Forged, Aside, ChangeBranch, StartManual, CreateManual, ManualFails, End,
                      AskToMerge, Authorize, Select, GateOK, HistOK, vars
  <2> QED BY <1>2, <2>1, QuietHeeded
<1>4. CASE Holds
  <2>1. PICK w : NotDue(w) /\ gate' = gate /\ hist' = hist
    BY <1>4 DEF Holds, Hold, HoldMerge
  <2>2. ASSUME NEW o \in Observers, ~hist.overlapped PROVE Remembers(turn[o], turn'[o])
    <3> DEFINE n == [turn[o] EXCEPT !.due = @ \ {w}]
    <3>1. /\ n.pc = turn[o].pc /\ n.phase = turn[o].phase /\ n.throttled = turn[o].throttled
          /\ n.defs = turn[o].defs /\ n.todo = turn[o].todo /\ n.got = turn[o].got
          /\ n.newest = turn[o].newest
      BY <1>1 DEF TurnRec
    <3>2. turn'[o] = n
      BY <2>1 DEF NotDue
    <3> HIDE DEF n
    <3>3. turn[o].pc = "apply" => turn[o].got.page.def \notin turn[o].todo
      BY <2>2 DEF Heeded, Told
    <3> QED BY <3>1, <3>2, <3>3, SameRemembers
  <2> QED BY <2>1, <2>2, QuietHeeded
<1>5. CASE Crash
  <2>1. gate' = gate /\ hist' = hist /\ turn' = [o \in Observers |-> NoTurn]
    BY <1>5 DEF Crash
  <2>2. \A o \in Observers : Remembers(turn[o], turn'[o])
    BY <2>1 DEF Remembers, NoTurn
  <2> QED BY <2>1, <2>2, QuietHeeded
<1> QED BY <1>3, <1>4, <1>5

LEMMA HeededStep == Types /\ Sequential /\ Heeded /\ [Next]_vars => Heeded'
<1> SUFFICES ASSUME Types, Sequential, Heeded, [Next]_vars PROVE Heeded'
  OBVIOUS
<1>1. PlanOK /\ GateOK(gate)
  BY DEF Types
<1>2. CASE ForgeMoves
  BY <1>2, ForgeStep, OthersHeeded DEF ForgeMoves
<1>3. CASE \E o \in Observers : Observes(o)
  BY <1>3, BeginHeeded, FetchHeeded, NewestHeeded, OlderHeeded, QuietObservesHeeded DEF Observes
<1>4. CASE Aside \/ Holds \/ Crash
  BY <1>4, OthersHeeded
<1> QED BY <1>1, <1>2, <1>3, <1>4, Steps

\* An older page is applied by the observation that read it.
LEMMA AppliesItself ==
    ASSUME Types, [Next]_vars, NEW o \in Observers, turn[o].pc = "apply",
           turn[o].phase = "catch_up", turn'[o].pc = "settle"
    PROVE  ApplyOlder(o)
<1>1. PlanOK /\ GateOK(gate) /\ TurnsOK(turn, gate) /\ turn[o] \in TurnRec
  BY DEF Types, TurnsOK
<1>2. turn'[o] # turn[o]
  OBVIOUS
<1>3. ~ForgeMoves
  BY <1>2, ForgeStep DEF ForgeMoves, Forged
<1>4. ~Aside
  BY <1>2 DEF Aside, StartManual, CreateManual, ManualFails, End, ChangeBranch, AskToMerge,
              Authorize, Select, vars
<1>5. ~Holds
  <2>1. \A w : [turn[o] EXCEPT !.due = @ \ {w}].pc = turn[o].pc
    BY <1>1 DEF TurnRec
  <2>2. ASSUME NEW w, NotDue(w) PROVE turn'[o].pc = turn[o].pc
    BY <2>1, <2>2 DEF NotDue
  <2> QED BY <2>2 DEF Holds, Hold, HoldMerge
<1>6. ~Crash
  BY DEF Crash, NoTurn
<1>7. PICK p \in Observers : Observes(p)
  BY <1>1, <1>3, <1>4, <1>5, <1>6, Steps
<1>8. p = o
  <2>1. \E n : Set(p, n)
    BY <1>7 DEF Observes, Begin, Clear, CaughtUp, ApplyNewest, ApplyOlder, Fetch, Settle, Consider,
                Create, StartFails, Committed
  <2> QED BY <1>1, <1>2, <2>1 DEF Set, TurnsOK
<1> QED BY <1>7, <1>8
        DEF Observes, Begin, Clear, CaughtUp, ApplyNewest, Fetch, Settle, Consider, Create, StartFails

\* An older page of runs never speaks against the newest page: whatever failures,
\* reruns, unfinished runs and changes of the branch the two pages show, it moves
\* the latch by a result at least as new, and not at all if the newest page was
\* not there (applyObservedRuns with its decisive context, observeGroup).
THEOREM OlderPagesYield == Spec => CatchUpRespectsNewest
<1>1. Types /\ Sequential /\ Heeded /\ [Next]_vars =>
        [\A o \in Observers :
            turn[o].pc = "apply" /\ turn[o].phase = "catch_up" /\ turn'[o].pc = "settle" =>
               LET d == turn[o].got.page.def
                   n == turn[o].newest[d]
                   p == turn[o].obs[d]
                   q == gate'.obs[d]
               IN  /\ ~n.known => q.latched = p.latched /\ q.err = p.err
                   /\ ~hist.overlapped /\ n.known /\ q.latched # p.latched =>
                         \A x \in n.first : \E r \in turn[o].got.page.runs :
                            r.status \in Failing \union {"passed"} /\ r.key >= x.key]_vars
  <2> SUFFICES ASSUME Types, Sequential, Heeded, [Next]_vars, NEW o \in Observers,
                      turn[o].pc = "apply", turn[o].phase = "catch_up", turn'[o].pc = "settle"
               PROVE  LET d == turn[o].got.page.def
                          n == turn[o].newest[d]
                          p == turn[o].obs[d]
                          q == gate'.obs[d]
                      IN  /\ ~n.known => q.latched = p.latched /\ q.err = p.err
                          /\ ~hist.overlapped /\ n.known /\ q.latched # p.latched =>
                                \A x \in n.first : \E r \in turn[o].got.page.runs :
                                   r.status \in Failing \union {"passed"} /\ r.key >= x.key
    OBVIOUS
  <2> DEFINE t    == turn[o]
             page == t.got.page
             d    == page.def
             n    == t.newest[d]
             p    == t.obs[d]
             q    == gate'.obs[d]
             cov  == ApplyCatchUp(p.cov, page.runs, page.exhausted)
             seen == IF n.known THEN Applied(p, page.runs, t.changed, TRUE, Context(t, d)) ELSE p
  <2>1. ApplyOlder(o) /\ t \in TurnRec /\ Read(t) /\ GateOK(gate)
    BY AppliesItself DEF Types, TurnsOK, TurnOK
  <2>2. /\ d \in t.defs /\ d \in Definitions /\ page \in Pages /\ p \in Obs /\ n \in NewestRec
        /\ d \in AtHand(t) /\ page.runs \in SUBSET Run /\ IsFiniteSet(page.runs)
        /\ t.changed \in BOOLEAN
    <3>1. t.got \in Got /\ d \in t.defs /\ Heard(t, {d}) /\ t.defs \subseteq Definitions
      BY <2>1 DEF Read, AtHand, TurnRec
    <3> QED BY <2>1, <3>1 DEF Heard, AtHand, Got, Pages, TurnRec
  <2>3. CASE t.got.kind = "unavailable"
    <3>1. Set(o, [t EXCEPT !.pc = "fetch", !.got = <<>>])
      BY <2>1, <2>3 DEF ApplyOlder
    <3>2. turn'[o] = [t EXCEPT !.pc = "fetch", !.got = <<>>]
      BY <3>1 DEF Set, Types, TurnsOK
    <3>3. turn'[o].pc = "fetch"
      BY <2>1, <3>2 DEF TurnRec
    <3> QED BY <3>3
  <2>4. CASE t.got.kind \notin {"unavailable", "observed"}
    <3>1. Committed(o, t, d, p, t.changed, t.branch)
      BY <2>1, <2>4 DEF ApplyOlder
    <3>2. q = p
      BY <2>1, <2>2, <3>1, CommittedObs
    <3> QED BY <3>2
  <2>5. CASE t.got.kind = "observed"
    <3>1. Committed(o, t, d, [seen EXCEPT !.cov = cov], t.changed, t.branch)
      BY <2>1, <2>5 DEF ApplyOlder
    <3>2. q = [seen EXCEPT !.cov = cov]
      <4> HIDE DEF seen, cov
      <4> QED BY <2>1, <2>2, <3>1, CommittedObs
    <3>3. seen \in Obs
      <4>1. Known(Context(t, d))
        BY <2>2, ContextKnown DEF Obs, NewestRec
      <4>2. Applied(p, page.runs, t.changed, TRUE, Context(t, d)) \in Obs
        BY <2>2, <4>1, AppliedTyped
      <4> QED BY <2>2, <4>2
    <3> HIDE DEF cov
    <3>4. q.latched = seen.latched /\ q.err = seen.err
      <4> HIDE DEF seen
      <4> QED BY <3>2, <3>3 DEF Obs
    <3>5. CASE ~n.known
      BY <3>4, <3>5
    <3>6. CASE n.known
      <4> SUFFICES ASSUME ~hist.overlapped, NEW x \in n.first,
                          \A r \in page.runs : ~(r.status \in Failing \union {"passed"} /\ r.key >= x.key)
                   PROVE  q.latched = p.latched
        BY <3>6
      <4>1. x.key \in Nat /\ \A r \in page.runs : r.key \in Nat
        BY <2>2 DEF NewestRec, Run, Keyed
      <4>2. \A r \in page.runs : r.status \in Decided => r.key < x.key
        BY <4>1 DEF Decided
      <4>3. d \in Recent(t)
        BY <2>2 DEF Recent
      <4>4. t.obs = gate.obs
        BY DEF Sequential, InStep
      <4>5. Agrees(n, p)
        BY <4>3, <4>4 DEF Heeded, Told
      <4>6. Applied(p, page.runs, t.changed, TRUE, Context(t, d)).latched = p.latched
        <5> HIDE DEF t, page, d
        <5> QED BY <2>2, <3>6, <4>2, <4>5, Overruled
      <4>7. seen = Applied(p, page.runs, t.changed, TRUE, Context(t, d))
        BY <3>6
      <4> HIDE DEF seen
      <4> QED BY <3>4, <4>6, <4>7
    <3> QED BY <3>5, <3>6
  <2> QED BY <2>3, <2>4, <2>5
<1> QED BY <1>1, TypesInit, TypesStep, SequentialInit, SequentialStep, HeededInit, HeededStep,
        PTL DEF Spec, CatchUpRespectsNewest

-----------------------------------------------------------------------------
(* What has been read: a coverage claims runs, and a page bears it out. *)

\* The places in the history that a coverage knows of.
Marks(c) == {None, c.check, c.upper, c.progress, c.floor} \union c.pending

\* Some mark is not older than run n.
Upto(marks, n) == \E k \in marks : n <= RunOf(k)

RunsIn(page) == {RunOf(k) : k \in Keys(page)}

\* Of the runs of a branch, those that a coverage stands for have been read: what
\* is complete reaches from the checkpoint up to the newest mark; a gap has been
\* read from its floor up, and from where reading goes on up to its upper end.
Claims(c, ids, marks, read) ==
    /\ c.state = "complete" /\ c.check # None =>
          \A n \in ids : RunOf(c.check) <= n /\ Upto(marks, n) => n \in read
    /\ c.state = "gap" =>
          /\ c.progress <= c.upper
          /\ \A n \in ids : RunOf(c.floor) <= n /\ Upto(marks, n) => n \in read
          /\ \A n \in ids : RunOf(c.progress) <= n /\ n <= RunOf(c.upper) => n \in read

\* A newest page has every run from its oldest up to the newest mark.
NewestCovers(ids, marks, page) ==
    page # {} => \A n \in ids : \/ n \in RunsIn(page)
                                \/ n < RunOf(Min(Keys(page)))
                                \/ ~Upto(marks \union Keys(page), n)

\* A catch-up page has every run from its oldest up to the bound, and marks
\* nothing newer than what was marked.
OlderCovers(ids, bound, marks, page) ==
    /\ \A k \in Keys(page) : Upto(marks, RunOf(k))
    /\ \A n \in ids : \/ n >= RunOf(bound)
                      \/ n \in RunsIn(page)
                      \/ \A k \in Keys(page) : k <= bound => n < RunOf(k)

\* What a page makes of a coverage.
Advanced(c, ids, marks, page, read) ==
    /\ IsFiniteSet(c.pending)
    /\ Marks(c) \subseteq marks \union Keys(page)
    /\ Claims(c, ids, marks \union Keys(page), read \union RunsIn(page))

LEMMA PendingFinite ==
    ASSUME NEW pending \in SUBSET Keyed, NEW page \in SUBSET Run, IsFiniteSet(page),
           IsFiniteSet(pending)
    PROVE  /\ Pending(page) \subseteq Keys(page) /\ IsFiniteSet(Pending(page))
           /\ MergePending(pending, page) \subseteq pending \union Keys(page)
           /\ IsFiniteSet(MergePending(pending, page))
<1>1. IsFiniteSet(Keys(page))
  BY PageKeys
<1>2. Pending(page) \subseteq Keys(page)
  BY DEF Pending, Keys
<1>3. MergePending(pending, page) \subseteq pending \union Keys(page)
  BY <1>2 DEF MergePending
<1>4. IsFiniteSet(pending \union Keys(page))
  BY <1>1, FS_Union
<1> QED BY <1>1, <1>2, <1>3, <1>4, FS_Subset

\* The runs of a page that is not empty are at least as new as its oldest.
LEMMA OldestRun ==
    ASSUME NEW page \in SUBSET Run, page # {}
    PROVE  /\ Min(Keys(page)) \in Keys(page) /\ Min(Keys(page)) \in Nat
           /\ RunOf(Min(Keys(page))) \in RunsIn(page) /\ RunOf(Min(Keys(page))) \in Nat
           /\ \A k \in Keys(page) : /\ k \in Nat /\ Min(Keys(page)) <= k
                                    /\ RunOf(Min(Keys(page))) <= RunOf(k)
<1>1. Keys(page) \subseteq Nat /\ Keys(page) # {}
  BY DEF Keys, Run, Keyed
<1>2. Min(Keys(page)) \in Keys(page) /\ \A k \in Keys(page) : Min(Keys(page)) <= k
  BY <1>1, MinOf
<1>3. \A k \in Keys(page) : RunOf(Min(Keys(page))) <= RunOf(k)
  BY <1>1, <1>2, RunOfMonotone
<1> QED BY <1>1, <1>2, <1>3, RunOfTyped DEF RunsIn

\* A newest page that reaches down to a place has every run from that place up.
LEMMA NewestReads ==
    ASSUME NEW page \in SUBSET Run, page # {}, NEW ids \in SUBSET Nat, NEW marks,
           NewestCovers(ids, marks, page), NEW n \in ids, RunOf(Min(Keys(page))) <= n,
           Upto(marks \union Keys(page), n)
    PROVE  n \in RunsIn(page)
<1>1. RunOf(Min(Keys(page))) \in Nat /\ n \in Nat
  BY OldestRun
<1>2. ~(n < RunOf(Min(Keys(page))))
  BY <1>1
<1> QED BY <1>2 DEF NewestCovers

LEMMA LatestReads ==
    ASSUME NEW stored \in Cov, NEW b \in Branches, NEW page \in SUBSET Run, IsFiniteSet(page),
           NEW exhausted \in BOOLEAN, NEW baseline \in Nat, NEW irrelevant \in BOOLEAN,
           NEW ids \in SUBSET Nat, NEW marks \in SUBSET Nat, NEW read,
           IsFiniteSet(stored.pending), Marks(stored) \subseteq marks,
           stored.branch = NoBranch => stored.state # "gap" /\ stored.check = None,
           stored.branch = b => Claims(stored, ids, marks, read),
           NewestCovers(ids, marks, page)
    PROVE  LET c == ApplyLatest(stored, b, page, exhausted, baseline, irrelevant)
           IN  c.branch = b /\ Advanced(c, ids, marks, page, read)
<1> DEFINE cov       == IF stored.branch \in {NoBranch, b} THEN stored ELSE NoCoverage(NoBranch)
           keys      == Keys(page)
           oldest    == Min(keys)
           saw       == \E k \in keys : SameRun(k, cov.check)
           connected == cov.floor = None \/ Reached(keys, cov.floor)
           merged    == MergePending(cov.pending, page)
           lost      == [cov EXCEPT !.floor = oldest, !.pending = merged]
           walk      == [state |-> "gap", branch |-> b, check |-> cov.check, upper |-> oldest,
                         progress |-> oldest, stop |-> ChooseStop(cov.check, baseline, irrelevant),
                         floor |-> oldest, pending |-> Pending(page)]
           whole     == [walk EXCEPT !.state = "complete", !.check = oldest, !.upper = None,
                                     !.stop = None]
           all       == marks \union keys
           R         == read \union RunsIn(page)
           P(c)      == c.branch = b /\ Advanced(c, ids, marks, page, read)
<1>1. cov \in Cov /\ IsFiniteSet(cov.pending) /\ Marks(cov) \subseteq marks
      /\ Claims(cov, ids, marks, read)
  <2>1. CASE stored.branch = b
    BY <2>1
  <2>2. CASE stored.branch = NoBranch
    BY <2>2 DEF Claims
  <2>3. CASE stored.branch \notin {NoBranch, b}
    <3>1. NoCoverage(NoBranch) \in Cov
      BY NoCoverageShaped
    <3>2. IsFiniteSet(NoCoverage(NoBranch).pending)
      BY FS_EmptySet DEF NoCoverage
    <3>3. Marks(NoCoverage(NoBranch)) = {None} /\ None \in marks
      BY DEF Marks, NoCoverage
    <3>4. Claims(NoCoverage(NoBranch), ids, marks, read)
      BY DEF Claims, NoCoverage
    <3> QED BY <2>3, <3>1, <3>2, <3>3, <3>4
  <2> QED BY <2>1, <2>2, <2>3
<1> HIDE DEF cov
<1>2. cov \in CovRec /\ Shaped(cov)
  BY <1>1 DEF Cov
<1>3. \A c \in CovRec : /\ Truncated(c, b).state = "truncated" /\ Truncated(c, b).branch = b
                        /\ Truncated(c, b).pending = c.pending
                        /\ Marks(Truncated(c, b)) \subseteq Marks(c)
  BY DEF Truncated, CovRec, Marks
<1>4. ASSUME NEW c \in CovRec, IsFiniteSet(c.pending), Marks(c) \subseteq all
      PROVE  P(Truncated(c, b))
  <2> DEFINE n == Truncated(c, b)
  <2>1. n.state = "truncated" /\ n.branch = b /\ n.pending = c.pending /\ Marks(n) \subseteq Marks(c)
    BY <1>3
  <2> HIDE DEF n
  <2>2. P(n)
    BY <1>4, <2>1 DEF Advanced, Claims
  <2> QED BY <2>2 DEF n
<1>5. CASE page = {}
  <2>1. keys = {} /\ RunsIn(page) = {} /\ all = marks /\ R = read
    BY <1>5 DEF Keys, RunsIn
  <2> DEFINE same == [cov EXCEPT !.branch = b]
  <2>2. /\ same.branch = b /\ same.state = cov.state /\ same.check = cov.check
        /\ same.upper = cov.upper /\ same.progress = cov.progress /\ same.floor = cov.floor
        /\ same.pending = cov.pending
    BY <1>2 DEF CovRec
  <2> HIDE DEF same
  <2>3. Marks(same) = Marks(cov) /\ Claims(same, ids, marks, read)
    BY <1>1, <2>2 DEF Marks, Claims
  <2>4. P(same)
    BY <1>1, <2>1, <2>2, <2>3 DEF Advanced
  <2>5. P(Truncated(cov, b))
    BY <1>1, <1>2, <1>4
  <2> HIDE DEF P
  <2>6. P(ApplyLatest(stored, b, page, exhausted, baseline, irrelevant))
    BY <1>5, <2>4, <2>5 DEF ApplyLatest, cov, same
  <2> QED BY <2>6 DEF P
<1>6. CASE page # {}
  <2>1. /\ oldest \in keys /\ oldest \in Nat /\ keys \subseteq Nat
        /\ RunOf(oldest) \in RunsIn(page) /\ RunOf(oldest) \in Nat
        /\ \A k \in keys : oldest <= k /\ RunOf(oldest) <= RunOf(k)
    BY <1>6, OldestRun
  <2>2. /\ Pending(page) \subseteq keys /\ IsFiniteSet(Pending(page))
        /\ merged \subseteq cov.pending \union keys /\ IsFiniteSet(merged)
    BY <1>1, <1>2, PendingFinite DEF CovRec
  <2>3. /\ merged \in SUBSET Keyed /\ Pending(page) \in SUBSET Keyed
    BY <1>2, MergeTyped DEF CovRec
  <2>4. \A n \in ids : RunOf(oldest) <= n /\ Upto(all, n) => n \in R
    BY <1>6, NewestReads
  <2>5. \A n \in ids : n \in Nat
    OBVIOUS
  <2> HIDE DEF oldest, merged
  <2>6. P(Truncated(lost, b))
    <3>1. lost \in CovRec /\ lost.pending = merged /\ lost.check = cov.check
          /\ lost.upper = cov.upper /\ lost.progress = cov.progress /\ lost.floor = oldest
      BY <1>2, <2>1, <2>3 DEF CovRec
    <3> HIDE DEF lost, keys
    <3>2. Marks(lost) \subseteq marks \union keys
      BY <1>1, <2>1, <2>2, <3>1 DEF Marks
    <3> QED BY <1>4, <2>2, <3>1, <3>2
  <2>7. P(walk)
    <3>1. /\ walk.state = "gap" /\ walk.branch = b /\ walk.check = cov.check
          /\ walk.upper = oldest /\ walk.progress = oldest /\ walk.floor = oldest
          /\ walk.pending = Pending(page)
      OBVIOUS
    <3> HIDE DEF walk
    <3>2. Marks(walk) \subseteq marks \union keys
      BY <1>1, <2>1, <2>2, <3>1 DEF Marks
    <3>3. Claims(walk, ids, all, R)
      <4>1. \A n \in ids : RunOf(oldest) <= n /\ n <= RunOf(oldest) => n \in R
        BY <2>1, <2>5
      <4> HIDE DEF all, R
      <4> QED BY <2>1, <2>4, <3>1, <4>1 DEF Claims
    <3> QED BY <2>2, <3>1, <3>2, <3>3 DEF Advanced
  <2>8. P(whole)
    <3>1. /\ whole.state = "complete" /\ whole.branch = b /\ whole.check = oldest
          /\ whole.upper = None /\ whole.progress = oldest /\ whole.floor = oldest
          /\ whole.pending = Pending(page)
      OBVIOUS
    <3> HIDE DEF whole
    <3>2. Marks(whole) \subseteq marks \union keys
      BY <1>1, <2>1, <2>2, <3>1 DEF Marks
    <3>3. Claims(whole, ids, all, R)
      <4> HIDE DEF all, R
      <4> QED BY <2>4, <3>1 DEF Claims
    <3> QED BY <2>2, <3>1, <3>2, <3>3 DEF Advanced
  <2>9. cov.state = "gap" => P(LatestInGap(cov, oldest, connected, merged, b))
    <3> SUFFICES ASSUME cov.state = "gap"
                 PROVE  P(LatestInGap(cov, oldest, connected, merged, b))
      OBVIOUS
    <3> DEFINE n == LatestInGap(cov, oldest, connected, merged, b)
    <3>1. /\ n.state = "gap" /\ n.branch = b /\ n.check = cov.check /\ n.upper = cov.upper
          /\ n.progress = cov.progress /\ n.pending = merged
          /\ n.floor = IF connected THEN cov.floor ELSE oldest
      BY <1>2 DEF LatestInGap, CovRec
    <3> HIDE DEF n
    <3>2. Marks(n) \subseteq marks \union keys
      BY <1>1, <2>1, <2>2, <3>1 DEF Marks
    <3>3. cov.floor \in Nat /\ cov.upper \in Nat /\ cov.progress \in Nat /\ cov.floor # None
      BY <1>2 DEF CovRec, Shaped, None
    <3>4. connected => RunOf(oldest) <= RunOf(cov.floor)
      <4> SUFFICES ASSUME connected PROVE RunOf(oldest) <= RunOf(cov.floor)
        OBVIOUS
      <4>1. PICK k \in keys : SameRun(k, cov.floor) \/ k <= cov.floor
        BY <3>3 DEF Reached
      <4>2. RunOf(oldest) <= RunOf(k) /\ k \in Nat
        BY <2>1
      <4>3. RunOf(k) <= RunOf(cov.floor)
        BY <3>3, <4>1, <4>2, RunOfMonotone, RunOfTyped DEF SameRun
      <4>4. RunOf(k) \in Nat /\ RunOf(cov.floor) \in Nat /\ RunOf(oldest) \in Nat
        BY <2>1, <3>3, <4>2, RunOfTyped
      <4> QED BY <4>2, <4>3, <4>4
    <3>5. \A m \in ids : RunOf(n.floor) <= m /\ Upto(all, m) => m \in R
      <4> TAKE m \in ids
      <4>1. RunOf(oldest) <= RunOf(n.floor)
        BY <2>1, <3>1, <3>4
      <4>2. RunOf(n.floor) \in Nat
        BY <2>1, <3>1, <3>3, RunOfTyped
      <4>3. RunOf(oldest) \in Nat /\ m \in Nat
        BY <2>1, <2>5
      <4>4. RunOf(n.floor) <= m => RunOf(oldest) <= m
        BY ONLY <4>1, <4>2, <4>3
      <4> HIDE DEF all, R
      <4> QED BY <2>4, <4>4
    <3>6. /\ cov.progress <= cov.upper
          /\ \A m \in ids : RunOf(cov.progress) <= m /\ m <= RunOf(cov.upper) => m \in read
      BY <1>1 DEF Claims
    <3>7. Claims(n, ids, all, R)
      <4>1. \A m \in ids : RunOf(cov.progress) <= m /\ m <= RunOf(cov.upper) => m \in R
        BY <3>6
      <4> HIDE DEF all, R, connected
      <4> QED BY <3>1, <3>5, <3>6, <4>1 DEF Claims
    <3>8. P(n)
      BY <2>2, <3>1, <3>2, <3>7 DEF Advanced
    <3> QED BY <3>8 DEF n
  <2> HIDE DEF walk, whole, lost, connected, saw, P
  <2> DEFINE c     == ApplyLatest(stored, b, page, exhausted, baseline, irrelevant)
             inGap == LatestInGap(cov, oldest, connected, merged, b)
  <2>10. c \in {Truncated(lost, b), walk, whole} \/ (cov.state = "gap" /\ c = inGap)
    BY <1>6 DEF ApplyLatest, cov, keys, oldest, saw, connected, merged, lost, walk, whole
  <2> HIDE DEF c, inGap
  <2>11. cov.state = "gap" => P(inGap)
    BY <2>9 DEF inGap
  <2>12. P(c)
    BY <2>6, <2>7, <2>8, <2>10, <2>11
  <2> QED BY <2>12 DEF P, c
<1> QED BY <1>5, <1>6

\* Where a gap is read next: at its floor while that is above its upper end, then
\* downwards from where reading stopped.
LEMMA BoundOf ==
    ASSUME NEW c \in Cov, c.state = "gap"
    PROVE  /\ c.floor \in Nat /\ c.upper \in Nat /\ c.progress \in Nat
           /\ c.upper # None /\ c.progress # None /\ c.floor >= c.upper
           /\ c.floor > c.upper => CatchUpBound(c) = c.floor
           /\ ~(c.floor > c.upper) => CatchUpBound(c) = c.progress /\ c.floor = c.upper
           /\ CatchUpBound(c) \in Nat \ {None} /\ CatchUpBound(c) \in Marks(c)
BY DEF Cov, CovRec, Shaped, CatchUpBound, None, Marks

\* What a catch-up page marks was marked.
LEMMA OlderMarks ==
    ASSUME NEW ids, NEW bound, NEW page \in SUBSET Run, NEW marks \in SUBSET Nat,
           OlderCovers(ids, bound, marks, page), NEW n \in Nat,
           Upto(marks \union Keys(page), n)
    PROVE  Upto(marks, n)
<1>1. PICK k \in marks \union Keys(page) : n <= RunOf(k)
  BY DEF Upto
<1>2. CASE k \in marks
  BY <1>1, <1>2 DEF Upto
<1>3. CASE k \in Keys(page)
  <2>1. PICK l \in marks : RunOf(k) <= RunOf(l)
    BY <1>3 DEF OlderCovers, Upto
  <2>2. k \in Nat
    BY <1>3 DEF Keys, Run, Keyed
  <2>3. RunOf(k) \in Nat /\ RunOf(l) \in Nat
    BY <2>2, RunOfTyped
  <2>4. n <= RunOf(l)
    BY <1>1, <2>1, <2>3
  <2> QED BY <2>4 DEF Upto
<1> QED BY <1>2, <1>3

\* With a catch-up page that is not empty, everything from its oldest run up has
\* been read.
LEMMA OlderReaches ==
    ASSUME NEW cov \in Cov, cov.state = "gap", NEW page \in SUBSET Run, NEW ids \in SUBSET Nat,
           NEW marks \in SUBSET Nat, NEW read, Claims(cov, ids, marks, read),
           OlderCovers(ids, CatchUpBound(cov), marks, page),
           NEW oldest \in Keys(page), oldest <= CatchUpBound(cov),
           NEW n \in ids, RunOf(oldest) <= n, Upto(marks \union Keys(page), n)
    PROVE  n \in read \union RunsIn(page)
<1> DEFINE bound == CatchUpBound(cov)
<1>1. /\ cov.floor \in Nat /\ cov.upper \in Nat /\ cov.progress \in Nat /\ bound \in Nat
      /\ cov.floor > cov.upper => bound = cov.floor
      /\ ~(cov.floor > cov.upper) => bound = cov.progress /\ cov.floor = cov.upper
  BY BoundOf
<1>2. n \in Nat /\ oldest \in Nat
  BY DEF Keys, Run, Keyed
<1>3. RunOf(oldest) \in Nat /\ RunOf(bound) \in Nat /\ RunOf(cov.upper) \in Nat
  BY <1>1, <1>2, RunOfTyped
<1>4. Upto(marks, n)
  BY <1>2, OlderMarks
<1>5. n >= RunOf(bound) \/ n \in RunsIn(page)
  BY <1>2, <1>3 DEF OlderCovers
<1>6. /\ RunOf(cov.floor) <= n => n \in read
      /\ RunOf(cov.progress) <= n /\ n <= RunOf(cov.upper) => n \in read
  BY <1>4 DEF Claims
<1> HIDE DEF bound
<1>7. CASE cov.floor > cov.upper
  <2>1. bound = cov.floor
    BY <1>1, <1>7
  <2> QED BY <1>2, <1>3, <1>5, <1>6, <2>1
<1>8. CASE ~(cov.floor > cov.upper)
  <2>1. bound = cov.progress /\ cov.floor = cov.upper
    BY <1>1, <1>8
  <2>2. n <= RunOf(cov.upper) \/ RunOf(cov.upper) <= n
    BY <1>2, <1>3
  <2> QED BY <1>2, <1>3, <1>5, <1>6, <2>1, <2>2
<1> QED BY <1>7, <1>8

LEMMA OlderReads ==
    ASSUME NEW cov \in Cov, cov.state = "gap", NEW page \in SUBSET Run, IsFiniteSet(page),
           NEW exhausted \in BOOLEAN, NEW ids \in SUBSET Nat, NEW marks \in SUBSET Nat, NEW read,
           IsFiniteSet(cov.pending), Marks(cov) \subseteq marks, Claims(cov, ids, marks, read),
           OlderCovers(ids, CatchUpBound(cov), marks, page)
    PROVE  /\ ApplyCatchUp(cov, page, exhausted).branch = cov.branch
           /\ Advanced(ApplyCatchUp(cov, page, exhausted), ids, marks, page, read)
<1> DEFINE bound   == CatchUpBound(cov)
           keys    == {k \in Keys(page) : k <= bound}
           oldest  == Min(keys)
           stop    == IF cov.stop # None THEN cov.stop ELSE cov.check
           merged  == MergePending(cov.pending, page)
           next    == [cov EXCEPT !.pending = merged]
           top     == IF cov.upper # None THEN cov.upper ELSE cov.floor
           saw     == stop # None /\ Reached(keys, stop)
           missed  == stop # None /\ (Passed(keys, stop) \/ (exhausted /\ ~saw))
           filling == cov.upper # None /\ cov.floor > cov.upper
           done    == [next EXCEPT !.state = "complete", !.upper = None, !.stop = None,
                                   !.floor = top,
                                   !.check = IF keys = {} THEN cov.check ELSE oldest,
                                   !.progress = IF keys = {} THEN cov.progress ELSE oldest]
           filled  == [next EXCEPT !.floor = oldest]
           further == [next EXCEPT !.floor = top,
                          !.progress = IF cov.progress = None \/ oldest < cov.progress
                                       THEN oldest ELSE cov.progress]
           all     == marks \union Keys(page)
           R       == read \union RunsIn(page)
           P(c)    == c.branch = cov.branch /\ Advanced(c, ids, marks, page, read)
<1>1. cov \in CovRec /\ Shaped(cov)
  BY DEF Cov
<1>2. /\ merged \subseteq cov.pending \union Keys(page) /\ IsFiniteSet(merged)
      /\ merged \in SUBSET Keyed
  BY <1>1, PendingFinite, MergeTyped DEF CovRec
<1>3. /\ cov.floor \in Nat /\ cov.upper \in Nat /\ cov.progress \in Nat
      /\ cov.upper # None /\ cov.progress # None /\ cov.floor >= cov.upper
      /\ bound # None
  BY BoundOf
<1>4. top = cov.upper /\ (filling <=> cov.floor > cov.upper)
      /\ (~filling => cov.floor = cov.upper)
  BY <1>3
<1>5. keys # {} => oldest \in keys /\ oldest \in Nat /\ oldest \in Keys(page) /\ oldest <= bound
  <2>1. keys \subseteq Nat
    BY DEF Keys, Run, Keyed
  <2> HIDE DEF oldest
  <2>2. keys # {} => oldest \in keys /\ oldest \in Nat
    <3> HIDE DEF keys
    <3> QED BY <2>1, MinOf DEF oldest
  <2> QED BY <2>2
<1>6. keys # {} => \A n \in ids : RunOf(oldest) <= n /\ Upto(all, n) => n \in R
  <2> SUFFICES ASSUME keys # {}, NEW n \in ids, RunOf(oldest) <= n, Upto(all, n)
               PROVE  n \in R
    OBVIOUS
  <2>1. oldest \in Keys(page) /\ oldest <= CatchUpBound(cov)
    BY <1>5
  <2> HIDE DEF oldest, keys
  <2> QED BY <2>1, OlderReaches
<1>7. \A n \in ids : n \in Nat /\ (Upto(all, n) => Upto(marks, n))
  BY OlderMarks
<1>8. /\ cov.progress <= cov.upper
      /\ \A n \in ids : RunOf(cov.floor) <= n /\ Upto(all, n) => n \in R
      /\ \A n \in ids : RunOf(cov.progress) <= n /\ n <= RunOf(cov.upper) => n \in R
  BY <1>7 DEF Claims
<1>9. Marks(cov) \subseteq all /\ cov.upper \in all
  BY DEF Marks
<1>10. \A n \in ids : n <= RunOf(cov.upper) => Upto(all, n)
  BY <1>9 DEF Upto
<1>11. Keys(page) \subseteq all
  OBVIOUS
<1>12. keys = {} => ~saw
  BY DEF Reached
<1> HIDE DEF keys, oldest, bound, top, merged, all, R
<1>13. /\ next.state = "gap" /\ next.branch = cov.branch /\ next.check = cov.check
       /\ next.upper = cov.upper /\ next.progress = cov.progress /\ next.stop = cov.stop
       /\ next.floor = cov.floor /\ next.pending = merged /\ next \in CovRec
  BY <1>1, <1>2 DEF CovRec
<1>14. Marks(next) \subseteq all
  BY <1>2, <1>9, <1>11, <1>13 DEF Marks
<1> HIDE DEF next
<1>15. ASSUME NEW c, c.branch = cov.branch, c.pending = merged, Marks(c) \subseteq all,
              Claims(c, ids, all, R)
       PROVE  P(c)
  BY <1>2, <1>15 DEF Advanced, all, R
<1>16. P(next)
  <2>1. Claims(next, ids, all, R)
    BY <1>8, <1>13 DEF Claims
  <2> HIDE DEF P
  <2> QED BY <1>13, <1>14, <1>15, <2>1
<1>17. P(Truncated(next, cov.branch))
  <2> DEFINE c == Truncated(next, cov.branch)
  <2>1. /\ c.state = "truncated" /\ c.branch = cov.branch /\ c.pending = merged
        /\ Marks(c) \subseteq Marks(next) /\ Marks(next) \subseteq all
    BY <1>13, <1>14 DEF Truncated, CovRec, Marks
  <2> HIDE DEF c
  <2>2. Claims(c, ids, all, R)
    BY <2>1 DEF Claims
  <2>3. P(c)
    <3> HIDE DEF P
    <3> QED BY <1>15, <2>1, <2>2
  <2> QED BY <2>3 DEF c
<1>18. saw \/ (exhausted /\ stop = None) => P(done)
  <2> SUFFICES ASSUME saw \/ (exhausted /\ stop = None) PROVE P(done)
    OBVIOUS
  <2>1. /\ done.state = "complete" /\ done.branch = cov.branch /\ done.upper = None
        /\ done.floor = top /\ done.pending = merged
        /\ done.check = IF keys = {} THEN cov.check ELSE oldest
        /\ done.progress = IF keys = {} THEN cov.progress ELSE oldest
    BY <1>13 DEF CovRec
  <2>2. keys = {} => cov.check = None
    BY <1>12
  <2> HIDE DEF done, saw, stop
  <2>3. Marks(done) \subseteq all
    BY <1>2, <1>4, <1>5, <1>9, <1>11, <2>1 DEF Marks
  <2>4. Claims(done, ids, all, R)
    BY <1>6, <2>1, <2>2 DEF Claims
  <2> HIDE DEF P
  <2> QED BY <1>15, <2>1, <2>3, <2>4
<1>19. keys # {} => P(filled)
  <2> SUFFICES ASSUME keys # {} PROVE P(filled)
    OBVIOUS
  <2>1. /\ filled.state = "gap" /\ filled.branch = cov.branch /\ filled.check = cov.check
        /\ filled.upper = cov.upper /\ filled.progress = cov.progress /\ filled.floor = oldest
        /\ filled.pending = merged
    BY <1>13 DEF CovRec
  <2> HIDE DEF filled
  <2>2. Marks(filled) \subseteq all
    BY <1>2, <1>5, <1>9, <1>11, <2>1 DEF Marks
  <2>3. Claims(filled, ids, all, R)
    BY <1>6, <1>8, <2>1 DEF Claims
  <2> HIDE DEF P
  <2> QED BY <1>15, <2>1, <2>2, <2>3
<1>20. keys # {} /\ ~(filling /\ oldest > cov.upper) => P(further)
  <2> SUFFICES ASSUME keys # {}, ~(filling /\ oldest > cov.upper) PROVE P(further)
    OBVIOUS
  <2> DEFINE progress == IF cov.progress = None \/ oldest < cov.progress
                         THEN oldest ELSE cov.progress
  <2>1. /\ further.state = "gap" /\ further.branch = cov.branch /\ further.check = cov.check
        /\ further.upper = cov.upper /\ further.progress = progress
        /\ further.floor = cov.upper /\ further.pending = merged
    BY <1>4, <1>13 DEF CovRec
  <2>2. progress \in {oldest, cov.progress} /\ progress <= cov.upper
    BY <1>3, <1>5, <1>8
  <2>3. progress = oldest \/ progress = cov.progress
    OBVIOUS
  <2> HIDE DEF further, progress
  <2>4. Marks(further) \subseteq all
    BY <1>2, <1>5, <1>9, <1>11, <2>1, <2>2 DEF Marks
  <2>5. \A n \in ids : RunOf(cov.upper) <= n /\ Upto(all, n) => n \in R
    <3>1. CASE filling
      <4>1. oldest <= cov.upper
        BY <1>3, <1>5, <3>1
      <4>2. RunOf(oldest) <= RunOf(cov.upper) /\ RunOf(oldest) \in Nat /\ RunOf(cov.upper) \in Nat
        BY <1>3, <1>5, <4>1, RunOfMonotone, RunOfTyped
      <4>3. \A n \in ids : RunOf(cov.upper) <= n => RunOf(oldest) <= n
        <5> TAKE n \in ids
        <5>1. n \in Nat
          BY <1>7
        <5> QED BY ONLY <4>2, <5>1
      <4> QED BY <1>6, <4>3
    <3>2. CASE ~filling
      BY <1>4, <1>8, <3>2
    <3> QED BY <3>1, <3>2
  <2>6. \A n \in ids : RunOf(progress) <= n /\ n <= RunOf(cov.upper) => n \in R
    BY <1>6, <1>8, <1>10, <2>3
  <2>7. Claims(further, ids, all, R)
    BY <2>1, <2>2, <2>5, <2>6 DEF Claims
  <2> HIDE DEF P
  <2> QED BY <1>15, <2>1, <2>4, <2>7
<1> DEFINE c == ApplyCatchUp(cov, page, exhausted)
<1>21. \/ c \in {next, Truncated(next, cov.branch)}
       \/ (saw \/ (exhausted /\ stop = None)) /\ c = done
       \/ keys # {} /\ c = filled
       \/ keys # {} /\ ~(filling /\ oldest > cov.upper) /\ c = further
  <2> HIDE DEF done, filled, further, stop, saw, missed, filling
  <2> QED BY <1>3
          DEF ApplyCatchUp, bound, keys, oldest, stop, merged, next, top, saw, missed, filling, done,
              filled, further
<1> HIDE DEF c, done, filled, further, stop, saw, filling, P
<1>22. P(c)
  BY <1>16, <1>17, <1>18, <1>19, <1>20, <1>21
<1> QED BY <1>22 DEF P, c

-----------------------------------------------------------------------------
(* What the forge answers leaves out none of its runs. *)

LEMMA Quotient ==
    ASSUME NEW m \in Nat \ {0}, NEW i \in Nat, NEW a \in 0..(m - 1)
    PROVE  (i * m + a) \div m = i
<1>1. i * m \in Nat
  OBVIOUS
<1>2. i * m + a \in Nat
  BY <1>1
<1> DEFINE q == (i * m + a) \div m
           x == (i * m + a) % m
<1>3. q \in Nat /\ x \in 0..(m - 1) /\ i * m + a = m * q + x
  BY <1>2
<1> HIDE DEF q, x
<1>4. CASE q = i
  BY <1>4 DEF q
<1>5. CASE q > i
  <2>1. m * q >= m * (i + 1)
    BY <1>3, <1>5
  <2> QED BY <1>3, <2>1
<1>6. CASE q < i
  <2>1. m * i >= m * (q + 1)
    BY <1>3, <1>6
  <2> QED BY <1>3, <2>1
<1> QED BY <1>3, <1>4, <1>5, <1>6

LEMMA RunOfKey ==
    ASSUME NEW r \in ForgeRun
    PROVE  RunOf(Key(r.id, r.attempt)) = r.id
<1>1. r.id \in Nat /\ r.attempt \in 0..(MaxAttempts - 1) /\ MaxAttempts \in Nat \ {0}
  BY CoverageAssumption DEF ForgeRun
<1> QED BY <1>1, Quotient DEF RunOf, Key

\* The runs of a definition on a branch, by their ids.
Ids(f, d, branch) == {r.id : r \in {q \in f.runs[d] : q.branch = branch}}

\* Nothing is marked that the forge has not given an id.
Fresh(marks, f) == \A k \in marks : RunOf(k) < f.next

LEMMA AnnotatedKeys ==
    ASSUME NEW page \in SUBSET Run
    PROVE  Keys(Annotated(page)) = Keys(page)
<1> DEFINE open   == {r \in page : r.status \in {"pending", "red"}}
           looked == {r \in open : /\ \A q \in open : q.key <= r.key
                                   /\ \A q \in page : q.key > r.key => q.status = "cancelled"}
           Of(r)  == IF r \in looked THEN r
                     ELSE [r EXCEPT !.status = IF @ = "red" THEN "pending" ELSE @]
<1>1. Annotated(page) = {Of(r) : r \in page}
  BY DEF Annotated
<1> HIDE DEF looked
<1>2. \A r \in page : Of(r).key = r.key
  BY DEF Run
<1> HIDE DEF Of
<1> QED BY <1>1, <1>2 DEF Keys

\* A run that is not on the first page is older than the runs of it.
LEMMA TopOf ==
    ASSUME NEW S, S \subseteq ForgeRun, IsFiniteSet(S), NEW r \in S, r \notin Top(S),
           NEW q \in Top(S)
    PROVE  q.id > r.id
<1> SUFFICES ASSUME ~(q.id > r.id) PROVE FALSE
  OBVIOUS
<1> DEFINE above(x) == {p \in S : p.id > x.id}
<1>1. q \in S /\ \A p \in S : p.id \in Nat
  BY DEF Top, ForgeRun
<1>2. above(r) \subseteq above(q)
  <2>1. q.id \in Nat /\ r.id \in Nat /\ q.id <= r.id
    BY <1>1
  <2>2. \A p \in S : p.id > r.id => p.id > q.id
    BY <1>1, <2>1
  <2> QED BY <2>2
<1>3. IsFiniteSet(above(q))
  BY FS_Subset
<1>4. IsFiniteSet(above(r)) /\ Cardinality(above(r)) <= Cardinality(above(q))
  <2> HIDE DEF above
  <2> QED BY <1>2, <1>3, FS_Subset
<1>5. Cardinality(above(q)) \in Nat /\ Cardinality(above(r)) \in Nat /\ Page \in Nat
  <2> HIDE DEF above
  <2> QED BY <1>3, <1>4, FS_CardinalityType, GateAssumption
<1>6. Cardinality(above(q)) < Page /\ ~(Cardinality(above(r)) < Page)
  BY DEF Top
<1> HIDE DEF above
<1> QED BY <1>4, <1>5, <1>6

\* The key of a run of the forge tells its id.
LEMMA KeysOfRuns ==
    ASSUME ForgeOK(forge), NEW d \in Definitions, NEW S, S \subseteq forge.runs[d]
    PROVE  /\ Keys({AsRun(r) : r \in S}) = {Key(r.id, r.attempt) : r \in S}
           /\ \A r \in S : /\ r.id \in Nat \ {0} /\ Key(r.id, r.attempt) \in Keyed
                           /\ RunOf(Key(r.id, r.attempt)) = r.id /\ r.id < forge.next
<1>1. S \subseteq ForgeRun /\ \A r \in S : r.id < forge.next
  BY DEF ForgeOK
<1>2. \A r \in S : r.id \in Nat \ {0} /\ Key(r.id, r.attempt) \in Keyed
  BY <1>1, AsRunTyped DEF ForgeRun, AsRun, Run
<1>3. \A r \in S : AsRun(r).key = Key(r.id, r.attempt)
  BY DEF AsRun
<1>4. Keys({AsRun(r) : r \in S}) = {AsRun(r).key : r \in S}
  BY DEF Keys
<1>5. {AsRun(r).key : r \in S} = {Key(r.id, r.attempt) : r \in S}
  BY <1>3
<1>6. \A r \in S : RunOf(Key(r.id, r.attempt)) = r.id
  BY <1>1, RunOfKey
<1> QED BY <1>1, <1>2, <1>4, <1>5, <1>6

LEMMA LatestPageCovers ==
    ASSUME ForgeOK(forge), NEW d \in Definitions, NEW marks
    PROVE  /\ NewestCovers(Ids(forge, d, forge.branch), marks, LatestPage(d).runs)
           /\ Fresh(Keys(LatestPage(d).runs), forge)
<1> DEFINE listed == Listed(d, forge.branch)
           raw    == Top(listed)
           all    == {AsRun(r) : r \in raw}
           page   == LatestPage(d).runs
<1>1. /\ listed \subseteq forge.runs[d] /\ raw \subseteq listed
      /\ listed \subseteq ForgeRun /\ IsFiniteSet(listed)
  <2>1. listed \subseteq forge.runs[d] /\ raw \subseteq listed
    BY DEF Listed, Top
  <2> HIDE DEF listed, raw
  <2>2. forge.runs[d] \subseteq ForgeRun /\ IsFiniteSet(forge.runs[d])
    BY DEF ForgeOK
  <2> QED BY <2>1, <2>2, FS_Subset
<1>2. page = Annotated(all)
  BY DEF LatestPage
<1>3. \A r \in listed : r \notin raw => \A q \in raw : q.id > r.id
  <2> HIDE DEF listed
  <2> QED BY <1>1, TopOf
<1>4. Ids(forge, d, forge.branch) = {r.id : r \in listed}
  BY DEF Ids, Listed
<1> HIDE DEF listed, raw, page
<1>5. all \in SUBSET Run
  BY <1>1, RunsOfListed
<1>6. /\ Keys(all) = {Key(r.id, r.attempt) : r \in raw}
      /\ \A r \in raw : /\ r.id \in Nat \ {0} /\ Key(r.id, r.attempt) \in Keyed
                        /\ RunOf(Key(r.id, r.attempt)) = r.id /\ r.id < forge.next
  BY <1>1, KeysOfRuns
<1> HIDE DEF all
<1>7. Keys(page) = Keys(all)
  BY <1>2, <1>5, AnnotatedKeys
<1>8. Fresh(Keys(page), forge)
  BY <1>6, <1>7 DEF Fresh
<1>9. page \in SUBSET Run
  BY LatestPageTyped DEF page, Pages
<1>10. NewestCovers(Ids(forge, d, forge.branch), marks, page)
  <2> SUFFICES ASSUME page # {}, NEW r \in listed,
                      r.id \notin RunsIn(page)
               PROVE  r.id < RunOf(Min(Keys(page)))
    BY <1>4 DEF NewestCovers
  <2>1. Min(Keys(page)) \in Keys(page)
    BY <1>9, OldestRun
  <2>2. PICK q \in raw : Min(Keys(page)) = Key(q.id, q.attempt)
    BY <1>6, <1>7, <2>1
  <2>3. r \notin raw
    BY <1>6, <1>7 DEF RunsIn
  <2>4. q.id > r.id /\ q.id \in Nat /\ r.id \in Nat
    BY <1>1, <1>3, <1>6, <2>3 DEF ForgeRun
  <2> QED BY <1>6, <2>2, <2>4
<1> QED BY <1>8, <1>10 DEF page

LEMMA CatchUpPageCovers ==
    ASSUME ForgeOK(forge), NEW d \in Definitions, NEW marks \in SUBSET Nat,
           NEW bound \in marks, NEW revisit \in marks,
           revisit # None => revisit > bound
    PROVE  /\ OlderCovers(Ids(forge, d, forge.branch), bound, marks, CatchUpPage(d, bound, revisit).runs)
           /\ Fresh(Keys(CatchUpPage(d, bound, revisit).runs), forge)
<1> DEFINE listed == Listed(d, forge.branch)
           older  == {r \in listed : r.id <= RunOf(bound)}
           raw    == Top(older)
           one    == {q \in listed : q.id = RunOf(revisit)}
           again  == {AsRun(r) : r \in one}
           all    == {AsRun(r) : r \in raw}
           within == {x \in all : x.key <= bound}
           part   == {x \in within : \A y \in again : ~SameRun(x.key, y.key)}
           page   == CatchUpPage(d, bound, revisit).runs
<1>1. /\ listed \subseteq forge.runs[d] /\ older \subseteq listed /\ raw \subseteq older
      /\ one \subseteq listed /\ listed \subseteq ForgeRun /\ IsFiniteSet(older)
  <2>1. listed \subseteq forge.runs[d] /\ older \subseteq listed /\ raw \subseteq older
        /\ one \subseteq listed
    BY DEF Listed, Top
  <2> HIDE DEF listed, older, raw, one
  <2>2. forge.runs[d] \subseteq ForgeRun /\ IsFiniteSet(forge.runs[d])
    BY DEF ForgeOK
  <2>3. older \subseteq forge.runs[d]
    BY <2>1
  <2> QED BY <2>1, <2>2, <2>3, FS_Subset
<1>2. page = Annotated(part \union again)
  BY DEF CatchUpPage
<1>3. \A r \in older : r \notin raw => \A q \in raw : q.id > r.id
  <2>1. older \subseteq ForgeRun
    BY <1>1
  <2> HIDE DEF listed, older
  <2> QED BY <1>1, <2>1, TopOf
<1>4. Ids(forge, d, forge.branch) = {r.id : r \in listed}
  BY DEF Ids, Listed
<1>5. bound \in Nat /\ revisit \in Nat /\ RunOf(bound) \in Nat /\ RunOf(revisit) \in Nat
  BY RunOfTyped
<1>6. \A r \in listed : r \in older <=> r.id <= RunOf(bound)
  OBVIOUS
<1>7. \A r \in one : r.id = RunOf(revisit)
  OBVIOUS
<1> HIDE DEF listed, older, raw, one, page
<1>8. all \in SUBSET Run /\ again \in SUBSET Run
  BY <1>1, RunsOfListed
<1>9. /\ Keys(all) = {Key(r.id, r.attempt) : r \in raw}
      /\ \A r \in raw : /\ r.id \in Nat \ {0} /\ Key(r.id, r.attempt) \in Keyed
                        /\ RunOf(Key(r.id, r.attempt)) = r.id /\ r.id < forge.next
  BY <1>1, KeysOfRuns
<1>10. /\ Keys(again) = {Key(r.id, r.attempt) : r \in one}
       /\ \A r \in one : /\ r.id \in Nat \ {0} /\ Key(r.id, r.attempt) \in Keyed
                         /\ RunOf(Key(r.id, r.attempt)) = r.id /\ r.id < forge.next
  BY <1>1, KeysOfRuns
<1>11. \A k \in Keys(all) : k \in Nat /\ \E r \in raw : k = Key(r.id, r.attempt) /\ RunOf(k) = r.id
  BY <1>9 DEF Keyed
<1>12. \A k \in Keys(again) :
          k \in Nat /\ RunOf(k) = RunOf(revisit) /\ RunOf(k) < forge.next /\ RunOf(k) # 0
  BY <1>7, <1>10 DEF Keyed
<1> HIDE DEF all, again
<1>13. part \in SUBSET Run /\ part \subseteq all
  BY <1>8
<1>14. Keys(part) = {x.key : x \in part} /\ Keys(again) = {x.key : x \in again}
       /\ Keys(all) = {x.key : x \in all}
  BY DEF Keys
<1>15. Keys(page) = Keys(part) \union Keys(again)
  <2>1. part \union again \in SUBSET Run
    BY <1>8, <1>13
  <2> HIDE DEF part
  <2>2. Keys(page) = Keys(part \union again)
    BY <1>2, <2>1, AnnotatedKeys
  <2> QED BY <2>2 DEF Keys
<1>16. Keys(part) \subseteq Keys(all)
  BY <1>13, <1>14
<1>17. Fresh(Keys(page), forge)
  <2>1. \A k \in Keys(all) : RunOf(k) < forge.next
    BY <1>9, <1>11
  <2> QED BY <1>12, <1>15, <1>16, <2>1 DEF Fresh
<1>18. \A k \in Keys(page) : Upto(marks, RunOf(k))
  <2> TAKE k \in Keys(page)
  <2>1. CASE k \in Keys(part)
    <3>1. PICK r \in raw : RunOf(k) = r.id
      BY <1>11, <1>16, <2>1
    <3>2. r.id <= RunOf(bound)
      BY <1>1, <1>6
    <3> QED BY <3>1, <3>2 DEF Upto
  <2>2. CASE k \in Keys(again)
    <3>1. RunOf(k) <= RunOf(revisit)
      BY <1>5, <1>12, <2>2
    <3> QED BY <3>1 DEF Upto
  <2> QED BY <1>15, <2>1, <2>2
\* What is read again is not below the bound.
<1>19. \A k \in Keys(again) : RunOf(bound) <= RunOf(k)
  <2> TAKE k \in Keys(again)
  <2>1. revisit # None
    <3>1. RunOf(None) = 0
      BY CoverageAssumption DEF RunOf, None
    <3> QED BY <1>12, <3>1
  <2>2. bound <= revisit
    BY <1>5, <2>1
  <2> QED BY <1>5, <1>12, <2>2, RunOfMonotone
<1>20. ASSUME NEW r \in listed, r.id < RunOf(bound), r.id \notin RunsIn(page),
              NEW k \in Keys(page)
       PROVE  r.id < RunOf(k)
  <2>1. r.id \in Nat /\ r \in older
    BY <1>1, <1>5, <1>6, <1>20 DEF ForgeRun
  <2>2. CASE k \in Keys(again)
    <3>1. RunOf(bound) <= RunOf(k) /\ RunOf(k) \in Nat
      BY <1>5, <1>12, <1>19, <2>2
    <3> QED BY <1>5, <1>20, <2>1, <3>1
  <2>3. CASE k \in Keys(part)
    <3>1. r \notin raw
      <4> SUFFICES ASSUME r \in raw PROVE FALSE
        OBVIOUS
      <4> DEFINE x == AsRun(r)
                 y == Key(r.id, r.attempt)
      <4>1. x \in all /\ x.key = y /\ RunOf(y) = r.id /\ y \in Nat
        BY <1>9 DEF all, AsRun, Keyed
      <4>2. y <= bound
        <5> SUFFICES ASSUME ~(y <= bound) PROVE FALSE
          OBVIOUS
        <5>1. bound <= y
          BY <1>5, <4>1
        <5>2. RunOf(bound) <= RunOf(y)
          BY <1>5, <4>1, <5>1, RunOfMonotone
        <5> QED BY <1>5, <1>20, <2>1, <4>1, <5>2
      <4>3. x \in within
        BY <4>1, <4>2
      <4>4. x \in part
        <5> SUFFICES ASSUME NEW z \in again, SameRun(x.key, z.key) PROVE FALSE
          BY <4>3
        <5>1. z.key \in Keys(again) /\ z.key \in Keys(page)
          BY <1>14, <1>15
        <5>2. RunOf(z.key) = r.id
          BY <4>1, <5>1 DEF SameRun
        <5> QED BY <1>20, <5>1, <5>2 DEF RunsIn
      <4>5. y \in Keys(page)
        BY <1>14, <1>15, <4>1, <4>4
      <4> QED BY <1>20, <4>1, <4>5 DEF RunsIn
    <3>2. PICK q \in raw : RunOf(k) = q.id
      BY <1>11, <1>16, <2>3
    <3>3. q.id > r.id /\ q.id \in Nat
      BY <1>3, <1>9, <2>1, <3>1
    <3> QED BY <2>1, <3>2, <3>3
  <2> QED BY <1>15, <2>2, <2>3
<1>21. OlderCovers(Ids(forge, d, forge.branch), bound, marks, page)
  <2>1. \A r \in listed : r.id \in Nat
    BY <1>1 DEF ForgeRun
  <2>2. ASSUME NEW n \in Ids(forge, d, forge.branch)
        PROVE  n >= RunOf(bound) \/ n \in RunsIn(page) \/ \A k \in Keys(page) : n < RunOf(k)
    <3>1. PICK r \in listed : n = r.id
      BY <1>4
    <3>2. n \in Nat
      BY <2>1, <3>1
    <3>3. n < RunOf(bound) /\ n \notin RunsIn(page) => \A k \in Keys(page) : n < RunOf(k)
      BY <1>20, <3>1
    <3> QED BY <1>5, <3>2, <3>3
  <2> QED BY <1>18, <2>2 DEF OlderCovers
<1> QED BY <1>17, <1>21 DEF page

-----------------------------------------------------------------------------
(* What is stored and at hand accounts for the runs of the forge. *)

\* The places in the history that an observation knows of.
Places(o) == {o.last.key} \union Marks(o.cov)

\* An observation of a definition stands for what has been read, unless a page of
\* another branch went into it.
Sound(d, o, f, h) ==
    /\ IsFiniteSet(o.cov.pending) /\ Fresh(Places(o), f)
    /\ o.cov.branch = NoBranch => o.cov.state # "gap" /\ o.cov.check = None
    /\ o.cov.state = "gap" => o.cov.progress <= o.cov.upper
    /\ d \notin h.mixed => Claims(o.cov, Ids(f, d, o.cov.branch), Places(o), h.read[d])

\* A page in flight leaves out no run that the forge had.
PageSound(t, f) ==
    LET p == t.got.page
        o == t.obs[p.def]
    IN  /\ Fresh(Keys(p.runs), f)
        /\ t.phase = "latest" => NewestCovers(Ids(f, p.def, p.branch), Places(o), p.runs)
        /\ t.phase # "latest" =>
              /\ o.cov.state = "gap"
              /\ OlderCovers(Ids(f, p.def, p.branch), CatchUpBound(o.cov), Places(o), p.runs)

TurnSound(t, f, h) ==
    /\ t.pc # "idle" => \A d \in Definitions : Sound(d, t.obs[d], f, h)
    /\ t.pc = "apply" => PageSound(t, f)

\* What is stored and what is at hand accounts for the runs of the forge.
Accounted ==
    /\ \A d \in Definitions : Sound(d, gate.obs[d], forge, hist)
    /\ \A o \in Observers : TurnSound(turn[o], forge, hist)

\* Runs are added with ids not given before, and what is read stays read.
Grows(f, g, h, k) ==
    /\ f.next <= g.next
    /\ \A d \in Definitions : \A b \in Branches \union {NoBranch} :
          Ids(g, d, b) \subseteq Ids(f, d, b) \union {n \in Nat : f.next <= n}
    /\ h.mixed \subseteq k.mixed
    /\ \A d \in Definitions : h.read[d] \subseteq k.read[d]

LEMMA PlacesTyped ==
    ASSUME NEW o \in Obs
    PROVE  Places(o) \in SUBSET Nat /\ None \in Places(o) /\ Marks(o.cov) \subseteq Places(o)
<1>1. o.last.key \in Nat /\ o.cov \in CovRec
  BY DEF Obs, LastRun, Cov
<1>2. Marks(o.cov) \subseteq Nat /\ None \in Marks(o.cov)
  BY <1>1 DEF Marks, CovRec, Keyed, None
<1> QED BY <1>1, <1>2 DEF Places

LEMMA IdsTyped ==
    ASSUME NEW f, ForgeOK(f), NEW d \in Definitions, NEW b
    PROVE  Ids(f, d, b) \in SUBSET Nat /\ (b = NoBranch => Ids(f, d, b) = {})
<1>1. \A r \in f.runs[d] : r.id \in Nat /\ r.branch \in Branches
  BY DEF ForgeOK, ForgeRun
<1> QED BY <1>1, CoverageAssumption DEF Ids

\* A run with an id not given before is newer than every mark.
LEMMA NewIsNewer ==
    ASSUME NEW f, f.next \in Nat, NEW marks \in SUBSET Nat, Fresh(marks, f), NEW n \in Nat,
           f.next <= n
    PROVE  ~Upto(marks, n)
<1> SUFFICES ASSUME NEW k \in marks, n <= RunOf(k) PROVE FALSE
  BY DEF Upto
<1>1. RunOf(k) \in Nat /\ RunOf(k) < f.next
  BY RunOfTyped DEF Fresh
<1> QED BY <1>1

LEMMA ClaimsLess ==
    ASSUME NEW c, NEW ids, NEW marks, NEW read, Claims(c, ids, marks, read),
           NEW some, some \subseteq marks, NEW more, read \subseteq more
    PROVE  Claims(c, ids, some, more)
<1>1. \A n \in ids : Upto(some, n) => Upto(marks, n)
  BY DEF Upto
<1> QED BY <1>1 DEF Claims

LEMMA ClaimsGrow ==
    ASSUME NEW f, NEW g, NEW c, NEW d \in Definitions, NEW b \in Branches \union {NoBranch},
           NEW marks \in SUBSET Nat, NEW read, Claims(c, Ids(f, d, b), marks, read),
           f.next \in Nat, Fresh(marks, f), c.upper \in marks,
           Ids(g, d, b) \subseteq Ids(f, d, b) \union {n \in Nat : f.next <= n}
    PROVE  Claims(c, Ids(g, d, b), marks, read)
<1>1. \A n \in Ids(g, d, b) : Upto(marks, n) => n \in Ids(f, d, b)
  BY NewIsNewer
<1>2. \A n \in Ids(g, d, b) : n <= RunOf(c.upper) => Upto(marks, n)
  BY DEF Upto
<1> QED BY <1>1, <1>2 DEF Claims

LEMMA SoundGrows ==
    ASSUME NEW f, NEW g, ForgeOK(f), ForgeOK(g), NEW h, NEW k, Grows(f, g, h, k),
           NEW d \in Definitions, NEW o \in Obs, Sound(d, o, f, h)
    PROVE  Sound(d, o, g, k)
<1>1. Places(o) \in SUBSET Nat /\ o.cov.upper \in Places(o)
  BY PlacesTyped DEF Places, Marks
<1>2. f.next \in Nat /\ g.next \in Nat /\ o.cov.branch \in Branches \union {NoBranch}
  BY DEF ForgeOK, Obs, Cov, CovRec
<1>3. Fresh(Places(o), g)
  <2> SUFFICES ASSUME NEW n \in Places(o) PROVE RunOf(n) < g.next
    BY DEF Fresh
  <2>1. RunOf(n) < f.next /\ RunOf(n) \in Nat /\ f.next <= g.next
    BY <1>1, RunOfTyped DEF Sound, Fresh, Grows
  <2> QED BY <1>2, <2>1
<1>4. ASSUME d \notin k.mixed
      PROVE  Claims(o.cov, Ids(g, d, o.cov.branch), Places(o), k.read[d])
  <2>1. d \notin h.mixed /\ h.read[d] \subseteq k.read[d]
    BY <1>4 DEF Grows
  <2>2. Claims(o.cov, Ids(f, d, o.cov.branch), Places(o), k.read[d])
    BY <2>1, ClaimsLess DEF Sound
  <2>3. Ids(g, d, o.cov.branch) \subseteq Ids(f, d, o.cov.branch) \union {n \in Nat : f.next <= n}
    BY <1>2 DEF Grows
  <2>4. Fresh(Places(o), f)
    BY DEF Sound
  <2> QED BY <1>1, <1>2, <2>2, <2>3, <2>4, ClaimsGrow
<1> QED BY <1>3, <1>4 DEF Sound

LEMMA TurnGrows ==
    ASSUME NEW f, NEW g, ForgeOK(f), ForgeOK(g), NEW h, NEW k, Grows(f, g, h, k),
           NEW t \in TurnRec, Read(t), TurnSound(t, f, h)
    PROVE  TurnSound(t, g, k)
<1>1. ASSUME t.pc # "idle", NEW d \in Definitions PROVE Sound(d, t.obs[d], g, k)
  <2>1. t.obs[d] \in Obs /\ Sound(d, t.obs[d], f, h)
    BY <1>1 DEF Read, Heard, TurnSound
  <2> QED BY <2>1, SoundGrows
<1>2. ASSUME t.pc = "apply" PROVE PageSound(t, g)
  <2> DEFINE p == t.got.page
             o == t.obs[p.def]
  <2>1. p \in Pages /\ p.def \in Definitions /\ t.obs \in [Definitions -> Obs] /\ PageSound(t, f)
    BY <1>2 DEF Read, Heard, TurnSound, Got, Pages
  <2>2. o \in Obs /\ Sound(p.def, o, f, h) /\ p.branch \in Branches
    BY <1>2, <2>1 DEF TurnSound, Pages
  <2>3. Keys(p.runs) \in SUBSET Nat /\ p.runs \in SUBSET Run
    BY <2>1, PageKeys DEF Pages, Keyed
  <2>4. Places(o) \in SUBSET Nat /\ Fresh(Places(o), f) /\ Fresh(Keys(p.runs), f)
    BY <2>1, <2>2, PlacesTyped DEF Sound, PageSound
  <2>5. f.next \in Nat /\ g.next \in Nat /\ f.next <= g.next
    BY DEF ForgeOK, Grows
  <2>6. Fresh(Keys(p.runs), g)
    <3> SUFFICES ASSUME NEW n \in Keys(p.runs) PROVE RunOf(n) < g.next
      BY DEF Fresh
    <3>1. RunOf(n) < f.next /\ RunOf(n) \in Nat
      BY <2>3, <2>4, RunOfTyped DEF Fresh
    <3> QED BY <2>5, <3>1
  <2>7. Ids(g, p.def, p.branch) \subseteq Ids(f, p.def, p.branch) \union {n \in Nat : f.next <= n}
    BY <2>1, <2>2 DEF Grows
  <2>8. ASSUME t.phase = "latest"
        PROVE  NewestCovers(Ids(g, p.def, p.branch), Places(o), p.runs)
    <3> DEFINE all == Places(o) \union Keys(p.runs)
    <3>1. all \in SUBSET Nat /\ Fresh(all, f)
      BY <2>3, <2>4 DEF Fresh
    <3>2. \A n \in Nat : f.next <= n => ~Upto(all, n)
      <4> HIDE DEF all
      <4> QED BY <2>5, <3>1, NewIsNewer
    <3>3. NewestCovers(Ids(f, p.def, p.branch), Places(o), p.runs)
      BY <2>1, <2>8 DEF PageSound
    <3> HIDE DEF p, o
    <3> QED BY <2>7, <3>2, <3>3 DEF NewestCovers, all
  <2>9. ASSUME t.phase # "latest"
        PROVE  /\ o.cov.state = "gap"
               /\ OlderCovers(Ids(g, p.def, p.branch), CatchUpBound(o.cov), Places(o), p.runs)
    <3> DEFINE bound == CatchUpBound(o.cov)
    <3>1. o.cov.state = "gap" /\ OlderCovers(Ids(f, p.def, p.branch), bound, Places(o), p.runs)
      BY <2>1, <2>9 DEF PageSound
    <3>2. bound \in Places(o)
      <4>1. o.cov \in Cov
        BY <2>2 DEF Obs
      <4> QED BY <3>1, <4>1, BoundOf DEF Places
    <3> HIDE DEF bound
    <3>3. \A n \in Nat : f.next <= n => n >= RunOf(bound)
      <4> TAKE n \in Nat
      <4>1. RunOf(bound) \in Nat /\ RunOf(bound) < f.next
        BY <2>4, <3>2, RunOfTyped DEF Fresh
      <4> QED BY <2>5, <4>1
    <3> HIDE DEF p, o
    <3>4. OlderCovers(Ids(g, p.def, p.branch), bound, Places(o), p.runs)
      BY <2>7, <3>1, <3>3 DEF OlderCovers
    <3> QED BY <3>1, <3>4 DEF bound
  <2> QED BY <2>6, <2>8, <2>9 DEF PageSound
<1> QED BY <1>1, <1>2 DEF TurnSound

LEMMA NoObservationSound ==
    ASSUME NEW f, f.next \in Nat \ {0}, NEW d, NEW h
    PROVE  Sound(d, NoObservation, f, h)
<1> DEFINE o == NoObservation
<1>1. /\ o.last.key = None /\ o.cov.pending = {} /\ o.cov.state = "complete"
      /\ o.cov.check = None /\ Marks(o.cov) = {None}
  BY DEF NoObservation, NoRun, NoCoverage, Marks
<1> HIDE DEF o
<1>2. Places(o) = {None}
  BY <1>1 DEF Places
<1>3. RunOf(None) = 0
  BY CoverageAssumption DEF RunOf, None
<1>4. Fresh(Places(o), f) /\ IsFiniteSet(o.cov.pending)
  BY <1>1, <1>2, <1>3, FS_EmptySet DEF Fresh
<1>5. Sound(d, o, f, h)
  BY <1>1, <1>4 DEF Sound, Claims
<1> QED BY <1>5 DEF o

-----------------------------------------------------------------------------
(* The steps keep account. *)

LEMMA AccountedInit == Types /\ Init => Accounted
<1> SUFFICES ASSUME Types, Init PROVE Accounted
  OBVIOUS
<1>1. forge.next \in Nat \ {0}
  BY DEF Types, ForgeOK
<1>2. \A d \in Definitions : Sound(d, gate.obs[d], forge, hist)
  BY <1>1, NoObservationSound DEF Init
<1>3. \A o \in Observers : turn[o].pc = "idle"
  BY DEF Init, NoTurn
<1> QED BY <1>2, <1>3 DEF Accounted, TurnSound

\* A run of the forge is added with a new id, or keeps its id and its branch.
LEMMA RunsGrow ==
    ASSUME ForgeOK(forge), NEW d \in Definitions,
           \/ \E s \in plan.fresh : AppendRun(d, s)
           \/ \E r \in forge.runs[d] :
                 Rerun(d, r) \/ Delete(d, r) \/ \E s \in plan.outcomes : Decide(d, r, s)
    PROVE  Grows(forge, forge', hist, hist')
<1>1. forge.next \in Nat /\ forge.runs \in [Definitions -> SUBSET ForgeRun]
      /\ forge \in [branch : Branches, runs : [Definitions -> SUBSET ForgeRun], next : Nat \ {0}]
  BY DEF ForgeOK
<1>2. \/ /\ forge'.next = forge.next + 1
         /\ \A e \in Definitions : \A q \in forge'.runs[e] :
               q \in forge.runs[e] \/ q.id = forge.next
      \/ /\ forge'.next = forge.next
         /\ \A e \in Definitions : \A q \in forge'.runs[e] :
               \E p \in forge.runs[e] : p.id = q.id /\ p.branch = q.branch
  <2>1. ASSUME NEW s, AppendRun(d, s)
        PROVE  /\ forge'.next = forge.next + 1
               /\ \A e \in Definitions : \A q \in forge'.runs[e] :
                     q \in forge.runs[e] \/ q.id = forge.next
    <3> DEFINE new == [id |-> forge.next, attempt |-> 1, status |-> s, branch |-> forge.branch]
    <3>1. forge' = [forge EXCEPT !.runs[d] = @ \union {new}, !.next = @ + 1]
      BY <2>1 DEF AppendRun
    <3>2. new.id = forge.next
      OBVIOUS
    <3> HIDE DEF new
    <3> QED BY <1>1, <3>1, <3>2
  <2>2. ASSUME NEW r, NEW s, r \in forge.runs[d], Changed(d, r, s),
               \A q \in s : q.id = r.id /\ q.branch = r.branch
        PROVE  /\ forge'.next = forge.next
               /\ \A e \in Definitions : \A q \in forge'.runs[e] :
                     \E p \in forge.runs[e] : p.id = q.id /\ p.branch = q.branch
    <3>1. forge' = [forge EXCEPT !.runs[d] = (@ \ {r}) \union s]
      BY <2>2 DEF Changed
    <3>2. forge'.next = forge.next
          /\ \A e \in Definitions : \A q \in forge'.runs[e] : q \in forge.runs[e] \/ (e = d /\ q \in s)
      BY <1>1, <3>1
    <3> QED BY <2>2, <3>2
  <2>3. \A r \in forge.runs[d] : r \in ForgeRun
    BY <1>1
  <2>4. ASSUME NEW r \in forge.runs[d], Rerun(d, r)
        PROVE  \E s : Changed(d, r, s) /\ \A q \in s : q.id = r.id /\ q.branch = r.branch
    <3> DEFINE n == [r EXCEPT !.attempt = @ + 1, !.status = "pending"]
    <3>1. Changed(d, r, {n}) /\ n.id = r.id /\ n.branch = r.branch
      BY <2>3, <2>4 DEF Rerun, ForgeRun
    <3> HIDE DEF n
    <3> QED BY <3>1
  <2>5. ASSUME NEW r \in forge.runs[d], NEW s, Decide(d, r, s)
        PROVE  \E t : Changed(d, r, t) /\ \A q \in t : q.id = r.id /\ q.branch = r.branch
    <3> DEFINE n == [r EXCEPT !.status = s]
    <3>1. Changed(d, r, {n}) /\ n.id = r.id /\ n.branch = r.branch
      BY <2>3, <2>5 DEF Decide, ForgeRun
    <3> HIDE DEF n
    <3> QED BY <3>1
  <2>6. ASSUME NEW r \in forge.runs[d], Delete(d, r) PROVE Changed(d, r, {})
    BY <2>6 DEF Delete
  <2>7. CASE \E s \in plan.fresh : AppendRun(d, s)
    BY <2>1, <2>7
  <2>8. CASE \E r \in forge.runs[d] :
                Rerun(d, r) \/ Delete(d, r) \/ \E s \in plan.outcomes : Decide(d, r, s)
    <3>1. PICK r \in forge.runs[d] :
             Rerun(d, r) \/ Delete(d, r) \/ \E s \in plan.outcomes : Decide(d, r, s)
      BY <2>8
    <3>2. \E s : Changed(d, r, s) /\ \A q \in s : q.id = r.id /\ q.branch = r.branch
      BY <2>4, <2>5, <2>6, <3>1
    <3> QED BY <2>2, <3>2
  <2> QED BY <2>7, <2>8
<1>3. forge.next <= forge'.next
  BY <1>1, <1>2
<1>4. \A e \in Definitions : \A b :
          Ids(forge', e, b) \subseteq Ids(forge, e, b) \union {n \in Nat : forge.next <= n}
  BY <1>1, <1>2 DEF Ids
<1>5. hist' = hist
  BY DEF AppendRun, Rerun, Delete, Decide, Changed
<1> QED BY <1>3, <1>4, <1>5 DEF Grows

LEMMA NothingGrows ==
    ASSUME ForgeOK(forge), forge'.runs = forge.runs, forge'.next = forge.next,
           hist'.read = hist.read, hist'.mixed = hist.mixed
    PROVE  Grows(forge, forge', hist, hist')
<1>1. forge.next \in Nat
  BY DEF ForgeOK
<1> QED BY <1>1 DEF Grows, Ids

\* The observations are not touched, or dropped.
LEMMA QuietAccounted ==
    ASSUME Types, Types', Accounted, Grows(forge, forge', hist, hist'), gate'.obs = gate.obs,
           \A o \in Observers :
              \/ turn'[o].pc = "idle"
              \/ /\ turn'[o].pc = turn[o].pc /\ turn'[o].phase = turn[o].phase
                 /\ turn'[o].obs = turn[o].obs /\ turn'[o].got = turn[o].got
    PROVE  Accounted'
<1>1. /\ ForgeOK(forge) /\ ForgeOK(forge') /\ gate.obs \in [Definitions -> Obs]
      /\ \A o \in Observers : turn[o] \in TurnRec /\ Read(turn[o])
  BY DEF Types, GateOK, TurnsOK, TurnOK
<1>2. \A d \in Definitions : Sound(d, gate'.obs[d], forge', hist')
  BY <1>1, SoundGrows DEF Accounted
<1>3. \A o \in Observers : TurnSound(turn[o], forge', hist')
  BY <1>1, TurnGrows DEF Accounted
<1>4. \A o \in Observers : TurnSound(turn'[o], forge', hist')
  BY <1>3 DEF TurnSound, PageSound
<1> QED BY <1>2, <1>4 DEF Accounted

\* A step of one observation, and what it writes.
LEMMA OwnAccounted ==
    ASSUME Types, Types', Accounted, forge' = forge, Grows(forge, forge, hist, hist'),
           NEW o \in Observers, NEW n, Set(o, n), TurnSound(n, forge, hist'),
           \A d \in Definitions : Sound(d, gate'.obs[d], forge, hist')
    PROVE  Accounted'
<1>1. /\ ForgeOK(forge)
      /\ \A p \in Observers : turn[p] \in TurnRec /\ Read(turn[p])
  BY DEF Types, TurnsOK, TurnOK
<1>2. \A p \in Observers : TurnSound(turn[p], forge, hist')
  BY <1>1, TurnGrows DEF Accounted
<1>3. turn' = [turn EXCEPT ![o] = n] /\ turn \in [Observers -> TurnRec]
  BY DEF Set, Types, TurnsOK
<1>4. \A p \in Observers : TurnSound(turn'[p], forge, hist')
  BY <1>2, <1>3
<1> QED BY <1>4 DEF Accounted

\* A step of one observation that writes nothing.
LEMMA OwnQuietAccounted ==
    ASSUME Types, Types', Accounted, UNCHANGED <<forge, gate>>, hist'.read = hist.read,
           hist'.mixed = hist.mixed, NEW o \in Observers, NEW n, Set(o, n),
           n.pc \notin {"idle", "apply"} => n.obs = gate.obs \/ (turn[o].pc # "idle" /\ n.obs = turn[o].obs),
           n.pc # "apply"
    PROVE  Accounted'
<1>1. ForgeOK(forge) /\ gate.obs \in [Definitions -> Obs]
      /\ turn[o] \in TurnRec /\ Read(turn[o])
  BY DEF Types, GateOK, TurnsOK, TurnOK
<1>2. Grows(forge, forge, hist, hist')
  BY <1>1, NothingGrows
<1>3. \A d \in Definitions : Sound(d, gate.obs[d], forge, hist')
  BY <1>1, <1>2, SoundGrows DEF Accounted
<1>4. TurnSound(turn[o], forge, hist')
  BY <1>1, <1>2, TurnGrows DEF Accounted
<1>5. TurnSound(n, forge, hist')
  BY <1>3, <1>4 DEF TurnSound
<1> QED BY <1>2, <1>3, <1>5, OwnAccounted

\* The answer of the forge leaves out none of its runs.
LEMMA AnswerSound ==
    ASSUME ForgeOK(forge), NEW t, t.obs \in [Definitions -> Obs], NEW d \in Definitions,
           Sound(d, t.obs[d], forge, hist),
           t.phase # "latest" => d \in Behind(t),
           NEW n, n.obs = t.obs, n.phase = t.phase, n.got.page = Answer(t, d)
    PROVE  PageSound(n, forge)
<1> DEFINE o == t.obs[d]
           p == Answer(t, d)
<1>1. o \in Obs /\ o.cov \in Cov /\ p.def = d
  BY AnswerTyped DEF Obs
<1>2. Places(o) \in SUBSET Nat /\ None \in Places(o) /\ Marks(o.cov) \subseteq Places(o)
  BY <1>1, PlacesTyped
<1>3. CASE t.phase = "latest"
  <2>1. p = LatestPage(d) /\ p.branch = forge.branch
    BY <1>3 DEF Answer, LatestPage
  <2>2. /\ NewestCovers(Ids(forge, d, forge.branch), Places(o), LatestPage(d).runs)
        /\ Fresh(Keys(LatestPage(d).runs), forge)
    BY LatestPageCovers
  <2> HIDE DEF p, o
  <2>3. NewestCovers(Ids(forge, d, p.branch), Places(o), p.runs) /\ Fresh(Keys(p.runs), forge)
    BY <2>1, <2>2
  <2> QED BY <1>1, <1>3, <2>3 DEF PageSound, p, o
<1>4. CASE t.phase # "latest"
  <2> DEFINE bound   == CatchUpBound(o.cov)
             above   == {k \in o.cov.pending : k > bound}
             revisit == Revisit(o.cov, bound)
  <2>1. p = CatchUpPage(d, bound, revisit) /\ p.branch = forge.branch
    BY <1>4 DEF Answer, CatchUpPage
  <2>2. o.cov.state = "gap"
    BY <1>4 DEF Behind, CatchUpBound
  <2>3. bound \in Places(o)
    BY <1>1, <1>2, <2>2, BoundOf
  <2>4. above \subseteq Nat /\ IsFiniteSet(above)
    <3>1. o.cov.pending \subseteq Nat /\ IsFiniteSet(o.cov.pending)
      BY <1>1 DEF Cov, CovRec, Keyed, Sound
    <3> HIDE DEF o, bound
    <3> QED BY <3>1, FS_Subset
  <2>5. revisit = Newest(above)
    BY DEF Revisit
  <2>6. above \subseteq Places(o) /\ \A k \in above : k > bound
    BY <1>2 DEF Marks
  <2> HIDE DEF above
  <2>7. revisit \in Places(o) /\ (revisit # None => revisit > bound)
    <3>1. CASE above = {}
      BY <1>2, <2>5, <3>1 DEF Newest
    <3>2. CASE above # {}
      BY <2>4, <2>5, <2>6, <3>2, NewestOf
    <3> QED BY <3>1, <3>2
  <2> HIDE DEF bound, revisit, o
  <2>8. /\ OlderCovers(Ids(forge, d, forge.branch), bound, Places(o), CatchUpPage(d, bound, revisit).runs)
        /\ Fresh(Keys(CatchUpPage(d, bound, revisit).runs), forge)
    BY <1>2, <2>3, <2>7, CatchUpPageCovers
  <2> HIDE DEF p
  <2>9. OlderCovers(Ids(forge, d, p.branch), bound, Places(o), p.runs) /\ Fresh(Keys(p.runs), forge)
    BY <2>1, <2>8
  <2> QED BY <1>1, <1>4, <2>2, <2>9 DEF PageSound, p, o, bound
<1> QED BY <1>3, <1>4

LEMMA FetchAccounted ==
    ASSUME Types, Types', Accounted, NEW o \in Observers, NEW kind \in Kinds, Fetch(o, kind)
    PROVE  Accounted'
<1> DEFINE t    == turn[o]
           todo == IF t.phase = "latest" THEN t.todo ELSE Behind(t)
           d    == Min(todo)
           page == Answer(t, d)
           left == IF kind = "throttled" THEN {} ELSE {e \in todo : e > d}
           got  == [kind |-> kind, page |-> page]
           n    == [t EXCEPT !.pc = "apply", !.got = got, !.todo = left,
                             !.throttled = kind = "throttled"]
<1>1. /\ t \in TurnRec /\ Read(t) /\ t.pc = "fetch" /\ ForgeOK(forge) /\ todo # {}
      /\ Set(o, n) /\ UNCHANGED <<forge, gate, hist>>
  BY DEF Types, TurnsOK, TurnOK, Fetch, World
<1>2. todo \subseteq t.todo /\ todo \subseteq Definitions
  BY <1>1 DEF Behind, TurnRec
<1>3. d \in todo /\ d \in Definitions
  <2>1. todo \subseteq Nat
    BY <1>2, GateAssumption
  <2> HIDE DEF todo
  <2> QED BY <1>1, <1>2, <2>1, MinOf
<1>4. t.phase # "latest" => d \in Behind(t)
  BY <1>3
<1>5. t.obs \in [Definitions -> Obs] /\ Sound(d, t.obs[d], forge, hist)
      /\ \A e \in Definitions : Sound(e, t.obs[e], forge, hist)
  BY <1>1, <1>3 DEF Read, Heard, Accounted, TurnSound
<1> HIDE DEF d, page, left
<1>6. n.pc = "apply" /\ n.phase = t.phase /\ n.obs = t.obs /\ n.got.page = page
  BY <1>1 DEF TurnRec
<1> HIDE DEF n
<1>7. PageSound(n, forge)
  BY <1>1, <1>3, <1>4, <1>5, <1>6, AnswerSound DEF page
<1>8. TurnSound(n, forge, hist)
  BY <1>5, <1>6, <1>7 DEF TurnSound
<1>9. Grows(forge, forge, hist, hist')
  BY <1>1, NothingGrows
<1>10. \A e \in Definitions : Sound(e, gate'.obs[e], forge, hist')
  BY <1>1 DEF Accounted
<1> QED BY <1>1, <1>8, <1>9, <1>10, OwnAccounted

\* The newest run of an observation is the one it had, or one of the page.
LEMMA AppliedLast ==
    ASSUME NEW prior \in Obs, NEW page \in SUBSET Run, IsFiniteSet(page), NEW ignore, NEW retain,
           NEW context
    PROVE  Applied(prior, page, ignore, retain, context).last.key
              \in {None, prior.last.key} \union Keys(page)
<1> DEFINE was      == IF ignore THEN NoObservation ELSE prior
           compared == Compared(prior, page, ignore, retain, context)
           kept     == \E x \in compared : x.rank = 1
           latest   == IF kept \/ page = {} THEN was.last
                       ELSE CHOOSE r \in page : r.key = Newest(Keys(page))
           latched  == Latched(was.latched, compared)
<1>1. was.last.key \in {None, prior.last.key}
  BY DEF NoObservation, NoRun
<1>2. page # {} => (CHOOSE r \in page : r.key = Newest(Keys(page))) \in page
  BY NewestOfPage
<1>3. latest.key \in {None, prior.last.key} \union Keys(page)
  BY <1>1, <1>2 DEF Keys
<1>4. Applied(prior, page, ignore, retain, context) =
      [prior EXCEPT !.last = latest, !.latched = latched, !.err = FALSE]
  BY DEF Applied
<1> HIDE DEF latest, latched
<1> QED BY <1>3, <1>4 DEF Obs

\* A record whose coverage the page moved on is sound.
LEMMA AdvancedSound ==
    ASSUME NEW o \in Obs, NEW n \in Obs, NEW page \in SUBSET Run, IsFiniteSet(page), NEW d,
           NEW f, f.next \in Nat, NEW h, NEW k, NEW ids, NEW read,
           Fresh(Places(o), f), Fresh(Keys(page), f),
           d \notin k.mixed => /\ Advanced(n.cov, ids, Places(o), page, read)
                               /\ ids = Ids(f, d, n.cov.branch)
                               /\ read \union RunsIn(page) \subseteq k.read[d],
           IsFiniteSet(n.cov.pending), Marks(n.cov) \subseteq Places(o) \union Keys(page),
           n.last.key \in {None, o.last.key} \union Keys(page),
           n.cov.branch # NoBranch, n.cov.state = "gap" => n.cov.progress <= n.cov.upper
    PROVE  Sound(d, n, f, k)
<1>1. Places(n) \subseteq Places(o) \union Keys(page)
  BY PlacesTyped DEF Places
<1>2. Fresh(Places(n), f)
  BY <1>1 DEF Fresh
<1>3. ASSUME d \notin k.mixed
      PROVE  Claims(n.cov, Ids(f, d, n.cov.branch), Places(n), k.read[d])
  <2>1. Claims(n.cov, ids, Places(o) \union Keys(page), read \union RunsIn(page))
    BY <1>3 DEF Advanced
  <2> QED BY <1>1, <1>3, <2>1, ClaimsLess
<1> QED BY <1>2, <1>3 DEF Sound

\* What a commit leaves of each definition.
LEMMA CommittedAccounted ==
    ASSUME Types, Types', Accounted, NEW o \in Observers, turn[o].pc = "apply",
           NEW t \in TurnRec, t.obs = turn[o].obs,
           NEW d \in Definitions, d = turn[o].got.page.def, NEW record, NEW changed, NEW branch,
           Committed(o, t, d, record, changed, branch),
           Grows(forge, forge, hist, hist') => Sound(d, record, forge, hist')
    PROVE  Accounted'
<1> DEFINE next == Commit(t, d, record, changed, branch)
           n    == [t EXCEPT !.pc = "settle", !.changed = changed, !.branch = branch,
                             !.closed = ClosedIn(next.obs), !.got = <<>>,
                             !.due = IF ClosedIn(next.obs) THEN {} ELSE {w \in Items : items[w].held}]
           page == turn[o].got.page
           read == {RunOf(k) : k \in Keys(page.runs)}
           mixed == IF page.branch = record.cov.branch THEN hist.mixed ELSE hist.mixed \union {d}
<1>1. /\ gate' = next /\ Set(o, n) /\ forge' = forge
      /\ hist' = IF turn[o].got.kind # "observed" THEN hist
                 ELSE [hist EXCEPT !.read[d] = @ \union read, !.mixed = mixed]
  BY DEF Committed, World
<1>2. ForgeOK(forge) /\ GateOK(gate) /\ HistOK(hist) /\ turn[o] \in TurnRec /\ Read(turn[o])
      /\ t.obs \in [Definitions -> Obs]
  BY DEF Types, TurnsOK, TurnOK, Read, Heard
<1>3. n.pc = "settle" /\ n.obs = t.obs
  BY DEF TurnRec
<1> HIDE DEF n, next
<1>4. Grows(forge, forge, hist, hist')
  <2>1. hist.mixed \subseteq mixed
    OBVIOUS
  <2> HIDE DEF mixed, read
  <2>2. hist.mixed \subseteq hist'.mixed /\ \A e \in Definitions : hist.read[e] \subseteq hist'.read[e]
    BY <1>1, <1>2, <2>1 DEF HistOK
  <2>3. forge.next <= forge.next
    BY <1>2 DEF ForgeOK
  <2> QED BY <2>2, <2>3 DEF Grows
<1>5. Sound(d, record, forge, hist')
  BY <1>4
<1>6. \A e \in Definitions : Sound(e, t.obs[e], forge, hist')
  <2>1. \A e \in Definitions : Sound(e, t.obs[e], forge, hist) /\ t.obs[e] \in Obs
    BY <1>2 DEF Accounted, TurnSound
  <2> QED BY <1>2, <1>4, <2>1, SoundGrows
<1>7. \A e \in Definitions : Sound(e, gate'.obs[e], forge, hist')
  <2> TAKE e \in Definitions
  <2>1. gate'.obs[e] = IF e = d THEN record ELSE IF e \in t.defs THEN t.obs[e] ELSE NoObservation
    BY <1>1, <1>2, CommitObs DEF next
  <2>2. Sound(e, NoObservation, forge, hist')
    <3>1. forge.next \in Nat \ {0}
      BY <1>2 DEF ForgeOK
    <3> QED BY <3>1, NoObservationSound
  <2> QED BY <1>5, <1>6, <2>1, <2>2
<1>8. TurnSound(n, forge, hist')
  BY <1>3, <1>6 DEF TurnSound
<1> QED BY <1>1, <1>4, <1>7, <1>8, OwnAccounted

\* What a commit of an observed page makes of the history.
LEMMA CommittedHistory ==
    ASSUME HistOK(hist), NEW o, NEW t, NEW d \in Definitions, NEW record, NEW changed, NEW branch,
           Committed(o, t, d, record, changed, branch)
    PROVE  /\ turn[o].got.kind # "observed" => hist' = hist
           /\ turn[o].got.kind = "observed" =>
                 /\ hist'.read[d] = hist.read[d] \union RunsIn(turn[o].got.page.runs)
                 /\ d \notin hist'.mixed =>
                       d \notin hist.mixed /\ turn[o].got.page.branch = record.cov.branch
<1> DEFINE page == turn[o].got.page
           read == {RunOf(k) : k \in Keys(page.runs)}
           mixed == IF page.branch = record.cov.branch THEN hist.mixed ELSE hist.mixed \union {d}
<1>1. hist' = IF turn[o].got.kind # "observed" THEN hist
              ELSE [hist EXCEPT !.read[d] = @ \union read, !.mixed = mixed]
  BY DEF Committed
<1>2. read = RunsIn(page.runs)
  BY DEF RunsIn
<1> HIDE DEF read
<1>3. turn[o].got.kind = "observed" =>
         hist'.read[d] = hist.read[d] \union read /\ hist'.mixed = mixed
  <2> HIDE DEF mixed
  <2> QED BY <1>1 DEF HistOK
<1>4. d \notin mixed => d \notin hist.mixed /\ page.branch = record.cov.branch
  OBVIOUS
<1> HIDE DEF mixed
<1> QED BY <1>1, <1>2, <1>3, <1>4

LEMMA NewestAccounted ==
    ASSUME Types, Types', Accounted, NEW o \in Observers, ApplyNewest(o)
    PROVE  Accounted'
<1> DEFINE t       == turn[o]
           p       == t.got.page
           called  == t.got.kind \in {"observed", "unavailable"}
           changed == t.changed \/ (called /\ t.branch \notin {NoBranch, p.branch})
           known   == IF changed THEN NoObservation ELSE t.obs[p.def]
           branch  == IF called THEN p.branch ELSE t.branch
           seen    == Applied(known, p.runs, FALSE, FALSE, <<>>)
           cov     == ApplyLatest(known.cov, branch, p.runs, p.exhausted, t.bases[p.def],
                                  Irrelevant(seen))
           first   == Decisive(Compared(known, p.runs, FALSE, FALSE, <<>>))
           heard   == [known |-> TRUE, first |-> {x.run : x \in first}]
           silent  == [known |-> FALSE, first |-> {}]
           record  == [seen EXCEPT !.cov = cov]
<1>1. /\ t \in TurnRec /\ Read(t) /\ p \in Pages /\ Heard(t, {p.def})
      /\ t.pc = "apply" /\ t.phase = "latest" /\ ForgeOK(forge) /\ HistOK(hist)
  BY DEF Types, TurnsOK, TurnOK, Read, AtHand, Got, ApplyNewest
<1>2. /\ p.def \in Definitions /\ p.runs \in SUBSET Run /\ IsFiniteSet(p.runs)
      /\ p.exhausted \in BOOLEAN /\ p.branch \in Branches /\ p.branch # NoBranch
      /\ t.obs[p.def] \in Obs /\ t.bases[p.def] \in Nat
  BY <1>1, CoverageAssumption DEF Pages, Heard
<1>3. known \in Obs /\ Sound(p.def, known, forge, hist) /\ Places(known) \subseteq Places(t.obs[p.def])
  <2>1. Sound(p.def, t.obs[p.def], forge, hist)
    BY <1>1, <1>2 DEF Accounted, TurnSound
  <2>2. NoObservation \in Obs /\ Sound(p.def, NoObservation, forge, hist)
    <3>1. forge.next \in Nat \ {0}
      BY <1>1 DEF ForgeOK
    <3> QED BY <3>1, NoObservationTyped, NoObservationSound
  <2>3. Places(NoObservation) = {None} /\ None \in Places(t.obs[p.def])
    <3>1. Places(NoObservation) = {None}
      BY DEF Places, NoObservation, NoRun, NoCoverage, Marks
    <3> QED BY <1>2, <3>1, PlacesTyped
  <2> HIDE DEF changed
  <2> QED BY <1>2, <2>1, <2>2, <2>3
<1>4. PageSound(t, forge)
  BY <1>1 DEF Accounted, TurnSound
<1>5. \A r : [t EXCEPT !.newest[p.def] = r].obs = t.obs
  BY <1>1 DEF TurnRec
<1>6. \A r \in NewestRec : [t EXCEPT !.newest[p.def] = r] \in TurnRec
  <2> TAKE r \in NewestRec
  <2> DEFINE f == [t.newest EXCEPT ![p.def] = r]
  <2>1. f \in Maybe([Definitions -> Maybe(NewestRec)])
    BY <1>1, <1>2 DEF Heard, Maybe
  <2>2. [t EXCEPT !.newest[p.def] = r] = [t EXCEPT !.newest = f]
    BY <1>1 DEF TurnRec
  <2> HIDE DEF f
  <2> QED BY <1>1, <2>1, <2>2 DEF TurnRec
<1>7. CASE t.got.kind # "observed"
  <2>1. Committed(o, [t EXCEPT !.newest[p.def] = silent], p.def, Unavailable(known), changed, branch)
    BY <1>7 DEF ApplyNewest
  <2>2. silent \in NewestRec
    BY DEF NewestRec
  <2> HIDE DEF known, changed, branch, silent
  <2>3. hist' = hist
    BY <1>1, <1>2, <1>7, <2>1, CommittedHistory
  <2>4. Unavailable(known).cov = known.cov /\ Unavailable(known).last = known.last
    BY <1>3 DEF Unavailable, Obs
  <2>5. Sound(p.def, Unavailable(known), forge, hist')
    BY <1>3, <2>3, <2>4 DEF Sound, Places
  <2> DEFINE n == [t EXCEPT !.newest[p.def] = silent]
  <2>6. n \in TurnRec /\ n.obs = t.obs
    BY <1>5, <1>6, <2>2
  <2> HIDE DEF n
  <2>7. Committed(o, n, p.def, Unavailable(known), changed, branch)
    BY <2>1 DEF n
  <2> QED BY <1>1, <1>2, <2>5, <2>6, <2>7, CommittedAccounted
<1>8. CASE t.got.kind = "observed"
  <2> DEFINE n == [t EXCEPT !.newest[p.def] = heard]
  <2>1. Committed(o, n, p.def, record, changed, branch) /\ branch = p.branch
    BY <1>8 DEF ApplyNewest
  <2> HIDE DEF known, branch, changed
  <2>2. heard \in NewestRec
    BY <1>2, <1>3, NewestCompared DEF NewestRec
  <2>3. n \in TurnRec /\ n.obs = t.obs
    <3> HIDE DEF heard
    <3> QED BY <1>5, <1>6, <2>2
  <2> HIDE DEF n, heard, first
  <2>4. seen \in Obs /\ seen.last.key \in {None, known.last.key} \union Keys(p.runs)
    <3>1. Known(<<>>)
      BY DEF Known
    <3> QED BY <1>2, <1>3, <3>1, AppliedTyped, AppliedLast
  <2>5. Irrelevant(seen) \in BOOLEAN
    BY DEF Irrelevant
  <2>6. known.cov \in Cov
    BY <1>3 DEF Obs
  <2> DEFINE marks == Places(known)
             ids   == Ids(forge, p.def, p.branch)
             irrelevant == Irrelevant(seen)
  <2>7. marks \in SUBSET Nat /\ Marks(known.cov) \subseteq marks /\ ids \in SUBSET Nat
    BY <1>1, <1>2, <1>3, PlacesTyped, IdsTyped
  <2>8. NewestCovers(ids, marks, p.runs) /\ Fresh(Keys(p.runs), forge)
    <3>1. NewestCovers(ids, Places(t.obs[p.def]), p.runs) /\ Fresh(Keys(p.runs), forge)
      BY <1>1, <1>4 DEF PageSound
    <3>2. \A m : Upto(marks \union Keys(p.runs), m) => Upto(Places(t.obs[p.def]) \union Keys(p.runs), m)
      BY <1>3 DEF Upto
    <3> QED BY <3>1, <3>2 DEF NewestCovers
  <2> HIDE DEF seen, irrelevant, marks, ids
  <2>9. cov = ApplyLatest(known.cov, p.branch, p.runs, p.exhausted, t.bases[p.def], irrelevant)
    BY <2>1 DEF irrelevant
  <2>10. cov \in Cov
    BY <1>2, <2>5, <2>6, <2>9, LatestShaped DEF irrelevant
  <2>11. /\ IsFiniteSet(known.cov.pending) /\ Fresh(marks, forge)
         /\ known.cov.branch = NoBranch => known.cov.state # "gap" /\ known.cov.check = None
    BY <1>3 DEF Sound, marks
  <2> HIDE DEF record, n
  <2>18. /\ hist'.read[p.def] = hist.read[p.def] \union RunsIn(p.runs)
         /\ p.def \notin hist'.mixed => p.def \notin hist.mixed
    <3>1. HistOK(hist) /\ p.def \in Definitions
      BY <1>1, <1>2
    <3>2. PICK d \in Definitions : d = p.def /\ Committed(o, n, d, record, changed, branch)
      BY <2>1, <3>1
    <3>3. PICK r : r = record /\ Committed(o, n, d, r, changed, branch)
      BY <3>2
    <3>4. /\ hist'.read[d] = hist.read[d] \union RunsIn(t.got.page.runs)
          /\ d \notin hist'.mixed => d \notin hist.mixed
      BY <1>8, <3>1, <3>3, CommittedHistory
    <3> QED BY <3>2, <3>4
  <2> USE DEF record
  <2> HIDE DEF p
  <2>12. ASSUME NEW read, known.cov.branch = p.branch => Claims(known.cov, ids, marks, read)
         PROVE  cov.branch = p.branch /\ Advanced(cov, ids, marks, p.runs, read)
    <3> HIDE DEF cov
    <3>1. irrelevant \in BOOLEAN
      BY <2>5 DEF irrelevant
    <3> QED BY <1>2, <2>6, <2>7, <2>8, <2>9, <2>11, <2>12, <3>1, LatestReads
  <2> HIDE DEF cov
  <2>13. /\ cov.branch = p.branch /\ IsFiniteSet(cov.pending)
         /\ Marks(cov) \subseteq marks \union Keys(p.runs)
         /\ cov.state = "gap" => cov.progress <= cov.upper
    <3>1. Claims(known.cov, ids, marks, Nat)
      BY <1>3, <2>7 DEF Claims, Sound
    <3> QED BY <2>12, <3>1 DEF Advanced, Claims
  <2>14. record \in Obs /\ record.cov = cov /\ record.last = seen.last
    BY <2>4, <2>10 DEF Obs
  <2> HIDE DEF record
  <2>16. ASSUME p.def \notin hist'.mixed
         PROVE  Advanced(cov, ids, marks, p.runs, hist.read[p.def])
    <3>1. known.cov.branch = p.branch => Claims(known.cov, ids, marks, hist.read[p.def])
      BY <1>3, <2>18, <2>16 DEF Sound, ids, marks
    <3> QED BY <2>12, <3>1
  <2>17. Sound(p.def, record, forge, hist')
    <3>1. forge.next \in Nat
      BY <1>1 DEF ForgeOK
    <3>2. p.def \notin hist'.mixed =>
             /\ Advanced(record.cov, ids, Places(known), p.runs, hist.read[p.def])
             /\ ids = Ids(forge, p.def, record.cov.branch)
             /\ hist.read[p.def] \union RunsIn(p.runs) \subseteq hist'.read[p.def]
      BY <2>13, <2>14, <2>18, <2>16 DEF marks, ids
    <3>3. /\ Fresh(Places(known), forge) /\ IsFiniteSet(record.cov.pending)
          /\ Marks(record.cov) \subseteq Places(known) \union Keys(p.runs)
          /\ record.cov.branch # NoBranch
          /\ record.cov.state = "gap" => record.cov.progress <= record.cov.upper
      BY <1>2, <2>11, <2>13, <2>14 DEF marks
    <3>4. record.last.key \in {None, known.last.key} \union Keys(p.runs)
      BY <2>4, <2>14
    <3> QED BY <1>2, <1>3, <2>8, <2>14, <3>1, <3>2, <3>3, <3>4, AdvancedSound
  <2> QED BY <1>1, <1>2, <2>1, <2>3, <2>17, CommittedAccounted DEF p
<1> QED BY <1>7, <1>8

LEMMA OlderAccounted ==
    ASSUME Types, Types', Accounted, NEW o \in Observers, ApplyOlder(o)
    PROVE  Accounted'
<1> DEFINE t      == turn[o]
           p      == t.got.page
           prior  == t.obs[p.def]
           cov    == ApplyCatchUp(prior.cov, p.runs, p.exhausted)
           seen   == IF t.newest[p.def].known
                     THEN Applied(prior, p.runs, t.changed, TRUE, Context(t, p.def))
                     ELSE prior
           record == [seen EXCEPT !.cov = cov]
<1>1. /\ t \in TurnRec /\ Read(t) /\ t.pc = "apply" /\ t.phase = "catch_up"
      /\ ForgeOK(forge) /\ HistOK(hist)
  BY DEF Types, TurnsOK, TurnOK, ApplyOlder
<1>2. t.got \in Got /\ p.def \in t.defs /\ Heard(t, {p.def})
  BY <1>1 DEF Read, AtHand
<1>3. p \in Pages /\ p.def \in Definitions /\ p.runs \in SUBSET Run /\ IsFiniteSet(p.runs)
      /\ p.branch \in Branches /\ p.exhausted \in BOOLEAN
  BY <1>2 DEF Got, Pages
<1>4. prior \in Obs /\ prior.cov \in Cov /\ t.changed \in BOOLEAN /\ t.newest[p.def] \in NewestRec
  BY <1>1, <1>2, <1>3 DEF Heard, TurnRec, Obs
<1>5. Sound(p.def, prior, forge, hist) /\ PageSound(t, forge)
  BY <1>1, <1>3 DEF Accounted, TurnSound
<1>6. CASE t.got.kind = "observed"
  <2>1. Committed(o, t, p.def, record, t.changed, t.branch)
    BY <1>6 DEF ApplyOlder
  <2>2. seen \in Obs /\ seen.last.key \in {None, prior.last.key} \union Keys(p.runs)
    <3> DEFINE context == Context(t, p.def)
    <3>1. Known(context)
      BY <1>4, ContextKnown DEF Obs, NewestRec
    <3> HIDE DEF context
    <3>2. Applied(prior, p.runs, t.changed, TRUE, context) \in Obs
      BY <1>3, <1>4, <3>1, AppliedTyped
    <3>3. Applied(prior, p.runs, t.changed, TRUE, context).last.key
             \in {None, prior.last.key} \union Keys(p.runs)
      BY <1>3, <1>4, AppliedLast
    <3>4. seen = Applied(prior, p.runs, t.changed, TRUE, context) \/ seen = prior
      BY DEF context
    <3> HIDE DEF seen
    <3> QED BY <1>4, <3>2, <3>3, <3>4
  <2>3. cov \in Cov
    BY <1>3, <1>4, CatchUpShaped
  <2> DEFINE marks == Places(prior)
             ids   == Ids(forge, p.def, p.branch)
  <2>4. /\ prior.cov.state = "gap" /\ OlderCovers(ids, CatchUpBound(prior.cov), marks, p.runs)
        /\ Fresh(Keys(p.runs), forge)
    BY <1>1, <1>5 DEF PageSound
  <2>5. /\ marks \in SUBSET Nat /\ Marks(prior.cov) \subseteq marks /\ ids \in SUBSET Nat
        /\ IsFiniteSet(prior.cov.pending) /\ Fresh(marks, forge)
        /\ prior.cov.progress <= prior.cov.upper /\ prior.cov.branch # NoBranch
    BY <1>1, <1>3, <1>4, <1>5, <2>4, PlacesTyped, IdsTyped DEF Sound
  <2> HIDE DEF seen, marks, ids
  <2>6. ASSUME NEW read, Claims(prior.cov, ids, marks, read)
        PROVE  cov.branch = prior.cov.branch /\ Advanced(cov, ids, marks, p.runs, read)
    BY <1>3, <1>4, <2>4, <2>5, <2>6, OlderReads
  <2> HIDE DEF cov
  <2>7. /\ cov.branch = prior.cov.branch /\ IsFiniteSet(cov.pending)
        /\ Marks(cov) \subseteq marks \union Keys(p.runs)
        /\ cov.state = "gap" => cov.progress <= cov.upper
    <3>1. Claims(prior.cov, ids, marks, Nat)
      BY <2>4, <2>5 DEF Claims
    <3> QED BY <2>6, <3>1 DEF Advanced, Claims
  <2>8. record \in Obs /\ record.cov = cov /\ record.last = seen.last
    BY <2>2, <2>3 DEF Obs
  <2> HIDE DEF record
  <2>9. /\ hist'.read[p.def] = hist.read[p.def] \union RunsIn(p.runs)
        /\ p.def \notin hist'.mixed =>
              p.def \notin hist.mixed /\ p.branch = record.cov.branch
    <3>1. PICK d \in Definitions : d = p.def /\ Committed(o, t, d, record, t.changed, t.branch)
      BY <1>3, <2>1
    <3>2. PICK r : r = record /\ Committed(o, t, d, r, t.changed, t.branch)
      BY <3>1
    <3>3. /\ hist'.read[d] = hist.read[d] \union RunsIn(p.runs)
          /\ d \notin hist'.mixed => d \notin hist.mixed /\ p.branch = r.cov.branch
      BY <1>1, <1>6, <3>2, CommittedHistory
    <3> QED BY <3>1, <3>2, <3>3
  <2> HIDE DEF prior
  <2>10. ASSUME p.def \notin hist'.mixed
         PROVE  /\ ids = Ids(forge, p.def, record.cov.branch)
                /\ Advanced(record.cov, ids, marks, p.runs, hist.read[p.def])
    <3>1. p.def \notin hist.mixed /\ p.branch = prior.cov.branch
      BY <2>7, <2>8, <2>9, <2>10
    <3>2. Claims(prior.cov, ids, marks, hist.read[p.def])
      BY <1>5, <3>1 DEF Sound, ids, marks
    <3> QED BY <2>6, <2>7, <2>8, <3>1, <3>2 DEF ids
  <2>11. Sound(p.def, record, forge, hist')
    <3>1. forge.next \in Nat
      BY <1>1 DEF ForgeOK
    <3>2. p.def \notin hist'.mixed =>
             /\ Advanced(record.cov, ids, Places(prior), p.runs, hist.read[p.def])
             /\ ids = Ids(forge, p.def, record.cov.branch)
             /\ hist.read[p.def] \union RunsIn(p.runs) \subseteq hist'.read[p.def]
      BY <2>9, <2>10 DEF marks
    <3>3. /\ Fresh(Places(prior), forge) /\ IsFiniteSet(record.cov.pending)
          /\ Marks(record.cov) \subseteq Places(prior) \union Keys(p.runs)
          /\ record.cov.branch # NoBranch
          /\ record.cov.state = "gap" => record.cov.progress <= record.cov.upper
      BY <2>5, <2>7, <2>8 DEF marks
    <3>4. record.last.key \in {None, prior.last.key} \union Keys(p.runs)
      BY <2>2, <2>8
    <3> QED BY <1>3, <1>4, <2>4, <2>8, <3>1, <3>2, <3>3, <3>4, AdvancedSound
  <2> QED BY <1>1, <1>3, <2>1, <2>11, CommittedAccounted
<1>7. CASE t.got.kind = "unavailable"
  <2> DEFINE n == [t EXCEPT !.pc = "fetch", !.got = <<>>]
  <2>1. Set(o, n) /\ UNCHANGED <<forge, gate, hist>>
    BY <1>7 DEF ApplyOlder, World
  <2>2. n.pc = "fetch" /\ n.obs = t.obs
    BY <1>1 DEF TurnRec
  <2> HIDE DEF n
  <2> QED BY <1>1, <2>1, <2>2, OwnQuietAccounted
<1>8. CASE t.got.kind \notin {"observed", "unavailable"}
  <2>1. Committed(o, t, p.def, prior, t.changed, t.branch)
    BY <1>8 DEF ApplyOlder
  <2>2. hist' = hist
    BY <1>1, <1>3, <1>8, <2>1, CommittedHistory
  <2> QED BY <1>1, <1>3, <1>5, <2>1, <2>2, CommittedAccounted
<1> QED BY <1>6, <1>7, <1>8

\* An observation begins with what is stored.
LEMMA BeginAccounted ==
    ASSUME Types, Types', Accounted, NEW o \in Observers, Begin(o)
    PROVE  Accounted'
<1> DEFINE n == [NoTurn EXCEPT !.pc = IF gate.definitions = {} THEN "clear" ELSE "fetch",
                               !.defs = gate.definitions, !.todo = gate.definitions,
                               !.obs = gate.obs, !.active = Active, !.branch = gate.branch,
                               !.bases = [d \in Definitions |-> repair.base[d].order],
                               !.newest = [d \in Definitions |-> <<>>]]
<1>1. /\ Set(o, n) /\ UNCHANGED <<forge, gate>>
      /\ hist' = [hist EXCEPT !.overlapped = @ \/ \E p \in Observers : turn[p].pc # "idle"]
  BY DEF Begin, World
<1>2. n.obs = gate.obs /\ n.pc # "apply"
  BY DEF NoTurn
<1>3. hist'.read = hist.read /\ hist'.mixed = hist.mixed
  BY <1>1 DEF Types, HistOK
<1> HIDE DEF n
<1> QED BY <1>1, <1>2, <1>3, OwnQuietAccounted

\* No definition is selected: nothing is known any more.
LEMMA ClearAccounted ==
    ASSUME Types, Types', Accounted, NEW o \in Observers, Clear(o)
    PROVE  Accounted'
<1> DEFINE t == turn[o]
           n == [t EXCEPT !.pc = "settle", !.phase = "end", !.closed = FALSE,
                          !.due = {w \in Items : items[w].held}]
           none == [d \in Definitions |-> NoObservation]
           open == gate.open \ {t.active}
<1>1. /\ Set(o, n) /\ UNCHANGED <<forge, hist>> /\ t.pc = "clear"
      /\ gate' = [gate EXCEPT !.obs = none, !.open = open]
  BY DEF Clear, World
<1>2. t \in TurnRec /\ ForgeOK(forge) /\ GateOK(gate)
  BY DEF Types, TurnsOK
<1>3. n.pc = "settle" /\ n.obs = t.obs
  BY <1>2 DEF TurnRec
<1> HIDE DEF n
<1>4. gate'.obs = none
  <2> HIDE DEF none, open
  <2> QED BY <1>1, <1>2 DEF GateOK
<1>5. \A d \in Definitions : Sound(d, gate'.obs[d], forge, hist')
  <2>1. forge.next \in Nat \ {0}
    BY <1>2 DEF ForgeOK
  <2> QED BY <1>4, <2>1, NoObservationSound
<1>6. TurnSound(n, forge, hist')
  BY <1>1, <1>3 DEF TurnSound, Accounted
<1>7. Grows(forge, forge, hist, hist')
  BY <1>1, <1>2, NothingGrows
<1> QED BY <1>1, <1>5, <1>6, <1>7, OwnAccounted

\* The other steps of an observation read what is stored, or go on.
LEMMA QuietObservesAccounted ==
    ASSUME Types, Types', Accounted, NEW o \in Observers,
           \/ CaughtUp(o) \/ Consider(o) \/ Create(o) \/ StartFails(o)
           \/ \E left \in SUBSET Items : Settle(o, left)
    PROVE  Accounted'
<1> DEFINE t == turn[o]
<1>1. t \in TurnRec
  BY DEF Types, TurnsOK
<1>2. CASE CaughtUp(o)
  <2> DEFINE n == [t EXCEPT !.pc = "consider", !.phase = "end"]
  <2>1. Set(o, n) /\ UNCHANGED <<forge, gate, hist>> /\ t.pc = "fetch"
    BY <1>2 DEF CaughtUp, World
  <2>2. n.pc = "consider" /\ n.obs = t.obs
    BY <1>1 DEF TurnRec
  <2> HIDE DEF n
  <2> QED BY <2>1, <2>2, OwnQuietAccounted
<1>3. ASSUME NEW left \in SUBSET Items, Settle(o, left) PROVE Accounted'
  <2> DEFINE pc  == IF t.phase = "end" \/ (t.phase = "latest" /\ t.todo = {})
                    THEN "consider" ELSE "fetch"
             due == {w \in t.due \ left : ~GateHolds(w)}
             n   == [t EXCEPT !.obs = gate.obs, !.active = Active, !.due = due, !.pc = pc]
  <2>1. Set(o, n) /\ UNCHANGED <<forge, gate, hist>>
    BY <1>3 DEF Settle, World
  <2>2. n.pc \in {"consider", "fetch"} /\ n.obs = gate.obs
    BY <1>1 DEF TurnRec
  <2> HIDE DEF n
  <2> QED BY <2>1, <2>2, OwnQuietAccounted
<1>4. ASSUME t.pc \in {"consider", "create"}, Set(o, Resume(t)), UNCHANGED <<forge, gate, hist>>
      PROVE  Accounted'
  <2>1. \/ Resume(t).pc = "idle"
        \/ Resume(t).pc \in {"consider", "fetch"} /\ Resume(t).obs = t.obs
    BY <1>1 DEF Resume, NoTurn, TurnRec
  <2> QED BY <1>4, <2>1, OwnQuietAccounted
<1>5. CASE Consider(o)
  <2> DEFINE n == [t EXCEPT !.pc = "create", !.ev = Evidence, !.known = hist.handled]
  <2>1. /\ UNCHANGED <<forge, gate, hist>> /\ t.pc = "consider"
        /\ Set(o, n) \/ Set(o, Resume(t))
    BY <1>5 DEF Consider, World
  <2>2. n.pc = "create" /\ n.obs = t.obs
    BY <1>1 DEF TurnRec
  <2> HIDE DEF n
  <2>3. CASE Set(o, n)
    BY <2>1, <2>2, <2>3, OwnQuietAccounted
  <2> QED BY <1>4, <2>1, <2>3
<1>6. CASE Create(o) \/ StartFails(o)
  BY <1>4, <1>6 DEF Create, StartFails, World
<1> QED BY <1>2, <1>3, <1>5, <1>6

LEMMA OthersAccounted ==
    ASSUME Types, Types', Accounted, ForgeMoves \/ Aside \/ Holds \/ Crash
    PROVE  Accounted'
<1>1. /\ \A o \in Observers : turn[o] \in TurnRec
      /\ GateOK(gate) /\ HistOK(hist) /\ ForgeOK(forge)
  BY DEF Types, TurnsOK
<1>2. CASE ForgeMoves
  <2>1. Grows(forge, forge', hist, hist')
    BY <1>1, <1>2, RunsGrow DEF ForgeMoves
  <2>2. UNCHANGED <<gate, turn>>
    BY <1>2, ForgeStep DEF ForgeMoves, Forged
  <2> QED BY <2>1, <2>2, QuietAccounted
<1>3. CASE Aside
  <2>1. turn' = turn /\ gate'.obs = gate.obs
    BY <1>1, <1>3 DEF Aside, ChangeBranch, StartManual, CreateManual, ManualFails, End,
                      AskToMerge, Authorize, Select, GateOK, vars
  <2>2. hist'.read = hist.read /\ hist'.mixed = hist.mixed
    <3>1. ASSUME NEW how, End(how) PROVE hist'.read = hist.read /\ hist'.mixed = hist.mixed
      BY <1>1, <3>1 DEF End, HistOK
    <3>2. CASE ~\E how \in {"merged", "no_change", "abandoned"} : End(how)
      BY <1>3, <3>2 DEF Aside, ChangeBranch, StartManual, CreateManual, ManualFails, AskToMerge, Authorize,
                        Select, vars
    <3> QED BY <3>1, <3>2
  <2>3. forge'.runs = forge.runs /\ forge'.next = forge.next
    <3>1. ASSUME NEW b, ChangeBranch(b) PROVE forge'.runs = forge.runs /\ forge'.next = forge.next
      BY <1>1, <3>1 DEF ChangeBranch, ForgeOK
    <3>2. CASE ~\E b \in Branches : ChangeBranch(b)
      BY <1>3, <3>2 DEF Aside, End, StartManual, CreateManual, ManualFails, AskToMerge, Authorize, Select, vars
    <3> QED BY <3>1, <3>2
  <2>4. Grows(forge, forge', hist, hist')
    BY <1>1, <2>2, <2>3, NothingGrows
  <2> QED BY <2>1, <2>4, QuietAccounted
<1>4. CASE Holds
  <2>1. PICK w : NotDue(w) /\ UNCHANGED <<forge, gate, hist>>
    BY <1>4 DEF Holds, Hold, HoldMerge, Bound
  <2>2. ASSUME NEW o \in Observers
        PROVE  /\ turn'[o].pc = turn[o].pc /\ turn'[o].phase = turn[o].phase
               /\ turn'[o].obs = turn[o].obs /\ turn'[o].got = turn[o].got
    BY <1>1, <2>1 DEF NotDue, TurnRec
  <2>3. Grows(forge, forge', hist, hist')
    BY <1>1, <2>1, NothingGrows
  <2> QED BY <2>1, <2>2, <2>3, QuietAccounted
<1>5. CASE Crash
  <2>1. UNCHANGED <<forge, gate, hist>> /\ \A o \in Observers : turn'[o].pc = "idle"
    BY <1>5 DEF Crash, NoTurn
  <2>2. Grows(forge, forge', hist, hist')
    BY <1>1, <2>1, NothingGrows
  <2> QED BY <2>1, <2>2, QuietAccounted
<1> QED BY <1>2, <1>3, <1>4, <1>5

LEMMA AccountedStep == Types /\ Accounted /\ [Next]_vars => Accounted'
<1> SUFFICES ASSUME Types, Accounted, [Next]_vars PROVE Accounted'
  OBVIOUS
<1>1. PlanOK /\ GateOK(gate)
  BY DEF Types
<1>2. Types'
  BY TypesStep
<1>3. CASE \E o \in Observers : Observes(o)
  BY <1>2, <1>3, BeginAccounted, ClearAccounted, FetchAccounted, NewestAccounted, OlderAccounted,
     QuietObservesAccounted DEF Observes
<1> QED BY <1>1, <1>2, <1>3, Steps, OthersAccounted

\* Complete coverage means what it says: with any number of pages, observers,
\* runs that come in or are rerun or deleted in between, a run of the branch from
\* the checkpoint up to the latest run has been read
\* (applyLatestHistoricalCoverage, applyCatchUpHistoricalCoverage).
THEOREM CoverageComplete == Spec => []CompleteMeansRead
<1>1. Types /\ Accounted => CompleteMeansRead
  <2> SUFFICES ASSUME Types, Accounted, NEW d \in Definitions,
                      gate.obs[d].cov.state = "complete", gate.obs[d].cov.check # None,
                      d \notin hist.mixed,
                      NEW r \in Listed(d, gate.obs[d].cov.branch),
                      r.id \in RunOf(gate.obs[d].cov.check)..RunOf(gate.obs[d].last.key)
               PROVE  r.id \in hist.read[d]
    BY DEF CompleteMeansRead
  <2> DEFINE o == gate.obs[d]
  <2>1. Claims(o.cov, Ids(forge, d, o.cov.branch), Places(o), hist.read[d])
    BY DEF Accounted, Sound
  <2>2. r.id \in Ids(forge, d, o.cov.branch)
    BY DEF Ids, Listed
  <2>3. o.last.key \in Places(o)
    BY DEF Places
  <2>4. RunOf(o.cov.check) <= r.id /\ r.id <= RunOf(o.last.key)
    OBVIOUS
  <2>5. Upto(Places(o), r.id)
    BY <2>3, <2>4 DEF Upto
  <2> QED BY <2>1, <2>2, <2>4, <2>5 DEF Claims
<1> QED BY <1>1, TypesInit, TypesStep, AccountedInit, AccountedStep, PTL DEF Spec
=============================================================================
