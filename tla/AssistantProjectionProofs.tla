--------------------- MODULE AssistantProjectionProofs ---------------------
(***************************************************************************)
(* Proofs about AssistantProjection, for any session: any number of        *)
(* messages with any references, and any number of crashes and failing     *)
(* callbacks.                                                              *)
(***************************************************************************)
EXTENDS AssistantProjection, FiniteSetTheorems, WellFoundedInduction, NaturalsInduction, TLAPS

(* The inductive invariant.                                                *)

\* The callback of row r will be begun again, by a pass or after a lease.
Owed(r) == r.cst = 1 \/ (r.cst = 2 /\ r.tok \notin Passes)

\* A message has one place in the order of arrival, from the moment it has a row;
\* it is visible exactly when its row says so; a row under review has a handoff
\* that was given up on.
RowsInv ==
    /\ \A i, j \in DOMAIN order : order[i] = order[j] => i = j
    /\ \A m \in Messages : m \in Range(order) <=> proj[m].st # "absent"
    /\ \A m \in Messages : m \in Range(pubs) <=> proj[m].st = "projected"
    /\ \A m \in Messages : proj[m].st = "review" => \E h \in OwnHandoffs(m) : hand[h].st = "review"

\* A linked handoff owns its source, and the source is there until publication.
HandInv ==
    \A h \in Handoffs :
        /\ hand[h].st # "absent" <=> proj[Of(h)].st # "absent"
        /\ hand[h].st = "linked" => resv[Src(h)] = Of(h)
        /\ hand[h].st = "linked" /\ proj[Of(h)].st # "projected" => pend[Src(h)] = "staged"
        /\ proj[Of(h)].st = "projected" => hand[h].st = "linked"

\* A callback that may be begun once more has not used up the faults.
Announced(r, n, f) ==
    /\ r.st # "projected" \/ ~r.payload => r.cst = 0 /\ n = 0
    /\ n + (IF Owed(r) THEN 1 ELSE 0) <= 1 + f
CompletionInv == \A m \in Messages : Announced(proj[m], notes[m], faults)

\* The attachment rows are those of the published handoffs.
AttachedInv ==
    \A s \in Sources :
        attached[s] = IF \E h \in Handoffs : Src(h) = s /\ proj[Of(h)].st = "projected" THEN 1 ELSE 0

\* A pass works on rows that exist.
PassInv ==
    /\ recover \subseteq Range(order)
    /\ \A x \in Passes :
        /\ pass[x].at = "staging" => pass[x].h \in Handoffs
        /\ pass[x].at = "callback" => pass[x].m \in Messages
        /\ \A h \in pass[x].todo : hand[h].st # "absent"

IInv == TypeOK /\ RowsInv /\ HandInv /\ CompletionInv /\ AttachedInv /\ PassInv /\ PostsInArrivalOrder

-----------------------------------------------------------------------------
(* The constants.                                                          *)

\* What a handoff is: a reference of a message, with the source it names.
LEMMA HandoffFacts ==
    \A h \in Handoffs : Of(h) \in Messages /\ h[2] \in Nat /\ Src(h) \in Sources
<1> SUFFICES ASSUME NEW h \in Handoffs
             PROVE  Of(h) \in Messages /\ h[2] \in Nat /\ Src(h) \in Sources
  OBVIOUS
<1>1. PICK m \in Messages : h \in {<<m, i>> : i \in Dedupe(Refs[m])}
  BY Zenon DEF Handoffs
<1>2. PICK i \in Dedupe(Refs[m]) : h = <<m, i>>
  BY <1>1
<1> DEFINE R == [entry : Nat, kind : Kinds, src : Sources]
<1>3. i \in DOMAIN Refs[m] /\ Refs[m] \in Seq(R)
  BY HandoffsAreKeyed, ProjectionConstants
<1>4. i \in Nat /\ Refs[m][i] \in R
  <2> DEFINE q == Refs[m]
  <2>1. q \in Seq(R) /\ i \in DOMAIN q
    BY <1>3
  <2> HIDE DEF q, R
  <2>2. i \in Nat /\ q[i] \in R
    BY <2>1
  <2> QED BY <2>2 DEF q
<1>5. Of(h) = m /\ Src(h) = Refs[m][i].src
  BY <1>2 DEF Of, Src, Ref
<1> QED BY <1>2, <1>4, <1>5

\* A set of natural numbers that is not empty has a least element.
LEMMA Minimum ==
    ASSUME NEW S \in SUBSET Nat, S # {}
    PROVE  \E x \in S : \A y \in S : x <= y
<1> DEFINE R == OpToRel(<, Nat)
<1>1. IsWellFoundedOn(R, Nat)
  BY NatLessThanWellFounded, Zenon
<1>2. \A x, y \in Nat : x < y => <<x, y>> \in R
  <2>1. R = {ss \in Nat \X Nat : ss[1] < ss[2]}
    BY Zenon DEF OpToRel
  <2> HIDE DEF R
  <2> QED BY <2>1
<1> HIDE DEF R
<1>3. PICK x \in S : \A y \in S : <<y, x>> \notin R
  BY <1>1, WFMin
<1>4. \A y \in S : ~(y < x)
  BY <1>2, <1>3
<1> QED BY <1>4

-----------------------------------------------------------------------------
(* The order of arrival.                                                   *)

RankIn(o, m) == CHOOSE i \in DOMAIN o : o[i] = m
EarlierIn(o, m) == {o[i] : i \in 1..(RankIn(o, m) - 1)}
OneEach(o) == o \in Seq(Messages) /\ \A i, j \in DOMAIN o : o[i] = o[j] => i = j

\* A message that has a row has one rank.
LEMMA RankFacts ==
    ASSUME NEW o, OneEach(o), NEW m \in Range(o)
    PROVE  /\ RankIn(o, m) \in 1..Len(o) /\ o[RankIn(o, m)] = m
           /\ \A i \in 1..Len(o) : o[i] = m => i = RankIn(o, m)
<1>1. PICK i \in DOMAIN o : o[i] = m
  BY DEF Range
<1>2. RankIn(o, m) \in DOMAIN o /\ o[RankIn(o, m)] = m
  BY <1>1 DEF RankIn
<1> QED BY <1>2 DEF OneEach

\* The messages before m are those of a smaller rank.
LEMMA EarlierFacts ==
    ASSUME NEW o, OneEach(o), NEW m \in Range(o), NEW n
    PROVE  n \in EarlierIn(o, m) <=> n \in Range(o) /\ RankIn(o, n) < RankIn(o, m)
<1>1. RankIn(o, m) \in 1..Len(o) /\ DOMAIN o = 1..Len(o)
  BY RankFacts DEF OneEach
<1>2. ASSUME n \in EarlierIn(o, m) PROVE n \in Range(o) /\ RankIn(o, n) < RankIn(o, m)
  <2>1. PICK i \in 1..(RankIn(o, m) - 1) : n = o[i]
    BY <1>2 DEF EarlierIn
  <2>2. i \in 1..Len(o)
    BY <2>1, <1>1
  <2>3. n \in Range(o)
    BY <2>1, <2>2, <1>1 DEF Range
  <2>4. i = RankIn(o, n)
    BY <2>1, <2>2, <2>3, RankFacts
  <2> QED BY <2>1, <2>3, <2>4, <1>1
<1>3. ASSUME n \in Range(o), RankIn(o, n) < RankIn(o, m) PROVE n \in EarlierIn(o, m)
  <2>1. RankIn(o, n) \in 1..Len(o) /\ o[RankIn(o, n)] = n
    BY <1>3, RankFacts
  <2>2. RankIn(o, n) \in 1..(RankIn(o, m) - 1)
    BY <2>1, <1>1, <1>3
  <2> QED BY <2>1, <2>2 DEF EarlierIn
<1> QED BY <1>2, <1>3

\* A new row comes after all others and moves none.
LEMMA AppendFacts ==
    ASSUME NEW o, OneEach(o), NEW n \in Messages, n \notin Range(o)
    PROVE  /\ OneEach(Append(o, n)) /\ Range(Append(o, n)) = Range(o) \cup {n}
           /\ \A m \in Range(o) : RankIn(Append(o, n), m) = RankIn(o, m)
<1> DEFINE a == Append(o, n)
<1>1. a \in Seq(Messages) /\ Len(a) = Len(o) + 1 /\ a[Len(o) + 1] = n /\ Len(o) \in Nat
      /\ DOMAIN a = 1..(Len(o) + 1) /\ DOMAIN o = 1..Len(o) /\ \A i \in 1..Len(o) : a[i] = o[i]
  BY DEF OneEach
<1> HIDE DEF a
<1>2. OneEach(a)
  <2>1. \A i \in 1..Len(o) : a[i] # n
    BY <1>1 DEF Range
  <2> QED BY <1>1, <2>1 DEF OneEach
<1>3. Range(a) = Range(o) \cup {n}
  <2>1. \A i \in 1..(Len(o) + 1) : i \in 1..Len(o) \/ i = Len(o) + 1
    BY <1>1
  <2>2. \A i \in 1..Len(o) : i \in 1..(Len(o) + 1)
    BY <1>1
  <2>3. Len(o) + 1 \in 1..(Len(o) + 1)
    BY <1>1
  <2> QED BY <1>1, <2>1, <2>2, <2>3, Zenon DEF Range
<1>4. ASSUME NEW m \in Range(o) PROVE RankIn(a, m) = RankIn(o, m)
  <2>1. RankIn(o, m) \in 1..Len(o) /\ o[RankIn(o, m)] = m
    BY RankFacts
  <2>2. RankIn(o, m) \in 1..Len(a) /\ a[RankIn(o, m)] = m
    BY <2>1, <1>1
  <2>3. m \in Range(a)
    BY <1>3
  <2> QED BY <2>2, <2>3, <1>2, RankFacts
<1> QED BY <1>2, <1>3, <1>4 DEF a

\* The first of the rows considered is one of them (ORDER BY rowid).
LEMMA FirstIsOne ==
    ASSUME OneEach(order), NEW S, S \subseteq Range(order), S # {}
    PROVE  First(S) \in S
<1>1. \A m \in S : Rank(m) \in Nat
  BY RankFacts DEF Rank, RankIn, OneEach
<1> DEFINE T == {Rank(m) : m \in S}
<1>2. T \in SUBSET Nat /\ T # {}
  BY <1>1
<1>3. PICK t \in T : \A u \in T : t <= u
  BY <1>2, Minimum
<1>4. PICK m \in S : t = Rank(m)
  BY <1>3
<1>5. \A n \in S : Rank(m) <= Rank(n)
  BY <1>3, <1>4
<1> QED BY <1>4, <1>5 DEF First

\* So is the first of the handoffs a pass has listed.
LEMMA FirstHandoffIsOne ==
    ASSUME OneEach(order), NEW S \in SUBSET Handoffs, S # {}, \A h \in S : Of(h) \in Range(order)
    PROVE  FirstHandoff(S) \in S
<1>1. \A h \in S : Rank(Of(h)) \in Nat /\ order[Rank(Of(h))] = Of(h)
  BY RankFacts DEF Rank, RankIn, OneEach
<1> DEFINE T == {Rank(Of(h)) : h \in S}
<1>2. T \in SUBSET Nat /\ T # {}
  BY <1>1
<1>3. PICK t \in T : \A u \in T : t <= u
  BY <1>2, Minimum
<1>4. PICK f \in S : t = Rank(Of(f))
  BY <1>3
<1> DEFINE U == {h[2] : h \in {g \in S : Of(g) = Of(f)}}
<1>5. U \in SUBSET Nat /\ U # {}
  BY <1>4, HandoffFacts
<1>6. PICK u \in U : \A v \in U : u <= v
  BY <1>5, Minimum
<1>7. PICK h \in S : Of(h) = Of(f) /\ u = h[2]
  BY <1>6
<1>8. ASSUME NEW g \in S PROVE Rank(Of(h)) < Rank(Of(g)) \/ (Of(h) = Of(g) /\ h[2] <= g[2])
  <2>1. Rank(Of(h)) <= Rank(Of(g)) /\ Rank(Of(h)) \in Nat /\ Rank(Of(g)) \in Nat
    BY <1>1, <1>3, <1>4, <1>7
  <2>2. CASE Of(g) = Of(f)
    BY <2>2, <1>6, <1>7
  <2>3. CASE Of(g) # Of(f)
    BY <2>1, <2>3, <1>1, <1>7
  <2> QED BY <2>2, <2>3
<1> QED BY <1>7, <1>8 DEF FirstHandoff

-----------------------------------------------------------------------------
(* What a step may do to the posts and to the custody of the sources.      *)

\* The rows that a later post must not overtake.
Blocking == {m \in Messages : m \in Incomplete /\ ~Torn(m)}

InOrder(o, ps, blocking) ==
    /\ \A i, j \in DOMAIN ps : i < j => RankIn(o, ps[i]) < RankIn(o, ps[j])
    /\ \A m \in Range(ps) : \A n \in EarlierIn(o, m) : n \notin blocking

\* The order of the posts, in those terms; and in the next state.
LEMMA PostsAre == OneEach(order) => (PostsInArrivalOrder <=> InOrder(order, pubs, Blocking))
<1> SUFFICES ASSUME OneEach(order) PROVE PostsInArrivalOrder <=> InOrder(order, pubs, Blocking)
  OBVIOUS
<1>1. Incomplete \subseteq Messages
  BY DEF Incomplete, Rows, Range, OneEach
<1> QED BY <1>1, Zenon DEF PostsInArrivalOrder, InOrder, Blocking, Rank, RankIn, Earlier, EarlierIn

\* The same in the next state.
LEMMA PostsWillBe == OneEach(order') => (PostsInArrivalOrder' <=> InOrder(order', pubs', Blocking'))
<1> SUFFICES ASSUME OneEach(order') PROVE PostsInArrivalOrder' <=> InOrder(order', pubs', Blocking')
  OBVIOUS
<1>1. Incomplete' \subseteq Messages
  BY DEF Incomplete, Rows, Range, OneEach
<1> QED BY <1>1, Zenon DEF PostsInArrivalOrder, InOrder, Blocking, Rank, RankIn, Earlier, EarlierIn

\* A step that publishes nothing: it gives no reservation up, deletes no reserved
\* source, links only what it has reserved, and leaves what is linked, given up on
\* or published as it is.
Quiet ==
    /\ UNCHANGED <<order, pubs, attached>>
    /\ \A m \in Messages :
         \/ proj'[m].st = proj[m].st
         \/ /\ proj[m].st \notin {"absent", "projected"}
            /\ \/ proj'[m].st = "failed"
               \/ proj'[m].st = "review" /\ \E h \in OwnHandoffs(m) : hand'[h].st = "review"
    /\ \A h \in Handoffs :
         \/ hand'[h].st = hand[h].st
         \/ /\ hand[h].st \in {"pending", "linking", "failed"}
            /\ hand'[h].st \in {"linking", "failed", "review", "linked"}
            /\ hand'[h].st = "linked" => resv'[Src(h)] = Of(h) /\ pend'[Src(h)] = "staged"
    /\ \A s \in Sources :
         resv[s] # None => resv'[s] = resv[s] /\ (pend[s] = "staged" => pend'[s] = "staged")

\* Such a step keeps the invariants of the rows, the handoffs and the posts.
LEMMA QuietStep ==
    ASSUME IInv, TypeOK', Quiet
    PROVE  RowsInv' /\ HandInv' /\ AttachedInv' /\ PostsInArrivalOrder'
<1> USE DEF IInv
<1>1. OneEach(order) /\ OneEach(order')
  BY DEF TypeOK, RowsInv, OneEach, Quiet
<1>2. RowsInv'
  <2>1. ASSUME NEW m \in Messages, proj'[m].st = "review"
        PROVE  \E h \in OwnHandoffs(m) : hand'[h].st = "review"
    <3>1. CASE proj'[m].st = proj[m].st
      <4>1. PICK h \in OwnHandoffs(m) : hand[h].st = "review"
        BY <3>1, <2>1 DEF RowsInv
      <4> QED BY <4>1 DEF OwnHandoffs, Quiet
    <3> QED BY <3>1, <2>1 DEF Quiet
  <2>2. \A m \in Messages : (proj'[m].st = "absent" <=> proj[m].st = "absent")
                            /\ (proj'[m].st = "projected" <=> proj[m].st = "projected")
    BY DEF Quiet
  <2>3. order' = order /\ pubs' = pubs
    BY DEF Quiet
  <2> QED BY <2>1, <2>2, <2>3 DEF RowsInv, OwnHandoffs
<1>3. HandInv'
  <2> SUFFICES ASSUME NEW h \in Handoffs
               PROVE  /\ hand'[h].st # "absent" <=> proj'[Of(h)].st # "absent"
                      /\ hand'[h].st = "linked" => resv'[Src(h)] = Of(h)
                      /\ hand'[h].st = "linked" /\ proj'[Of(h)].st # "projected" => pend'[Src(h)] = "staged"
                      /\ proj'[Of(h)].st = "projected" => hand'[h].st = "linked"
    BY DEF HandInv
  <2>1. Of(h) \in Messages /\ Src(h) \in Sources /\ Of(h) # None
    BY HandoffFacts, ProjectionConstants
  <2>2. (proj'[Of(h)].st = "absent" <=> proj[Of(h)].st = "absent")
        /\ (proj'[Of(h)].st = "projected" <=> proj[Of(h)].st = "projected")
    BY <2>1 DEF Quiet
  <2>3. CASE hand'[h].st = hand[h].st
    BY <2>1, <2>2, <2>3 DEF HandInv, Quiet
  <2>4. CASE hand'[h].st # hand[h].st
    BY <2>1, <2>2, <2>4 DEF HandInv, Quiet
  <2> QED BY <2>3, <2>4
<1>4. AttachedInv'
  <2>1. \A h \in Handoffs : proj'[Of(h)].st = "projected" <=> proj[Of(h)].st = "projected"
    BY HandoffFacts DEF Quiet
  <2>2. attached' = attached
    BY DEF Quiet
  <2> QED BY <2>1, <2>2 DEF AttachedInv
<1>5. PostsInArrivalOrder'
  <2>1. Blocking' \subseteq Blocking
    <3> SUFFICES ASSUME NEW m \in Messages, m \in Incomplete', ~Torn(m)' PROVE m \in Incomplete /\ ~Torn(m)
      BY DEF Blocking
    <3>1. m \in Range(order) /\ proj'[m].st \in {"pending", "linking", "failed"}
      BY DEF Incomplete, Rows, Quiet
    <3>2. \A h \in OwnHandoffs(m) : hand[h].st = "review" => hand'[h].st = "review"
      BY DEF OwnHandoffs, Quiet
    <3>3. proj[m].st # "review"
      <4> SUFFICES ASSUME proj[m].st = "review" PROVE FALSE
        OBVIOUS
      <4>1. PICK h \in OwnHandoffs(m) : hand[h].st = "review"
        BY DEF RowsInv
      <4>2. proj'[m].st = "failed" /\ hand'[h].st = "review"
        BY <4>1, <3>1, <3>2 DEF Quiet
      <4> QED BY <4>1, <4>2 DEF Torn, OwnHandoffs
    <3>4. ~Torn(m)
      <4> SUFFICES ASSUME Torn(m) PROVE FALSE
        OBVIOUS
      <4>1. proj'[m].st = "failed"
        BY <3>1 DEF Torn, Quiet
      <4> QED BY <4>1, <3>2 DEF Torn, OwnHandoffs
    <3>5. proj[m].st \in {"pending", "linking", "failed"}
      <4>1. proj[m].st \in {"absent", "pending", "linking", "failed", "review", "projected"}
        BY DEF TypeOK, ProjectionRow
      <4> QED BY <4>1, <3>1, <3>3 DEF Quiet
    <3> QED BY <3>1, <3>4, <3>5 DEF Incomplete, Rows
  <2>2. InOrder(order, pubs, Blocking)
    BY <1>1, PostsAre
  <2>3. InOrder(order', pubs', Blocking')
    BY <2>1, <2>2 DEF InOrder, Quiet
  <2> QED BY <1>1, <2>3, PostsWillBe
<1> QED BY <1>2, <1>3, <1>4, <1>5

-----------------------------------------------------------------------------
(* The initial state.                                                      *)

\* The invariant holds of a topic no message has arrived for.
LEMMA InitInv == Init => IInv
<1> SUFFICES ASSUME Init PROVE IInv
  OBVIOUS
<1>1. TypeOK
  <2>1. order \in Seq(Messages) /\ pubs \in Seq(Messages)
    BY DEF Init
  <2>2. proj \in [Messages -> ProjectionRow] /\ hand \in [Handoffs -> HandoffRow]
    BY ProjectionConstants DEF Init, ProjectionRow, HandoffRow, Tokens
  <2>3. pass \in [Passes -> Pass]
    BY DEF Init, Idle, Pass
  <2>4. pend \in [Sources -> {"staged", "gone"}] /\ resv \in [Sources -> Messages \cup {None}]
    BY DEF Init
  <2>5. attached \in [Sources -> Nat] /\ notes \in [Messages -> Nat] /\ recover \subseteq Messages
        /\ faults \in 0..MaxFaults
    BY ProjectionConstants DEF Init
  <2> QED BY <2>1, <2>2, <2>3, <2>4, <2>5 DEF TypeOK
<1>2. Range(order) = {} /\ Range(pubs) = {} /\ DOMAIN order = {} /\ DOMAIN pubs = {}
  BY DEF Init, Range
<1>3. \A m \in Messages : proj[m].st = "absent" /\ proj[m].cst = 0 /\ notes[m] = 0
  BY DEF Init
<1>4. \A h \in Handoffs : hand[h].st = "absent" /\ Of(h) \in Messages
  BY HandoffFacts DEF Init
<1>5. RowsInv
  BY <1>2, <1>3 DEF RowsInv
<1>6. HandInv
  BY <1>3, <1>4 DEF HandInv
<1>7. CompletionInv
  BY <1>3, ProjectionConstants DEF Init, CompletionInv, Announced, Owed
<1>8. AttachedInv
  BY <1>3, <1>4 DEF Init, AttachedInv
<1>9. PassInv
  BY <1>2 DEF Init, PassInv, Idle
<1>10. PostsInArrivalOrder
  BY <1>2 DEF PostsInArrivalOrder
<1> QED BY <1>1, <1>5, <1>6, <1>7, <1>8, <1>9, <1>10 DEF IInv

-----------------------------------------------------------------------------
(* The steps of a pass and of the timers.                                  *)

\* A handoff that is claimed, or may be, is of a row that is not yet published.
LEMMA OpenIsUnpublished ==
    ASSUME IInv, NEW h \in Handoffs, hand[h].st \in {"pending", "linking", "failed"}
    PROVE  /\ Of(h) \in Messages /\ Src(h) \in Sources /\ h \in OwnHandoffs(Of(h))
           /\ proj[Of(h)].st \notin {"absent", "projected"}
BY HandoffFacts DEF IInv, HandInv, OwnHandoffs

\* A pass keeps working on rows that exist when handoffs only move on.
LEMMA PassStep ==
    ASSUME IInv, TypeOK', Quiet,
           recover' \subseteq Range(order),
           \A y \in Passes :
              /\ pass'[y].at = "staging" => pass'[y].h \in Handoffs
              /\ pass'[y].at = "callback" => pass'[y].m \in Messages
              /\ \A h \in pass'[y].todo : hand[h].st # "absent"
    PROVE  PassInv'
<1>1. \A y \in Passes : pass'[y].todo \subseteq Handoffs
  BY DEF TypeOK, Pass
<1>2. \A h \in Handoffs : hand[h].st # "absent" => hand'[h].st # "absent"
  BY DEF Quiet
<1>3. order' = order
  BY DEF Quiet
<1> QED BY <1>1, <1>2, <1>3 DEF PassInv

\* The new state of one row r, of one handoff g or of one pass w.
LEMMA ProjSet ==
    ASSUME TypeOK, NEW m \in Messages, NEW r \in ProjectionRow, proj' = [proj EXCEPT ![m] = r]
    PROVE  /\ proj' \in [Messages -> ProjectionRow] /\ proj'[m] = r
           /\ \A n \in Messages : n # m => proj'[n] = proj[n]
BY DEF TypeOK

\* The type of a handoff whose row changes.
LEMMA HandSet ==
    ASSUME TypeOK, NEW h \in Handoffs, NEW r \in HandoffRow, hand' = [hand EXCEPT ![h] = r]
    PROVE  /\ hand' \in [Handoffs -> HandoffRow] /\ hand'[h] = r
           /\ \A g \in Handoffs : g # h => hand'[g] = hand[g]
BY DEF TypeOK

\* The type of a pass whose record changes.
LEMMA PassSet ==
    ASSUME TypeOK, NEW x \in Passes, NEW w \in Pass, pass' = [pass EXCEPT ![x] = w]
    PROVE  /\ pass' \in [Passes -> Pass] /\ pass'[x] = w
           /\ \A y \in Passes : y # x => pass'[y] = pass[y]
BY DEF TypeOK

\* Recover.
LEMMA RecoverInv == ASSUME IInv, Recover PROVE IInv'
<1> USE DEF IInv
<1>1. OneEach(order) /\ recover \subseteq Range(order) /\ recover # {}
  BY DEF TypeOK, RowsInv, OneEach, PassInv, Recover
<1>2. First(recover) \in recover
  BY <1>1, FirstIsOne
<1>3. PICK m \in recover : m = First(recover)
  BY <1>2
<1>4. m \in Messages /\ proj[m].st # "absent"
  BY <1>1, <1>3 DEF TypeOK, RowsInv
<1> DEFINE w == [pass["due"] EXCEPT !.at = "links",
                    !.todo = {h \in OwnHandoffs(m) : hand[h].st \notin {"linked", "review"}}]
<1>5. pass["due"] \in Pass /\ "due" \in Passes
  BY DEF TypeOK, Passes
<1>6. w \in Pass /\ w.at = "links" /\ w.todo = {h \in OwnHandoffs(m) : hand[h].st \notin {"linked", "review"}}
  BY <1>5 DEF Pass, OwnHandoffs
<1>7. pass' = [pass EXCEPT !["due"] = w] /\ recover' = recover \ {m} /\ UNCHANGED <<store, notes, faults>>
  BY <1>3 DEF Recover
<1>8. \A h \in w.todo : hand[h].st # "absent"
  BY <1>4, <1>6 DEF HandInv, OwnHandoffs
<1> HIDE DEF w
<1>9. pass' \in [Passes -> Pass] /\ pass'["due"] = w /\ \A y \in Passes : y # "due" => pass'[y] = pass[y]
  BY <1>5, <1>6, <1>7, PassSet
<1>10. TypeOK'
  BY <1>7, <1>9 DEF TypeOK, store
<1>11. Quiet
  BY <1>7 DEF Quiet, store
<1>12. PassInv'
  <2>1. recover' \subseteq Range(order)
    BY <1>1, <1>7
  <2>2. ASSUME NEW y \in Passes
        PROVE  /\ pass'[y].at = "staging" => pass'[y].h \in Handoffs
               /\ pass'[y].at = "callback" => pass'[y].m \in Messages
               /\ \A h \in pass'[y].todo : hand[h].st # "absent"
    BY <1>6, <1>8, <1>9 DEF PassInv
  <2> QED BY <2>1, <2>2, <1>10, <1>11, PassStep
<1>13. CompletionInv'
  BY <1>7 DEF CompletionInv, store
<1> QED BY <1>10, <1>11, <1>12, <1>13, QuietStep

\* runDue.
LEMMA RunDueInv == ASSUME IInv, runDue PROVE IInv'
<1> USE DEF IInv
<1>1. \A h \in Handoffs :
        /\ hand'[h] \in HandoffRow
        /\ hand'[h].st = hand[h].st \/ (hand[h].st = "linking" /\ hand'[h].st = "failed")
  <2> SUFFICES ASSUME NEW h \in Handoffs
               PROVE  /\ hand'[h] \in HandoffRow
                      /\ hand'[h].st = hand[h].st \/ (hand[h].st = "linking" /\ hand'[h].st = "failed")
    OBVIOUS
  <2>1. hand[h] \in HandoffRow /\ hand'[h] = ReclaimedHandoffs(h)
    BY DEF TypeOK, runDue
  <2> DEFINE r == [hand[h] EXCEPT !.st = "failed", !.tok = "none", !.ripe = TRUE]
  <2>2. r \in HandoffRow /\ r.st = "failed"
    BY <2>1 DEF HandoffRow, Tokens
  <2>3. (hand'[h] = r /\ hand[h].st = "linking") \/ hand'[h] = hand[h]
    BY <2>1 DEF ReclaimedHandoffs
  <2> HIDE DEF r
  <2> QED BY <2>1, <2>2, <2>3
<1>2. \A m \in Messages :
        /\ proj'[m] \in ProjectionRow
        /\ proj'[m].st = proj[m].st /\ proj'[m].payload = proj[m].payload
        /\ proj'[m] = proj[m] \/ (proj[m].cst = 2 /\ proj[m].tok \notin Passes /\ proj'[m].cst = 1)
  <2> SUFFICES ASSUME NEW m \in Messages
               PROVE  /\ proj'[m] \in ProjectionRow
                      /\ proj'[m].st = proj[m].st /\ proj'[m].payload = proj[m].payload
                      /\ proj'[m] = proj[m] \/ (proj[m].cst = 2 /\ proj[m].tok \notin Passes /\ proj'[m].cst = 1)
    OBVIOUS
  <2>1. proj[m] \in ProjectionRow /\ proj'[m] = ReclaimedCompletions(m)
    BY DEF TypeOK, runDue
  <2> DEFINE r == [proj[m] EXCEPT !.cst = 1, !.tok = "none"]
  <2>2. r \in ProjectionRow /\ r.st = proj[m].st /\ r.payload = proj[m].payload /\ r.cst = 1
    <3>1. 1 \in 0..2 /\ "none" \in Tokens
      BY DEF Tokens
    <3> QED BY <2>1, <3>1 DEF ProjectionRow
  <2>3. (proj'[m] = r /\ proj[m].cst = 2 /\ proj[m].tok = "stale") \/ proj'[m] = proj[m]
    BY <2>1 DEF ReclaimedCompletions, Reclaimable
  <2> HIDE DEF r
  <2> QED BY <2>1, <2>2, <2>3 DEF Passes
<1> DEFINE T == {h \in Handoffs : hand'[h].st \in {"pending", "failed"} /\ hand'[h].ripe}
           w == [pass["due"] EXCEPT !.at = "links", !.todo = T]
<1>3. pass["due"] \in Pass /\ "due" \in Passes /\ pass' = [pass EXCEPT !["due"] = w]
  BY DEF TypeOK, Passes, runDue
<1>4. w \in Pass /\ w.at = "links" /\ w.todo = T
  BY <1>3 DEF Pass
<1>5. \A h \in w.todo : hand[h].st # "absent"
  BY <1>1, <1>4
<1> HIDE DEF w
<1>6. pass' \in [Passes -> Pass] /\ pass'["due"] = w /\ \A y \in Passes : y # "due" => pass'[y] = pass[y]
  BY <1>3, <1>4, PassSet
<1>7. UNCHANGED <<order, pend, resv, pubs, attached, notes, recover, faults>>
  BY DEF runDue
<1>8. TypeOK'
  <2>1. hand' \in [Handoffs -> HandoffRow] /\ proj' \in [Messages -> ProjectionRow]
    BY <1>1, <1>2 DEF runDue
  <2> QED BY <2>1, <1>6, <1>7 DEF TypeOK
<1>9. Quiet
  BY <1>1, <1>2, <1>7 DEF Quiet
<1>10. PassInv'
  <2>1. recover' \subseteq Range(order)
    BY <1>7 DEF PassInv
  <2>2. ASSUME NEW y \in Passes
        PROVE  /\ pass'[y].at = "staging" => pass'[y].h \in Handoffs
               /\ pass'[y].at = "callback" => pass'[y].m \in Messages
               /\ \A h \in pass'[y].todo : hand[h].st # "absent"
    BY <1>4, <1>5, <1>6 DEF PassInv
  <2> QED BY <2>1, <2>2, <1>8, <1>9, PassStep
<1>11. CompletionInv'
  <2> SUFFICES ASSUME NEW m \in Messages PROVE Announced(proj'[m], notes'[m], faults')
    BY DEF CompletionInv
  <2>1. Announced(proj[m], notes[m], faults)
    BY DEF CompletionInv
  <2>2. CASE proj'[m] = proj[m]
    BY <2>1, <2>2, <1>7
  <2>3. CASE proj'[m] # proj[m]
    BY <2>1, <2>3, <1>2, <1>7 DEF Announced, Owed
  <2> QED BY <2>2, <2>3
<1> QED BY <1>8, <1>9, <1>10, <1>11, QuietStep

\* A row that is not published keeps its callback for later when its state changes.
LEMMA NotYetAnnounced ==
    ASSUME IInv, TypeOK', UNCHANGED <<notes, faults>>,
           \A m \in Messages :
              \/ proj'[m] = proj[m]
              \/ /\ proj[m].st # "projected" /\ proj'[m].st # "projected"
                 /\ proj'[m].cst = proj[m].cst
    PROVE  CompletionInv'
<1> SUFFICES ASSUME NEW m \in Messages PROVE Announced(proj'[m], notes'[m], faults')
  BY DEF CompletionInv
<1>1. Announced(proj[m], notes[m], faults) /\ faults \in Nat
  BY ProjectionConstants DEF IInv, CompletionInv, TypeOK
<1>2. CASE proj'[m] = proj[m]
  BY <1>1, <1>2
<1>3. CASE proj'[m] # proj[m]
  BY <1>1, <1>3 DEF Announced, Owed
<1> QED BY <1>2, <1>3

\* What a step does that gives handoff h the state r and puts its row, when it is
\* not to stay as it is, in the state st: the row is not published yet.
LEMMA HandoffStep ==
    ASSUME IInv, NEW h \in Handoffs, hand[h].st \in {"pending", "linking", "failed"},
           NEW r \in HandoffRow, hand' = [hand EXCEPT ![h] = r],
           r.st \in {"linking", "failed", "review", "linked"},
           r.st = "linked" => resv'[Src(h)] = Of(h) /\ pend'[Src(h)] = "staged",
           NEW st \in {"failed", "review"},
           proj' = proj \/ proj' = [proj EXCEPT ![Of(h)].st = st],
           st = "review" => r.st = "review",
           UNCHANGED <<order, pubs, attached, notes, recover, faults>>,
           pend' \in [Sources -> {"staged", "gone"}], resv' \in [Sources -> Messages \cup {None}],
           \A s \in Sources :
              resv[s] # None => resv'[s] = resv[s] /\ (pend[s] = "staged" => pend'[s] = "staged"),
           NEW x \in Passes, NEW w \in Pass, pass' = [pass EXCEPT ![x] = w],
           w.at = "staging" => w.h \in Handoffs, w.at # "callback", w.todo \subseteq pass[x].todo
    PROVE  IInv'
<1> USE DEF IInv
<1> DEFINE m == Of(h)
           q == [proj[m] EXCEPT !.st = st]
<1>1. m \in Messages /\ Src(h) \in Sources /\ h \in OwnHandoffs(m) /\ proj[m].st \notin {"absent", "projected"}
      /\ proj[m] \in ProjectionRow
  BY OpenIsUnpublished DEF TypeOK
<1>2. q \in ProjectionRow /\ q.st = st /\ q.cst = proj[m].cst
  BY <1>1 DEF ProjectionRow
<1>3. proj' = proj \/ proj' = [proj EXCEPT ![m] = q]
  OBVIOUS
<1> HIDE DEF q
<1>4. /\ hand' \in [Handoffs -> HandoffRow] /\ hand'[h] = r
      /\ \A g \in Handoffs : g # h => hand'[g] = hand[g]
  BY HandSet
<1>5. /\ proj' \in [Messages -> ProjectionRow] /\ proj'[m] \in {proj[m], q}
      /\ \A n \in Messages : n # m => proj'[n] = proj[n]
  <2>1. CASE proj' = proj
    BY <2>1 DEF TypeOK
  <2>2. CASE proj' = [proj EXCEPT ![m] = q]
    BY <2>2, <1>1, <1>2, ProjSet
  <2> QED BY <2>1, <2>2, <1>3
<1>6. pass' \in [Passes -> Pass] /\ pass'[x] = w /\ \A y \in Passes : y # x => pass'[y] = pass[y]
  BY PassSet
<1>7. TypeOK'
  BY <1>4, <1>5, <1>6 DEF TypeOK
<1>8. Quiet
  <2>1. ASSUME NEW n \in Messages
        PROVE  \/ proj'[n].st = proj[n].st
               \/ /\ proj[n].st \notin {"absent", "projected"}
                  /\ \/ proj'[n].st = "failed"
                     \/ proj'[n].st = "review" /\ \E g \in OwnHandoffs(n) : hand'[g].st = "review"
    <3>1. CASE n # m \/ proj'[m] = proj[m]
      BY <3>1, <1>5
    <3>2. CASE n = m /\ proj'[m] = q
      BY <3>2, <1>1, <1>2, <1>4
    <3> QED BY <3>1, <3>2, <1>5
  <2>2. ASSUME NEW g \in Handoffs
        PROVE  \/ hand'[g].st = hand[g].st
               \/ /\ hand[g].st \in {"pending", "linking", "failed"}
                  /\ hand'[g].st \in {"linking", "failed", "review", "linked"}
                  /\ hand'[g].st = "linked" => resv'[Src(g)] = Of(g) /\ pend'[Src(g)] = "staged"
    BY <1>4
  <2> QED BY <2>1, <2>2 DEF Quiet
<1>9. PassInv'
  <2>1. recover' \subseteq Range(order)
    BY DEF PassInv
  <2>2. ASSUME NEW y \in Passes
        PROVE  /\ pass'[y].at = "staging" => pass'[y].h \in Handoffs
               /\ pass'[y].at = "callback" => pass'[y].m \in Messages
               /\ \A g \in pass'[y].todo : hand[g].st # "absent"
    BY <1>6 DEF PassInv
  <2> QED BY <2>1, <2>2, <1>7, <1>8, PassStep
<1>10. CompletionInv'
  <2>1. \A n \in Messages :
           \/ proj'[n] = proj[n]
           \/ /\ proj[n].st # "projected" /\ proj'[n].st # "projected"
              /\ proj'[n].cst = proj[n].cst
    BY <1>1, <1>2, <1>5
  <2> QED BY <2>1, <1>7, NotYetAnnounced
<1> QED BY <1>7, <1>8, <1>9, <1>10, QuietStep

\* A step of a pass that only moves the pass, and perhaps stages a source.
LEMMA IdleStep ==
    ASSUME IInv, NEW x \in Passes, NEW w \in Pass, pass' = [pass EXCEPT ![x] = w],
           w.at = "staging" => w.h \in Handoffs, w.at # "callback", w.todo \subseteq pass[x].todo,
           pend' \in [Sources -> {"staged", "gone"}],
           \A s \in Sources : pend[s] = "staged" => pend'[s] = "staged",
           UNCHANGED <<order, proj, hand, resv, pubs, attached, notes, recover, faults>>
    PROVE  IInv'
<1> USE DEF IInv
<1>1. pass' \in [Passes -> Pass] /\ pass'[x] = w /\ \A y \in Passes : y # x => pass'[y] = pass[y]
  BY PassSet
<1>2. TypeOK'
  BY <1>1 DEF TypeOK
<1>3. Quiet
  BY DEF Quiet
<1>4. PassInv'
  <2>1. recover' \subseteq Range(order)
    BY DEF PassInv
  <2>2. ASSUME NEW y \in Passes
        PROVE  /\ pass'[y].at = "staging" => pass'[y].h \in Handoffs
               /\ pass'[y].at = "callback" => pass'[y].m \in Messages
               /\ \A g \in pass'[y].todo : hand[g].st # "absent"
    BY <1>1 DEF PassInv
  <2> QED BY <2>1, <2>2, <1>2, <1>3, PassStep
<1>5. CompletionInv'
  BY <1>2, NotYetAnnounced
<1> QED BY <1>2, <1>3, <1>4, <1>5, QuietStep

\* claimAttachmentHandoff.
LEMMA ClaimHandoffInv == ASSUME IInv, NEW x \in Passes, claimAttachmentHandoff(x) PROVE IInv'
<1> USE DEF IInv
<1>1. OneEach(order) /\ pass[x] \in Pass /\ pass[x].todo \in SUBSET Handoffs /\ pass[x].todo # {}
      /\ pass[x].at = "links"
  BY DEF TypeOK, RowsInv, OneEach, claimAttachmentHandoff, Pass
<1>2. \A h \in pass[x].todo : Of(h) \in Range(order)
  BY <1>1, HandoffFacts DEF PassInv, HandInv, RowsInv
<1>3. PICK h \in pass[x].todo : h = FirstHandoff(pass[x].todo)
  BY <1>1, <1>2, FirstHandoffIsOne
<1>4. h \in Handoffs /\ Of(h) \in Messages /\ Src(h) \in Sources /\ hand[h] \in HandoffRow /\ Of(h) # None
  BY <1>1, <1>3, HandoffFacts, ProjectionConstants DEF TypeOK
<1> DEFINE claimed == [hand[h] EXCEPT !.st = "linking", !.tok = x, !.tries = Least(@ + 1)]
           refused == [claimed EXCEPT !.st = "review", !.tok = "none"]
           named == Ref(h).kind # "artifact"
           owner == IF named /\ pend[Src(h)] = "staged" THEN Owner(h) ELSE resv[Src(h)]
           w == [pass[x] EXCEPT !.todo = @ \ {h}]
           v == [w EXCEPT !.at = "staging", !.h = h]
           rest == [pass EXCEPT ![x].todo = @ \ {h}]
<1>5. w \in Pass /\ w.at = "links" /\ w.todo \subseteq pass[x].todo
  BY <1>1 DEF Pass
<1>6. v \in Pass /\ v.at = "staging" /\ v.h = h /\ v.todo = w.todo
  BY <1>4, <1>5 DEF Pass
<1>7. claimed \in HandoffRow /\ claimed.st = "linking"
  <2>1. Least(hand[h].tries + 1) \in 0..MaxTries
    BY <1>4, ProjectionConstants DEF HandoffRow, Least
  <2>2. x \in Tokens
    BY DEF Tokens
  <2> QED BY <2>1, <2>2, <1>4 DEF HandoffRow
<1>8. refused \in HandoffRow /\ refused.st = "review"
  BY <1>7 DEF HandoffRow, Tokens
<1>9. rest = [pass EXCEPT ![x] = w] /\ [rest EXCEPT ![x].at = "staging", ![x].h = h] = [pass EXCEPT ![x] = v]
  BY DEF TypeOK
<1>10. UNCHANGED <<notes, recover, faults>> /\
       IF ~(Open(h) /\ hand[h].ripe)
            THEN pass' = rest /\ UNCHANGED store
            ELSE /\ resv' = IF named THEN [resv EXCEPT ![Src(h)] = owner] ELSE resv
                 /\ IF named /\ owner \notin {None, Of(h)}
                      THEN /\ hand' = [hand EXCEPT ![h] = refused]
                           /\ proj' = [proj EXCEPT ![Of(h)].st = "review"]
                           /\ pass' = rest
                      ELSE /\ hand' = [hand EXCEPT ![h] = claimed]
                           /\ pass' = [rest EXCEPT ![x].at = "staging", ![x].h = h]
                           /\ UNCHANGED proj
                 /\ UNCHANGED <<order, pend, pubs, attached>>
  BY <1>3, Zenon DEF claimAttachmentHandoff
<1>11. owner \in Messages \cup {None} /\ (resv[Src(h)] # None => owner = resv[Src(h)])
  BY <1>4 DEF Owner, TypeOK
<1> HIDE DEF claimed, refused, named, owner, w, v, rest
<1>12. CASE ~(Open(h) /\ hand[h].ripe)
  <2>1. pass' = [pass EXCEPT ![x] = w] /\ pend' = pend
        /\ UNCHANGED <<order, proj, hand, resv, pubs, attached, notes, recover, faults>>
    BY <1>9, <1>10, <1>12 DEF store
  <2> QED BY <2>1, <1>5, IdleStep DEF TypeOK
<1>13. CASE Open(h) /\ hand[h].ripe
  <2>1. hand[h].st \in {"pending", "linking", "failed"}
    BY <1>13 DEF Open
  <2>2. /\ UNCHANGED <<order, pubs, attached, notes, recover, faults>> /\ pend' = pend
        /\ resv' = resv \/ resv' = [resv EXCEPT ![Src(h)] = owner]
    BY <1>10, <1>13
  <2>3. pend' \in [Sources -> {"staged", "gone"}] /\ resv' \in [Sources -> Messages \cup {None}]
    BY <2>2, <1>11 DEF TypeOK
  <2>4. \A s \in Sources : resv[s] # None => resv'[s] = resv[s] /\ (pend[s] = "staged" => pend'[s] = "staged")
    BY <2>2, <1>4, <1>11 DEF TypeOK
  <2>5. CASE named /\ owner \notin {None, Of(h)}
    <3>1. hand' = [hand EXCEPT ![h] = refused] /\ proj' = [proj EXCEPT ![Of(h)].st = "review"]
          /\ pass' = [pass EXCEPT ![x] = w]
      BY <2>5, <1>9, <1>10, <1>13
    <3>2. "review" \in {"failed", "review"} /\ refused.st \in {"linking", "failed", "review", "linked"}
          /\ refused.st # "linked"
      BY <1>8
    <3> QED BY <3>1, <3>2, <2>1, <2>2, <2>3, <2>4, <1>4, <1>5, <1>8, HandoffStep
  <2>6. CASE ~(named /\ owner \notin {None, Of(h)})
    <3>1. hand' = [hand EXCEPT ![h] = claimed] /\ proj' = proj /\ pass' = [pass EXCEPT ![x] = v]
      BY <2>6, <1>9, <1>10, <1>13
    <3>2. "failed" \in {"failed", "review"} /\ claimed.st \in {"linking", "failed", "review", "linked"}
          /\ claimed.st # "linked"
      BY <1>7
    <3>3. v.at # "callback" /\ v.todo \subseteq pass[x].todo /\ v.h \in Handoffs
      BY <1>4, <1>5, <1>6
    <3> QED BY <3>1, <3>2, <3>3, <2>1, <2>2, <2>3, <2>4, <1>4, <1>6, <1>7, HandoffStep
  <2> QED BY <2>5, <2>6
<1> QED BY <1>12, <1>13

\* completeAttachmentHandoff.
LEMMA CompleteHandoffInv == ASSUME IInv, NEW x \in Passes, completeAttachmentHandoff(x) PROVE IInv'
<1> USE DEF IInv
<1>1. pass[x] \in Pass /\ pass[x].at = "staging" /\ pass[x].h \in Handoffs
  BY DEF TypeOK, PassInv, completeAttachmentHandoff
<1>2. PICK h \in Handoffs : h = pass[x].h
  BY <1>1
<1>3. Of(h) \in Messages /\ Src(h) \in Sources /\ hand[h] \in HandoffRow /\ Of(h) # None
  BY HandoffFacts, ProjectionConstants DEF TypeOK
<1> DEFINE w == [pass[x] EXCEPT !.at = "links", !.h = None]
           linked == [hand[h] EXCEPT !.st = "linked", !.tok = "none"]
           refused == [hand[h] EXCEPT !.st = "review", !.tok = "none"]
<1>4. w \in Pass /\ w.at = "links" /\ w.todo = pass[x].todo /\ pass' = [pass EXCEPT ![x] = w]
  BY <1>1 DEF Pass, completeAttachmentHandoff, BackToLinks, TypeOK
<1>5. linked \in HandoffRow /\ linked.st = "linked" /\ refused \in HandoffRow /\ refused.st = "review"
  BY <1>3 DEF HandoffRow, Tokens
<1>6. /\ pend' = [pend EXCEPT ![Src(h)] = "staged"]
      /\ resv' = IF Claims(x) THEN [resv EXCEPT ![Src(h)] = Owner(h)] ELSE resv
      /\ IF ~Claims(x) THEN UNCHANGED <<hand, proj>>
         ELSE IF Owner(h) # Of(h)
              THEN hand' = [hand EXCEPT ![h] = refused] /\ proj' = [proj EXCEPT ![Of(h)].st = "review"]
              ELSE hand' = [hand EXCEPT ![h] = linked] /\ UNCHANGED proj
      /\ UNCHANGED <<order, pubs, attached, notes, recover, faults>>
  BY <1>2 DEF completeAttachmentHandoff, Conflict
<1>7. Owner(h) \in Messages \cup {None} /\ (resv[Src(h)] # None => Owner(h) = resv[Src(h)])
  BY <1>3 DEF Owner, TypeOK
<1> HIDE DEF w, linked, refused
<1>8. /\ pend' \in [Sources -> {"staged", "gone"}] /\ pend'[Src(h)] = "staged"
      /\ \A s \in Sources : pend[s] = "staged" => pend'[s] = "staged"
  BY <1>3, <1>6 DEF TypeOK
<1>9. CASE ~Claims(x)
  <2>1. UNCHANGED <<order, proj, hand, resv, pubs, attached, notes, recover, faults>>
    BY <1>6, <1>9
  <2> QED BY <2>1, <1>4, <1>8, IdleStep
<1>10. CASE Claims(x)
  <2>1. hand[h].st \in {"pending", "linking", "failed"}
    BY <1>10, <1>2 DEF Claims
  <2>2. resv' = [resv EXCEPT ![Src(h)] = Owner(h)] /\ UNCHANGED <<order, pubs, attached, notes, recover, faults>>
    BY <1>6, <1>10
  <2>3. resv' \in [Sources -> Messages \cup {None}] /\ resv'[Src(h)] = Owner(h)
    BY <2>2, <1>3, <1>7 DEF TypeOK
  <2>4. \A s \in Sources : resv[s] # None => resv'[s] = resv[s] /\ (pend[s] = "staged" => pend'[s] = "staged")
    BY <2>2, <1>3, <1>7, <1>8 DEF TypeOK
  <2>5. CASE Owner(h) # Of(h)
    <3>1. hand' = [hand EXCEPT ![h] = refused] /\ proj' = [proj EXCEPT ![Of(h)].st = "review"]
      BY <2>5, <1>6, <1>10
    <3>2. "review" \in {"failed", "review"} /\ refused.st \in {"linking", "failed", "review", "linked"}
          /\ refused.st # "linked"
      BY <1>5
    <3> QED BY <3>1, <3>2, <2>1, <2>2, <2>3, <2>4, <1>4, <1>5, <1>8, HandoffStep
  <2>6. CASE Owner(h) = Of(h)
    <3>1. hand' = [hand EXCEPT ![h] = linked] /\ proj' = proj
      BY <2>6, <1>6, <1>10
    <3>2. "failed" \in {"failed", "review"} /\ linked.st \in {"linking", "failed", "review", "linked"}
          /\ resv'[Src(h)] = Of(h)
      BY <1>5, <2>3, <2>6
    <3> QED BY <3>1, <3>2, <2>1, <2>2, <2>3, <2>4, <1>4, <1>5, <1>8, HandoffStep
  <2> QED BY <2>5, <2>6
<1> QED BY <1>9, <1>10

\* failAttachmentHandoff.
LEMMA FailHandoffInv == ASSUME IInv, NEW x \in Passes, failAttachmentHandoff(x) PROVE IInv'
<1> USE DEF IInv
<1>1. pass[x] \in Pass /\ pass[x].at = "staging" /\ pass[x].h \in Handoffs
  BY DEF TypeOK, PassInv, failAttachmentHandoff
<1>2. PICK h \in Handoffs : h = pass[x].h
  BY <1>1
<1>3. Of(h) \in Messages /\ Src(h) \in Sources /\ hand[h] \in HandoffRow
  BY HandoffFacts DEF TypeOK
<1> DEFINE w == [pass[x] EXCEPT !.at = "links", !.h = None]
<1>4. w \in Pass /\ w.at = "links" /\ w.todo = pass[x].todo /\ pass' = [pass EXCEPT ![x] = w]
  BY <1>1 DEF Pass, failAttachmentHandoff, BackToLinks, TypeOK
<1> HIDE DEF w
<1>5. UNCHANGED <<order, pend, resv, pubs, attached, notes, recover, faults>>
  BY DEF failAttachmentHandoff
<1>6. pend' \in [Sources -> {"staged", "gone"}] /\ resv' \in [Sources -> Messages \cup {None}]
      /\ \A s \in Sources : resv[s] # None => resv'[s] = resv[s] /\ (pend[s] = "staged" => pend'[s] = "staged")
  BY <1>5 DEF TypeOK
<1>7. CASE ~Claims(x)
  <2>1. UNCHANGED <<proj, hand>>
    BY <1>7 DEF failAttachmentHandoff
  <2> QED BY <2>1, <1>4, <1>5, <1>6, IdleStep
<1>8. CASE Claims(x)
  <2>1. hand[h].st \in {"pending", "linking", "failed"}
    BY <1>8, <1>2 DEF Claims
  <2>2. PICK terminal \in BOOLEAN :
          /\ hand' = [hand EXCEPT ![h].st = IF terminal THEN "review" ELSE "failed",
                                  ![h].tok = "none", ![h].ripe = terminal]
          /\ proj' = [proj EXCEPT ![Of(h)].st = IF terminal THEN "review" ELSE "failed"]
    BY <1>8, <1>2, Zenon DEF failAttachmentHandoff
  <2> DEFINE st == IF terminal THEN "review" ELSE "failed"
             r == [hand[h] EXCEPT !.st = st, !.tok = "none", !.ripe = terminal]
  <2>3. st \in {"failed", "review"}
    OBVIOUS
  <2>4. hand' = [hand EXCEPT ![h] = r] /\ proj' = [proj EXCEPT ![Of(h)].st = st]
    BY <2>2 DEF TypeOK
  <2> HIDE DEF st
  <2>5. r \in HandoffRow /\ r.st = st
    BY <2>3, <1>3 DEF HandoffRow, Tokens
  <2> HIDE DEF r
  <2>6. r.st \in {"linking", "failed", "review", "linked"} /\ r.st # "linked" /\ (st = "review" => r.st = "review")
    BY <2>3, <2>5
  <2> QED BY <2>1, <2>3, <2>4, <2>5, <2>6, <1>4, <1>5, <1>6, HandoffStep
<1> QED BY <1>7, <1>8

\* Ripen.
LEMMA RipenInv == ASSUME IInv, NEW h \in Handoffs, Ripen(h) PROVE IInv'
<1> USE DEF IInv
<1> DEFINE r == [hand[h] EXCEPT !.ripe = TRUE]
<1>1. hand[h] \in HandoffRow /\ hand' = [hand EXCEPT ![h] = r]
  BY DEF TypeOK, Ripen
<1>2. r \in HandoffRow /\ r.st = hand[h].st
  BY <1>1 DEF HandoffRow
<1> HIDE DEF r
<1>3. UNCHANGED <<order, proj, pend, resv, pubs, attached, notes, pass, recover, faults>>
  BY DEF Ripen
<1>4. hand' \in [Handoffs -> HandoffRow] /\ \A g \in Handoffs : hand'[g].st = hand[g].st
  BY <1>1, <1>2, HandSet
<1>5. TypeOK'
  BY <1>3, <1>4 DEF TypeOK
<1>6. Quiet
  BY <1>3, <1>4 DEF Quiet
<1>7. PassInv'
  BY <1>3, <1>5, <1>6, PassStep DEF PassInv
<1>8. CompletionInv'
  BY <1>3, <1>5, NotYetAnnounced
<1> QED BY <1>5, <1>6, <1>7, <1>8, QuietStep

\* deleteExpiredPendingAttachments.
LEMMA DeleteInv == ASSUME IInv, NEW s \in Sources, deleteExpiredPendingAttachments(s) PROVE IInv'
<1> USE DEF IInv
<1>1. UNCHANGED <<order, proj, hand, resv, pubs, attached, notes, pass, recover, faults>>
      /\ pend' = [pend EXCEPT ![s] = "gone"] /\ resv[s] = None
  BY DEF deleteExpiredPendingAttachments, Protected
<1>2. TypeOK'
  BY <1>1 DEF TypeOK
<1>3. Quiet
  BY <1>1 DEF Quiet, TypeOK
<1>4. PassInv'
  BY <1>1, <1>2, <1>3, PassStep DEF PassInv
<1>5. CompletionInv'
  BY <1>1, <1>2, NotYetAnnounced
<1> QED BY <1>2, <1>3, <1>4, <1>5, QuietStep

\* A step of pass x with the callback of m: the row keeps its state, what is owed
\* is not more than what the faults allow, and the pass goes on or ends.
LEMMA CallbackStep ==
    ASSUME IInv, NEW m \in Messages, NEW r \in ProjectionRow, proj' = [proj EXCEPT ![m] = r],
           r.st = proj[m].st, notes' \in [Messages -> Nat], faults' \in 0..MaxFaults, faults <= faults',
           Announced(r, notes'[m], faults'), \A n \in Messages : n # m => notes'[n] = notes[n],
           UNCHANGED <<order, hand, pend, resv, pubs, attached, recover>>,
           NEW x \in Passes, NEW w \in Pass, pass' = [pass EXCEPT ![x] = w],
           w.at # "staging", w.at = "callback" => w.m \in Messages, w.todo \subseteq pass[x].todo
    PROVE  IInv'
<1> USE DEF IInv
<1>1. /\ proj' \in [Messages -> ProjectionRow] /\ proj'[m] = r
      /\ \A n \in Messages : n # m => proj'[n] = proj[n]
  BY ProjSet
<1>2. pass' \in [Passes -> Pass] /\ pass'[x] = w /\ \A y \in Passes : y # x => pass'[y] = pass[y]
  BY PassSet
<1>3. TypeOK'
  BY <1>1, <1>2 DEF TypeOK
<1>4. Quiet
  BY <1>1 DEF Quiet
<1>5. PassInv'
  <2>1. recover' \subseteq Range(order)
    BY DEF PassInv
  <2>2. ASSUME NEW y \in Passes
        PROVE  /\ pass'[y].at = "staging" => pass'[y].h \in Handoffs
               /\ pass'[y].at = "callback" => pass'[y].m \in Messages
               /\ \A g \in pass'[y].todo : hand[g].st # "absent"
    BY <1>2 DEF PassInv
  <2> QED BY <2>1, <2>2, <1>3, <1>4, PassStep
<1>6. CompletionInv'
  <2> SUFFICES ASSUME NEW n \in Messages PROVE Announced(proj'[n], notes'[n], faults')
    BY DEF CompletionInv
  <2>1. Announced(proj[n], notes[n], faults) /\ faults \in Nat /\ faults' \in Nat /\ notes[n] \in Nat
    BY ProjectionConstants DEF CompletionInv, TypeOK
  <2>2. CASE n = m
    BY <2>2, <1>1
  <2>3. CASE n # m
    BY <2>1, <2>3, <1>1 DEF Announced
  <2> QED BY <2>2, <2>3
<1> QED BY <1>3, <1>4, <1>5, <1>6, QuietStep

\* claimAssistantProjectionCompletion.
LEMMA ClaimCallbackInv == ASSUME IInv, NEW x \in Passes, claimAssistantProjectionCompletion(x) PROVE IInv'
<1> USE DEF IInv
<1>1. pass[x] \in Pass /\ pass[x].at \in {"links", "deliver"} /\ OneEach(order) /\ Range(order) \subseteq Messages
  BY DEF TypeOK, claimAssistantProjectionCompletion, OneEach, RowsInv, Range
<1>2. UNCHANGED <<order, hand, pend, resv, pubs, attached, recover, faults>>
  BY DEF claimAssistantProjectionCompletion
<1>3. CASE \E m \in Rows : Claimable(m)
  <2> DEFINE S == {n \in Rows : Claimable(n)}
  <2>1. S # {} /\ S \subseteq Range(order)
    BY <1>3 DEF Rows
  <2> HIDE DEF S
  <2>2. PICK m \in S : m = First(S)
    BY <2>1, <1>1, FirstIsOne
  <2> DEFINE r == [proj[m] EXCEPT !.cst = 2, !.tok = x]
             w == [pass[x] EXCEPT !.at = "callback", !.m = m]
  <2>3. proj' = [proj EXCEPT ![m].cst = 2, ![m].tok = x] /\ notes' = [notes EXCEPT ![m] = @ + 1]
        /\ pass' = [pass EXCEPT ![x].at = "callback", ![x].m = m]
    BY <1>3, <2>2, Zenon DEF claimAssistantProjectionCompletion, S
  <2>4. m \in Messages /\ proj[m].st = "projected" /\ proj[m].cst = 1 /\ proj[m] \in ProjectionRow
    BY <2>1, <2>2, <1>1 DEF S, Claimable, TypeOK
  <2>5. proj' = [proj EXCEPT ![m] = r] /\ pass' = [pass EXCEPT ![x] = w]
    BY <2>3 DEF TypeOK
  <2>6. r \in ProjectionRow /\ r.st = proj[m].st /\ r.payload = proj[m].payload /\ r.cst = 2 /\ r.tok = x
    <3>1. 2 \in 0..2 /\ x \in Tokens
      BY DEF Tokens
    <3> QED BY <3>1, <2>4 DEF ProjectionRow
  <2>7. w \in Pass /\ w.at = "callback" /\ w.m = m /\ w.todo = pass[x].todo
    BY <2>4, <1>1 DEF Pass
  <2> HIDE DEF r, w
  <2>8. notes' \in [Messages -> Nat] /\ notes'[m] = notes[m] + 1 /\ \A n \in Messages : n # m => notes'[n] = notes[n]
        /\ notes[m] \in Nat /\ faults \in Nat
    BY <2>3, <2>4, ProjectionConstants DEF TypeOK
  <2>9. Announced(r, notes'[m], faults')
    <3>1. Announced(proj[m], notes[m], faults)
      BY <2>4 DEF CompletionInv
    <3>2. ~Owed(r) /\ Owed(proj[m])
      BY <2>4, <2>6 DEF Owed
    <3>3. r.payload = TRUE
      BY <3>1, <2>4, <2>6 DEF Announced, ProjectionRow
    <3> QED BY <3>1, <3>2, <3>3, <2>4, <2>6, <2>8, <1>2 DEF Announced
  <2>10. faults' \in 0..MaxFaults /\ faults <= faults'
    BY <2>8, <1>2 DEF TypeOK
  <2> QED BY <2>4, <2>5, <2>6, <2>7, <2>8, <2>9, <2>10, <1>2, CallbackStep
<1>4. CASE ~\E m \in Rows : Claimable(m)
  <2>1. pass' = [pass EXCEPT ![x] = Idle] /\ UNCHANGED <<proj, notes>>
    BY <1>4 DEF claimAssistantProjectionCompletion
  <2>2. Idle \in Pass /\ Idle.at = "idle" /\ Idle.todo = {}
    BY DEF Idle, Pass
  <2> QED BY <2>1, <2>2, <1>2, IdleStep DEF TypeOK
<1> QED BY <1>3, <1>4

\* What a pass that comes back from a callback writes to the row.
LEMMA SettledFacts ==
    ASSUME IInv, NEW x \in Passes, pass[x].at = "callback", NEW cst \in 0..1, Settled(x, cst)
    PROVE  \E m \in Messages, r \in ProjectionRow :
              /\ m = pass[x].m /\ proj' = [proj EXCEPT ![m] = r] /\ r.st = proj[m].st
              /\ \/ r = proj[m]
                 \/ /\ proj[m].cst = 2 /\ proj[m].tok \in Passes
                    /\ r.payload = proj[m].payload /\ r.cst = cst
<1> USE DEF IInv
<1>1. PICK m \in Messages : m = pass[x].m
  BY DEF PassInv
<1> DEFINE q == [proj[m] EXCEPT !.cst = cst, !.tok = "none"]
           r == IF proj[m].cst = 2 /\ proj[m].tok = x THEN q ELSE proj[m]
<1>2. proj[m] \in ProjectionRow
  BY DEF TypeOK
<1>3. q \in ProjectionRow /\ q.st = proj[m].st /\ q.payload = proj[m].payload /\ q.cst = cst
  <2>1. cst \in 0..2 /\ "none" \in Tokens
    BY DEF Tokens
  <2> QED BY <2>1, <1>2 DEF ProjectionRow
<1>4. proj' = [proj EXCEPT ![m] = r]
  BY <1>1 DEF Settled, TypeOK
<1> HIDE DEF q
<1>5. r \in ProjectionRow /\ r.st = proj[m].st
      /\ (r = proj[m] \/ (proj[m].cst = 2 /\ proj[m].tok \in Passes /\ r.payload = proj[m].payload /\ r.cst = cst))
  BY <1>2, <1>3
<1> HIDE DEF r
<1> QED BY <1>1, <1>4, <1>5

\* completeAssistantProjectionCompletion.
LEMMA CompleteCallbackInv ==
    ASSUME IInv, NEW x \in Passes, completeAssistantProjectionCompletion(x) PROVE IInv'
<1> USE DEF IInv
<1>1. pass[x] \in Pass /\ pass[x].at = "callback" /\ Settled(x, 0)
      /\ UNCHANGED <<order, hand, pend, resv, pubs, attached, notes, recover, faults>>
  BY DEF TypeOK, completeAssistantProjectionCompletion
<1>2. PICK m \in Messages, r \in ProjectionRow :
        /\ proj' = [proj EXCEPT ![m] = r] /\ r.st = proj[m].st
        /\ \/ r = proj[m]
           \/ /\ proj[m].cst = 2 /\ proj[m].tok \in Passes
              /\ r.payload = proj[m].payload /\ r.cst = 0
  BY <1>1, SettledFacts
<1> DEFINE w == [pass[x] EXCEPT !.at = "deliver", !.m = None]
<1>3. w \in Pass /\ w.at = "deliver" /\ w.todo = pass[x].todo /\ pass' = [pass EXCEPT ![x] = w]
  BY <1>1 DEF Pass, completeAssistantProjectionCompletion, TypeOK
<1> HIDE DEF w
<1>4. notes[m] \in Nat /\ faults \in Nat /\ notes' \in [Messages -> Nat] /\ faults' \in 0..MaxFaults /\ faults <= faults'
      /\ Announced(proj[m], notes[m], faults)
  BY <1>1, ProjectionConstants DEF TypeOK, CompletionInv
<1>5. Announced(r, notes'[m], faults')
  <2>1. CASE r = proj[m]
    BY <2>1, <1>1, <1>4
  <2>2. CASE r # proj[m]
    BY <2>2, <1>1, <1>2, <1>4 DEF Announced, Owed
  <2> QED BY <2>1, <2>2
<1> QED BY <1>1, <1>2, <1>3, <1>4, <1>5, CallbackStep

\* releaseAssistantProjectionCompletion.
LEMMA ReleaseCallbackInv ==
    ASSUME IInv, NEW x \in Passes, releaseAssistantProjectionCompletion(x) PROVE IInv'
<1> USE DEF IInv
<1>1. pass[x].at = "callback" /\ Settled(x, 1) /\ faults < MaxFaults /\ faults' = faults + 1
      /\ UNCHANGED <<order, hand, pend, resv, pubs, attached, notes, recover>>
      /\ pass' = [pass EXCEPT ![x] = Idle]
  BY DEF releaseAssistantProjectionCompletion
<1>2. PICK m \in Messages, r \in ProjectionRow :
        /\ proj' = [proj EXCEPT ![m] = r] /\ r.st = proj[m].st
        /\ \/ r = proj[m]
           \/ /\ proj[m].cst = 2 /\ proj[m].tok \in Passes
              /\ r.payload = proj[m].payload /\ r.cst = 1
  BY <1>1, SettledFacts
<1>3. Idle \in Pass /\ Idle.at = "idle" /\ Idle.todo = {}
  BY DEF Idle, Pass
<1>4. notes[m] \in Nat /\ faults \in Nat /\ notes' \in [Messages -> Nat] /\ faults' \in 0..MaxFaults /\ faults <= faults'
      /\ Announced(proj[m], notes[m], faults)
  BY <1>1, ProjectionConstants DEF TypeOK, CompletionInv
<1>5. Announced(r, notes'[m], faults')
  <2>1. CASE r = proj[m]
    BY <2>1, <1>1, <1>4 DEF Announced
  <2>2. CASE r # proj[m]
    BY <2>2, <1>1, <1>2, <1>4 DEF Announced, Owed
  <2> QED BY <2>1, <2>2
<1> QED BY <1>1, <1>2, <1>3, <1>4, <1>5, CallbackStep

-----------------------------------------------------------------------------
(* The forum dies; a lease ends.                                           *)

\* The row r with another token, which makes it no less owed.
Retoken(r, q) == q.st = r.st /\ q.payload = r.payload /\ q.cst = r.cst

\* Crash.
LEMMA CrashInv == ASSUME IInv, Crash PROVE IInv'
<1> USE DEF IInv
<1>1. \A h \in Handoffs : hand'[h] \in HandoffRow /\ hand'[h].st = hand[h].st
  <2> SUFFICES ASSUME NEW h \in Handoffs PROVE hand'[h] \in HandoffRow /\ hand'[h].st = hand[h].st
    OBVIOUS
  <2> DEFINE t == IF hand[h].tok \in Passes THEN "dead" ELSE hand[h].tok
  <2>1. hand[h] \in HandoffRow /\ hand'[h] = [hand[h] EXCEPT !.tok = t]
    BY DEF TypeOK, Crash
  <2>2. t \in Tokens
    BY <2>1 DEF HandoffRow, Tokens
  <2> HIDE DEF t
  <2> QED BY <2>1, <2>2 DEF HandoffRow
<1>2. \A m \in Messages : proj'[m] \in ProjectionRow /\ Retoken(proj[m], proj'[m])
  <2> SUFFICES ASSUME NEW m \in Messages PROVE proj'[m] \in ProjectionRow /\ Retoken(proj[m], proj'[m])
    OBVIOUS
  <2> DEFINE t == IF proj[m].tok \in Passes THEN "dead" ELSE proj[m].tok
  <2>1. proj[m] \in ProjectionRow /\ proj'[m] = [proj[m] EXCEPT !.tok = t]
    BY DEF TypeOK, Crash
  <2>2. t \in Tokens
    BY <2>1 DEF ProjectionRow, Tokens
  <2> HIDE DEF t
  <2> QED BY <2>1, <2>2 DEF ProjectionRow, Retoken
<1>3. faults' = faults + 1 /\ faults \in Nat /\ faults' \in 0..MaxFaults /\ recover' = Incomplete
      /\ pass' = [y \in Passes |-> Idle] /\ UNCHANGED <<order, pend, resv, pubs, attached, notes>>
  BY ProjectionConstants DEF Crash, TypeOK
<1>4. Idle \in Pass /\ Idle.at = "idle" /\ Idle.todo = {}
  BY DEF Idle, Pass
<1>5. recover' \subseteq Range(order) /\ Range(order) \subseteq Messages
  BY <1>3 DEF Incomplete, Rows, TypeOK, Range
<1>6. TypeOK'
  <2>1. hand' \in [Handoffs -> HandoffRow] /\ proj' \in [Messages -> ProjectionRow]
    BY <1>1, <1>2 DEF Crash
  <2>2. pass' \in [Passes -> Pass]
    BY <1>3, <1>4
  <2> QED BY <2>1, <2>2, <1>3, <1>5 DEF TypeOK
<1>7. Quiet
  BY <1>1, <1>2, <1>3 DEF Quiet, Retoken
<1>8. PassInv'
  <2>1. \A y \in Passes : pass'[y] = Idle
    BY <1>3
  <2> QED BY <2>1, <1>4, <1>5, <1>6, <1>7, PassStep
<1>9. CompletionInv'
  <2> SUFFICES ASSUME NEW m \in Messages PROVE Announced(proj'[m], notes'[m], faults')
    BY DEF CompletionInv
  <2>1. Announced(proj[m], notes[m], faults) /\ notes[m] \in Nat
    BY DEF CompletionInv, TypeOK
  <2>2. notes'[m] = notes[m] /\ Retoken(proj[m], proj'[m])
    BY <1>2, <1>3
  <2>3. CASE proj[m].cst = 0
    BY <2>1, <2>2, <2>3, <1>3 DEF Announced, Owed, Retoken
  <2>4. CASE proj[m].cst # 0
    BY <2>1, <2>2, <2>4, <1>3 DEF Announced, Owed, Retoken
  <2> QED BY <2>3, <2>4
<1> QED BY <1>6, <1>7, <1>8, <1>9, QuietStep

\* LeaseEnds.
LEMMA LeaseEndsInv == ASSUME IInv, LeaseEnds PROVE IInv'
<1> USE DEF IInv
<1>1. UNCHANGED <<order, pend, resv, pubs, attached, notes, pass, recover, faults>>
  BY DEF LeaseEnds
<1>2. "stale" \in Tokens
  BY DEF Tokens
<1>3. CASE \E h \in Handoffs : hand[h].tok = "dead" /\ hand' = [hand EXCEPT ![h].tok = "stale"] /\ UNCHANGED proj
  <2>1. PICK h \in Handoffs : hand' = [hand EXCEPT ![h].tok = "stale"] /\ proj' = proj
    BY <1>3
  <2> DEFINE r == [hand[h] EXCEPT !.tok = "stale"]
  <2>2. hand' = [hand EXCEPT ![h] = r] /\ r \in HandoffRow /\ r.st = hand[h].st
    BY <2>1, <1>2 DEF TypeOK, HandoffRow
  <2> HIDE DEF r
  <2>3. hand' \in [Handoffs -> HandoffRow] /\ \A g \in Handoffs : hand'[g].st = hand[g].st
    BY <2>2, HandSet
  <2>4. TypeOK'
    BY <2>1, <2>3, <1>1 DEF TypeOK
  <2>5. Quiet
    BY <2>1, <2>3, <1>1 DEF Quiet
  <2>6. PassInv'
    BY <2>4, <2>5, <1>1, PassStep DEF PassInv
  <2>7. CompletionInv'
    BY <2>1, <2>4, <1>1, NotYetAnnounced
  <2> QED BY <2>4, <2>5, <2>6, <2>7, QuietStep
<1>4. CASE \E m \in Messages : proj[m].tok = "dead" /\ proj' = [proj EXCEPT ![m].tok = "stale"] /\ UNCHANGED hand
  <2>1. PICK m \in Messages : proj[m].tok = "dead" /\ proj' = [proj EXCEPT ![m].tok = "stale"] /\ hand' = hand
    BY <1>4
  <2> DEFINE r == [proj[m] EXCEPT !.tok = "stale"]
  <2>2. proj' = [proj EXCEPT ![m] = r] /\ r \in ProjectionRow /\ Retoken(proj[m], r) /\ r.tok = "stale"
    BY <2>1, <1>2 DEF TypeOK, ProjectionRow, Retoken
  <2> HIDE DEF r
  <2>3. proj' \in [Messages -> ProjectionRow] /\ proj'[m] = r /\ \A n \in Messages : n # m => proj'[n] = proj[n]
    BY <2>2, ProjSet
  <2>4. TypeOK'
    BY <2>1, <2>3, <1>1 DEF TypeOK
  <2>5. Quiet
    BY <2>1, <2>2, <2>3, <1>1 DEF Quiet, Retoken
  <2>6. PassInv'
    BY <2>4, <2>5, <1>1, PassStep DEF PassInv
  <2>7. CompletionInv'
    <3> SUFFICES ASSUME NEW n \in Messages PROVE Announced(proj'[n], notes'[n], faults')
      BY DEF CompletionInv
    <3>1. Announced(proj[n], notes[n], faults)
      BY DEF CompletionInv
    <3>2. CASE n # m
      BY <3>1, <3>2, <2>3, <1>1
    <3>3. CASE n = m
      <4>1. Owed(proj'[n]) <=> Owed(proj[n])
        BY <3>3, <2>1, <2>2, <2>3 DEF Owed, Retoken, Passes
      <4> QED BY <4>1, <3>1, <3>3, <2>2, <2>3, <1>1 DEF Announced, Retoken
    <3> QED BY <3>2, <3>3
  <2> QED BY <2>4, <2>5, <2>6, <2>7, QuietStep
<1> QED BY <1>3, <1>4 DEF LeaseEnds

-----------------------------------------------------------------------------
(* A message arrives; a post becomes visible.                              *)

\* project, when the row exists and gets its callback now.
LEMMA AdoptInv ==
    ASSUME IInv, NEW x \in Passes, NEW m \in Messages, project(x, m), proj[m].st # "absent"
    PROVE  IInv'
<1> USE DEF IInv
<1> DEFINE r == Adopted(proj[m])
           T == {h \in OwnHandoffs(m) : hand'[h].st \notin {"linked", "review"}}
           w == [pass[x] EXCEPT !.at = "links", !.todo = T]
<1>1. x = "live" /\ proj[m].payload = FALSE /\ proj[m] \in ProjectionRow /\ pass[x] \in Pass
  BY DEF project, TypeOK, ProjectionRow
<1>2. proj' = [proj EXCEPT ![m] = r] /\ pass' = [pass EXCEPT ![x] = w]
      /\ UNCHANGED <<order, hand, pend, resv, pubs, attached, notes, recover, faults>>
  BY <1>1 DEF project, TypeOK
<1>3. r \in ProjectionRow /\ r.st = proj[m].st /\ r.payload = TRUE
      /\ r.cst = IF proj[m].st = "projected" THEN 1 ELSE proj[m].cst
  <2> DEFINE c == IF proj[m].st = "projected" THEN 1 ELSE proj[m].cst
  <2>1. c \in 0..2 /\ r = [proj[m] EXCEPT !.payload = TRUE, !.cst = c]
    BY <1>1 DEF Adopted, ProjectionRow
  <2> HIDE DEF c
  <2>2. [proj[m] EXCEPT !.payload = TRUE, !.cst = c] \in ProjectionRow
    BY <2>1, <1>1 DEF ProjectionRow
  <2>3. r.st = proj[m].st /\ r.payload = TRUE /\ r.cst = c
    BY <2>1, <1>1 DEF ProjectionRow
  <2> QED BY <2>1, <2>2, <2>3 DEF c
<1>4. w \in Pass /\ w.at = "links" /\ w.todo = T
  BY <1>1 DEF Pass, OwnHandoffs
<1>5. \A h \in w.todo : hand[h].st # "absent"
  BY <1>4 DEF HandInv, OwnHandoffs
<1> HIDE DEF r, w
<1>6. /\ proj' \in [Messages -> ProjectionRow] /\ proj'[m] = r
      /\ \A n \in Messages : n # m => proj'[n] = proj[n]
  BY <1>2, <1>3, ProjSet
<1>7. pass' \in [Passes -> Pass] /\ pass'[x] = w /\ \A y \in Passes : y # x => pass'[y] = pass[y]
  BY <1>2, <1>4, PassSet
<1>8. TypeOK'
  BY <1>2, <1>6, <1>7 DEF TypeOK
<1>9. Quiet
  BY <1>2, <1>3, <1>6 DEF Quiet
<1>10. PassInv'
  <2>1. recover' \subseteq Range(order)
    BY <1>2 DEF PassInv
  <2>2. ASSUME NEW y \in Passes
        PROVE  /\ pass'[y].at = "staging" => pass'[y].h \in Handoffs
               /\ pass'[y].at = "callback" => pass'[y].m \in Messages
               /\ \A g \in pass'[y].todo : hand[g].st # "absent"
    BY <1>4, <1>5, <1>7 DEF PassInv
  <2> QED BY <2>1, <2>2, <1>8, <1>9, PassStep
<1>11. CompletionInv'
  <2> SUFFICES ASSUME NEW n \in Messages PROVE Announced(proj'[n], notes'[n], faults')
    BY DEF CompletionInv
  <2>1. Announced(proj[n], notes[n], faults) /\ faults \in Nat
    BY ProjectionConstants DEF CompletionInv, TypeOK
  <2>2. CASE n # m
    BY <2>1, <2>2, <1>2, <1>6
  <2>3. CASE n = m
    BY <2>1, <2>3, <1>1, <1>2, <1>3, <1>6 DEF Announced, Owed
  <2> QED BY <2>2, <2>3
<1> QED BY <1>8, <1>9, <1>10, <1>11, QuietStep

\* project, when the row is new.
LEMMA BeginInv ==
    ASSUME IInv, NEW x \in Passes, NEW m \in Messages, project(x, m), proj[m].st = "absent"
    PROVE  IInv'
<1> USE DEF IInv
<1> DEFINE st == IF OwnHandoffs(m) = {} THEN "pending" ELSE "linking"
           r == [proj[m] EXCEPT !.st = st, !.payload = (x = "live")]
           T == {h \in OwnHandoffs(m) : hand'[h].st \notin {"linked", "review"}}
           w == [pass[x] EXCEPT !.at = "links", !.todo = T]
<1>1. proj[m] \in ProjectionRow /\ pass[x] \in Pass
  BY DEF TypeOK
<1>2. proj' = [proj EXCEPT ![m] = r] /\ pass' = [pass EXCEPT ![x] = w] /\ order' = Append(order, m)
      /\ hand' = [h \in Handoffs |-> IF Of(h) = m THEN [hand[h] EXCEPT !.st = "pending"] ELSE hand[h]]
      /\ UNCHANGED <<pend, resv, pubs, attached, notes, recover, faults>>
  BY DEF project, TypeOK
<1>3. r \in ProjectionRow /\ r.st \in {"pending", "linking"} /\ r.cst = proj[m].cst
  <2>1. st \in {"pending", "linking"} /\ (x = "live") \in BOOLEAN
    OBVIOUS
  <2> HIDE DEF st
  <2> QED BY <2>1, <1>1 DEF ProjectionRow
<1>4. w \in Pass /\ w.at = "links" /\ w.todo = T
  BY <1>1 DEF Pass, OwnHandoffs
<1> HIDE DEF r, w
<1>5. /\ proj' \in [Messages -> ProjectionRow] /\ proj'[m] = r
      /\ \A n \in Messages : n # m => proj'[n] = proj[n]
  BY <1>2, <1>3, ProjSet
<1>6. pass' \in [Passes -> Pass] /\ pass'[x] = w /\ \A y \in Passes : y # x => pass'[y] = pass[y]
  BY <1>2, <1>4, PassSet
<1>7. \A h \in Handoffs : /\ hand'[h] \in HandoffRow
                          /\ Of(h) = m => hand[h].st = "absent" /\ hand'[h].st = "pending"
                          /\ Of(h) # m => hand'[h] = hand[h]
  <2> SUFFICES ASSUME NEW h \in Handoffs
               PROVE  /\ hand'[h] \in HandoffRow
                      /\ Of(h) = m => hand[h].st = "absent" /\ hand'[h].st = "pending"
                      /\ Of(h) # m => hand'[h] = hand[h]
    OBVIOUS
  <2>1. hand[h] \in HandoffRow /\ (Of(h) = m => hand[h].st = "absent")
    BY DEF TypeOK, HandInv
  <2> DEFINE q == [hand[h] EXCEPT !.st = "pending"]
  <2>2. q \in HandoffRow /\ q.st = "pending"
    BY <2>1 DEF HandoffRow
  <2>3. hand'[h] = IF Of(h) = m THEN q ELSE hand[h]
    BY <1>2
  <2> HIDE DEF q
  <2> QED BY <2>1, <2>2, <2>3
<1>8. OneEach(order) /\ m \notin Range(order) /\ order \in Seq(Messages)
  BY DEF TypeOK, RowsInv, OneEach
<1>9. /\ OneEach(order') /\ Range(order') = Range(order) \cup {m}
      /\ \A n \in Range(order) : RankIn(order', n) = RankIn(order, n)
  BY <1>2, <1>8, AppendFacts
<1>10. TypeOK'
  <2>1. hand' \in [Handoffs -> HandoffRow]
    BY <1>2, <1>7
  <2> QED BY <2>1, <1>2, <1>5, <1>6, <1>9 DEF TypeOK, OneEach
<1>11. RowsInv'
  <2>1. \A i, j \in DOMAIN order' : order'[i] = order'[j] => i = j
    BY <1>9 DEF OneEach
  <2>2. \A n \in Messages : n \in Range(order') <=> proj'[n].st # "absent"
    BY <1>3, <1>5, <1>9 DEF RowsInv
  <2>3. \A n \in Messages : n \in Range(pubs') <=> proj'[n].st = "projected"
    BY <1>2, <1>3, <1>5 DEF RowsInv
  <2>4. ASSUME NEW n \in Messages, proj'[n].st = "review" PROVE \E h \in OwnHandoffs(n) : hand'[h].st = "review"
    <3>1. n # m /\ proj[n].st = "review"
      BY <2>4, <1>3, <1>5
    <3> QED BY <3>1, <1>7 DEF RowsInv, OwnHandoffs
  <2> QED BY <2>1, <2>2, <2>3, <2>4 DEF RowsInv, OwnHandoffs
<1>12. HandInv'
  <2> SUFFICES ASSUME NEW h \in Handoffs
               PROVE  /\ hand'[h].st # "absent" <=> proj'[Of(h)].st # "absent"
                      /\ hand'[h].st = "linked" => resv'[Src(h)] = Of(h)
                      /\ hand'[h].st = "linked" /\ proj'[Of(h)].st # "projected" => pend'[Src(h)] = "staged"
                      /\ proj'[Of(h)].st = "projected" => hand'[h].st = "linked"
    BY DEF HandInv
  <2>1. Of(h) \in Messages
    BY HandoffFacts
  <2>2. CASE Of(h) = m
    BY <2>2, <1>3, <1>5, <1>7
  <2>3. CASE Of(h) # m
    BY <2>1, <2>3, <1>2, <1>5, <1>7 DEF HandInv
  <2> QED BY <2>2, <2>3
<1>13. AttachedInv'
  <2>1. \A h \in Handoffs : proj'[Of(h)].st = "projected" <=> proj[Of(h)].st = "projected"
    BY <1>3, <1>5, HandoffFacts
  <2> QED BY <2>1, <1>2 DEF AttachedInv
<1>14. PassInv'
  <2>1. recover' \subseteq Range(order')
    BY <1>2, <1>9 DEF PassInv
  <2>2. ASSUME NEW y \in Passes
        PROVE  /\ pass'[y].at = "staging" => pass'[y].h \in Handoffs
               /\ pass'[y].at = "callback" => pass'[y].m \in Messages
               /\ \A g \in pass'[y].todo : hand'[g].st # "absent"
    <3>1. CASE y = x
      <4>1. \A g \in w.todo : g \in Handoffs /\ Of(g) = m
        BY <1>4 DEF OwnHandoffs
      <4> QED BY <3>1, <4>1, <1>4, <1>6, <1>7
    <3>2. CASE y # x
      <4>1. pass'[y] = pass[y] /\ pass[y].todo \subseteq Handoffs
        BY <3>2, <1>6 DEF TypeOK, Pass
      <4> QED BY <4>1, <1>7 DEF PassInv
    <3> QED BY <3>1, <3>2
  <2> QED BY <2>1, <2>2 DEF PassInv
<1>15. CompletionInv'
  <2>1. \A n \in Messages :
           \/ proj'[n] = proj[n]
           \/ /\ proj[n].st # "projected" /\ proj'[n].st # "projected"
              /\ proj'[n].cst = proj[n].cst
    BY <1>3, <1>5
  <2> QED BY <2>1, <1>2, <1>10, NotYetAnnounced
<1>16. PostsInArrivalOrder'
  <2>1. Blocking' \subseteq Blocking \cup {m}
    <3> SUFFICES ASSUME NEW n \in Messages, n # m, n \in Incomplete', ~Torn(n)' PROVE n \in Incomplete /\ ~Torn(n)
      BY DEF Blocking
    <3>1. n \in Range(order) /\ proj'[n] = proj[n]
      BY <1>5, <1>9 DEF Incomplete, Rows
    <3>2. \A h \in OwnHandoffs(n) : hand'[h] = hand[h]
      BY <1>7 DEF OwnHandoffs
    <3> QED BY <3>1, <3>2 DEF Incomplete, Rows, Torn, OwnHandoffs
  <2>2. InOrder(order, pubs, Blocking) /\ pubs' = pubs
    BY <1>2, <1>8, PostsAre
  <2>3. \A i \in DOMAIN pubs : pubs[i] \in Range(pubs)
    BY DEF Range
  <2>4. \A n \in Range(pubs) : n \in Range(order) /\ EarlierIn(order', n) = EarlierIn(order, n)
    <3>1. Range(pubs) \subseteq Messages
      BY DEF TypeOK, Range
    <3>2. ASSUME NEW n \in Range(pubs) PROVE n \in Range(order)
      BY <3>1 DEF RowsInv
    <3>3. ASSUME NEW n \in Range(order), NEW k PROVE k \in EarlierIn(order', n) <=> k \in EarlierIn(order, n)
      <4>1. n \in Range(order') /\ RankIn(order', n) = RankIn(order, n) /\ RankIn(order, n) \in 1..Len(order)
        BY <1>8, <1>9, RankFacts
      <4>2. k \in EarlierIn(order', n) <=> k \in Range(order') /\ RankIn(order', k) < RankIn(order', n)
        BY <4>1, <1>9, EarlierFacts
      <4>3. k \in EarlierIn(order, n) <=> k \in Range(order) /\ RankIn(order, k) < RankIn(order, n)
        BY <1>8, EarlierFacts
      <4>4. CASE k = m
        <5>1. RankIn(order', m) = Len(order) + 1
          <6>1. order'[Len(order) + 1] = m /\ Len(order) + 1 \in 1..Len(order')
            BY <1>2, <1>8
          <6> QED BY <6>1, <1>9, RankFacts
        <5> QED BY <5>1, <4>1, <4>2, <4>3, <4>4, <1>8
      <4>5. CASE k # m
        BY <4>1, <4>2, <4>3, <4>5, <1>9
      <4> QED BY <4>4, <4>5
    <3> QED BY <3>2, <3>3
  <2>5. \A n \in Range(pubs) : m \notin EarlierIn(order, n)
    BY <2>4, <1>8, EarlierFacts
  <2>6. InOrder(order', pubs', Blocking')
    BY <2>1, <2>2, <2>3, <2>4, <2>5, <1>9 DEF InOrder
  <2> QED BY <2>6, <1>9, PostsWillBe
<1> QED BY <1>10, <1>11, <1>12, <1>13, <1>14, <1>15, <1>16

\* A message has at most one attachment of a source.
LEMMA MadeFacts ==
    ASSUME NEW m \in Messages, NEW s
    PROVE  LET made == {h \in OwnHandoffs(m) : Src(h) = s}
           IN Cardinality(made) = IF made = {} THEN 0 ELSE 1
<1> DEFINE made == {h \in OwnHandoffs(m) : Src(h) = s}
<1>1. CASE made = {}
  BY <1>1, FS_EmptySet
<1>2. CASE made # {}
  <2>1. PICK h \in made : TRUE
    BY <1>2
  <2>2. made = {h}
    BY <2>1, HandoffsAreKeyed DEF OwnHandoffs
  <2>3. Cardinality({h}) = 1
    BY FS_Singleton
  <2> QED BY <2>2, <2>3, <1>2
<1> QED BY <1>1, <1>2

\* finalizeAssistantProjection.
LEMMA FinalizeInv == ASSUME IInv, NEW x \in Passes, finalizeAssistantProjection(x) PROVE IInv'
<1> USE DEF IInv
<1>1. OneEach(order) /\ Range(order) \subseteq Messages /\ Range(pubs) \subseteq Messages
  BY DEF TypeOK, RowsInv, OneEach, Range
<1> DEFINE S == {n \in Messages : Finalizable(n)}
<1>2. S # {} /\ S \subseteq Range(order)
  BY DEF finalizeAssistantProjection, Finalizable, Incomplete, Rows
<1> HIDE DEF S
<1>3. PICK m \in S : m = First(S)
  BY <1>1, <1>2, FirstIsOne
<1>4. m \in Messages /\ m \in Range(order) /\ m \in Incomplete /\ proj[m].st \in {"pending", "linking", "failed"}
      /\ Earlier(m) \cap Incomplete = {} /\ proj[m] \in ProjectionRow
      /\ \A h \in OwnHandoffs(m) : hand[h].st = "linked"
  BY <1>2, <1>3 DEF S, Finalizable, Incomplete, AllLinked, TypeOK
<1> DEFINE made(s) == Cardinality({h \in OwnHandoffs(m) : Src(h) = s})
           c == IF proj[m].payload THEN 1 ELSE 0
           r == [proj[m] EXCEPT !.st = "projected", !.tok = "none", !.cst = c]
<1>5. /\ pubs' = Append(pubs, m) /\ attached' = [s \in Sources |-> attached[s] + made(s)]
      /\ pend' = [s \in Sources |-> IF made(s) > 0 THEN "gone" ELSE pend[s]]
      /\ proj' = [proj EXCEPT ![m].st = "projected", ![m].tok = "none", ![m].cst = IF proj[m].payload THEN 1 ELSE 0]
      /\ UNCHANGED <<order, hand, resv, notes, pass, recover, faults>>
  BY <1>3, Zenon DEF finalizeAssistantProjection, S
<1>6. proj' = [proj EXCEPT ![m] = r]
  BY <1>4, <1>5 DEF TypeOK
<1>7. r \in ProjectionRow /\ r.st = "projected" /\ r.payload = proj[m].payload /\ r.cst = c
  <2>1. c \in 0..2 /\ "none" \in Tokens
    BY DEF Tokens
  <2> HIDE DEF c
  <2> QED BY <2>1, <1>4 DEF ProjectionRow
<1> HIDE DEF r, made
<1>8. /\ proj' \in [Messages -> ProjectionRow] /\ proj'[m] = r
      /\ \A n \in Messages : n # m => proj'[n] = proj[n]
  BY <1>4, <1>6, <1>7, ProjSet
<1>9. \A s \in Sources : made(s) = IF \E h \in OwnHandoffs(m) : Src(h) = s THEN 1 ELSE 0
  <2> SUFFICES ASSUME NEW s \in Sources
               PROVE  made(s) = IF \E h \in OwnHandoffs(m) : Src(h) = s THEN 1 ELSE 0
    OBVIOUS
  <2> DEFINE M == {h \in OwnHandoffs(m) : Src(h) = s}
  <2>1. made(s) = IF M = {} THEN 0 ELSE 1
    BY <1>4, MadeFacts DEF made
  <2>2. M = {} <=> ~\E h \in OwnHandoffs(m) : Src(h) = s
    OBVIOUS
  <2> HIDE DEF M
  <2> QED BY <2>1, <2>2
<1>10. \A h \in OwnHandoffs(m) : h \in Handoffs /\ resv[Src(h)] = m /\ Src(h) \in Sources
  BY <1>4, HandoffFacts DEF OwnHandoffs, HandInv
<1>11. pubs \in Seq(Messages) /\ pubs' \in Seq(Messages) /\ m \notin Range(pubs)
       /\ Range(pubs') = Range(pubs) \cup {m}
       /\ Len(pubs) \in Nat /\ DOMAIN pubs = 1..Len(pubs) /\ DOMAIN pubs' = 1..(Len(pubs) + 1)
       /\ pubs'[Len(pubs) + 1] = m /\ \A i \in 1..Len(pubs) : pubs'[i] = pubs[i]
  <2>1. pubs \in Seq(Messages) /\ pubs' = Append(pubs, m) /\ m \notin Range(pubs)
    BY <1>4, <1>5 DEF TypeOK, RowsInv
  <2>2. pubs' \in Seq(Messages) /\ Len(pubs) \in Nat /\ DOMAIN pubs = 1..Len(pubs) /\ DOMAIN pubs' = 1..(Len(pubs) + 1)
        /\ pubs'[Len(pubs) + 1] = m /\ \A i \in 1..Len(pubs) : pubs'[i] = pubs[i]
    BY <2>1, <1>4
  <2>3. \A i \in 1..(Len(pubs) + 1) : i \in 1..Len(pubs) \/ i = Len(pubs) + 1
    BY <2>2
  <2>4. Len(pubs) + 1 \in 1..(Len(pubs) + 1) /\ \A i \in 1..Len(pubs) : i \in 1..(Len(pubs) + 1)
    BY <2>2
  <2>5. Range(pubs') = Range(pubs) \cup {m}
    BY <2>2, <2>3, <2>4, Zenon DEF Range
  <2> QED BY <2>1, <2>2, <2>5
<1>12. TypeOK'
  <2>1. attached' \in [Sources -> Nat]
    <3>1. \A s \in Sources : made(s) = 0 \/ made(s) = 1
      BY <1>9, Zenon
    <3>2. ASSUME NEW s \in Sources PROVE attached[s] + made(s) \in Nat
      <4>1. attached[s] \in Nat
        BY DEF TypeOK
      <4>2. PICK k \in {0, 1} : made(s) = k
        BY <3>1
      <4>3. attached[s] + k \in Nat
        BY <4>1
      <4> QED BY <4>2, <4>3
    <3> QED BY <3>2, <1>5
  <2>2. pend' \in [Sources -> {"staged", "gone"}]
    BY <1>5 DEF TypeOK
  <2> QED BY <2>1, <2>2, <1>5, <1>8, <1>11 DEF TypeOK
<1>13. RowsInv'
  <2>1. \A i, j \in DOMAIN order' : order'[i] = order'[j] => i = j
    BY <1>5 DEF RowsInv
  <2>2. \A n \in Messages : n \in Range(order') <=> proj'[n].st # "absent"
    BY <1>4, <1>5, <1>7, <1>8 DEF RowsInv
  <2>3. \A n \in Messages : n \in Range(pubs') <=> proj'[n].st = "projected"
    BY <1>7, <1>8, <1>11 DEF RowsInv
  <2>4. \A n \in Messages : proj'[n].st = "review" => \E h \in OwnHandoffs(n) : hand'[h].st = "review"
    BY <1>5, <1>7, <1>8 DEF RowsInv
  <2> QED BY <2>1, <2>2, <2>3, <2>4 DEF RowsInv, OwnHandoffs
<1>14. HandInv'
  <2> SUFFICES ASSUME NEW h \in Handoffs
               PROVE  /\ hand'[h].st # "absent" <=> proj'[Of(h)].st # "absent"
                      /\ hand'[h].st = "linked" => resv'[Src(h)] = Of(h)
                      /\ hand'[h].st = "linked" /\ proj'[Of(h)].st # "projected" => pend'[Src(h)] = "staged"
                      /\ proj'[Of(h)].st = "projected" => hand'[h].st = "linked"
    BY DEF HandInv
  <2>1. Of(h) \in Messages /\ Src(h) \in Sources /\ hand' = hand /\ resv' = resv
    BY <1>5, HandoffFacts
  <2>2. CASE Of(h) = m
    <3>1. hand[h].st = "linked"
      BY <2>2, <1>4 DEF OwnHandoffs
    <3> QED BY <2>1, <2>2, <3>1, <1>7, <1>8 DEF HandInv
  <2>3. CASE Of(h) # m
    <3>1. proj'[Of(h)] = proj[Of(h)]
      BY <2>1, <2>3, <1>8
    <3>2. ASSUME hand[h].st = "linked", proj[Of(h)].st # "projected" PROVE pend'[Src(h)] = "staged"
      <4>1. resv[Src(h)] = Of(h) /\ pend[Src(h)] = "staged"
        BY <3>2 DEF HandInv
      <4>2. ~\E g \in OwnHandoffs(m) : Src(g) = Src(h)
        BY <4>1, <2>3, <1>10
      <4>3. made(Src(h)) = 0
        BY <4>2, <2>1, <1>9
      <4> QED BY <4>1, <4>3, <2>1, <1>5
    <3> QED BY <3>1, <3>2, <2>1 DEF HandInv
  <2> QED BY <2>2, <2>3
<1>15. AttachedInv'
  <2> SUFFICES ASSUME NEW s \in Sources
               PROVE  attached'[s] = IF \E h \in Handoffs : Src(h) = s /\ proj'[Of(h)].st = "projected" THEN 1 ELSE 0
    BY DEF AttachedInv
  <2>1. attached'[s] = attached[s] + made(s) /\ attached[s] \in Nat
    BY <1>5 DEF TypeOK
  <2>2. CASE \E g \in OwnHandoffs(m) : Src(g) = s
    <3>1. PICK g \in OwnHandoffs(m) : Src(g) = s
      BY <2>2
    <3>2. g \in Handoffs /\ proj'[Of(g)].st = "projected" /\ resv[s] = m
      BY <3>1, <1>7, <1>8, <1>10 DEF OwnHandoffs
    <3>3. ~\E h \in Handoffs : Src(h) = s /\ proj[Of(h)].st = "projected"
      BY <3>2, <1>4 DEF HandInv
    <3>4. attached[s] = 0
      BY <3>3 DEF AttachedInv
    <3> QED BY <3>1, <3>2, <3>4, <2>1, <2>2, <1>9
  <2>3. CASE ~\E g \in OwnHandoffs(m) : Src(g) = s
    <3>1. \A h \in Handoffs : Src(h) = s => (proj'[Of(h)] = proj[Of(h)])
      BY <2>3, <1>8, HandoffFacts DEF OwnHandoffs
    <3>2. attached'[s] = attached[s]
      BY <2>1, <2>3, <1>9
    <3> QED BY <3>1, <3>2 DEF AttachedInv
  <2> QED BY <2>2, <2>3
<1>16. PassInv'
  BY <1>5 DEF PassInv
<1>17. CompletionInv'
  <2> SUFFICES ASSUME NEW n \in Messages PROVE Announced(proj'[n], notes'[n], faults')
    BY DEF CompletionInv
  <2>1. Announced(proj[n], notes[n], faults) /\ faults \in Nat
    BY ProjectionConstants DEF CompletionInv, TypeOK
  <2>2. CASE n # m
    BY <2>1, <2>2, <1>5, <1>8
  <2>3. CASE n = m
    BY <2>1, <2>3, <1>4, <1>5, <1>7, <1>8 DEF Announced, Owed
  <2> QED BY <2>2, <2>3
<1>18. PostsInArrivalOrder'
  <2>1. InOrder(order, pubs, Blocking) /\ order' = order
    BY <1>1, <1>5, PostsAre
  <2>2. Blocking' \subseteq Blocking /\ m \in Blocking
    <3>1. m \in Blocking
      BY <1>4 DEF Blocking, Torn
    <3>2. \A n \in Messages : n # m => (n \in Incomplete' <=> n \in Incomplete)
      BY <1>5, <1>8 DEF Incomplete, Rows
    <3>3. m \notin Incomplete'
      BY <1>7, <1>8 DEF Incomplete
    <3>4. \A n \in Messages : n # m => (Torn(n)' <=> Torn(n))
      BY <1>5, <1>8 DEF Torn, OwnHandoffs
    <3> QED BY <3>1, <3>2, <3>3, <3>4 DEF Blocking
  <2>3. ASSUME NEW n \in Range(pubs) PROVE RankIn(order, n) < RankIn(order, m)
    <3>1. n \in Range(order) /\ n # m
      BY <1>1, <1>11 DEF RowsInv
    <3>2. m \notin EarlierIn(order, n)
      BY <2>1, <2>2 DEF InOrder
    <3>3. ~(RankIn(order, m) < RankIn(order, n))
      BY <3>1, <3>2, <1>1, <1>4, EarlierFacts
    <3>4. /\ RankIn(order, m) \in 1..Len(order) /\ order[RankIn(order, m)] = m
          /\ RankIn(order, n) \in 1..Len(order) /\ order[RankIn(order, n)] = n /\ Len(order) \in Nat
      BY <3>1, <1>1, <1>4, RankFacts DEF TypeOK
    <3> QED BY <3>1, <3>3, <3>4
  <2>4. \A n \in EarlierIn(order, m) : n \notin Blocking
    BY <1>4 DEF Blocking, Earlier, EarlierIn, Rank, RankIn
  <2>5. \A i, j \in DOMAIN pubs' : i < j => RankIn(order, pubs'[i]) < RankIn(order, pubs'[j])
    <3> SUFFICES ASSUME NEW i \in DOMAIN pubs', NEW j \in DOMAIN pubs', i < j
                 PROVE  RankIn(order, pubs'[i]) < RankIn(order, pubs'[j])
      OBVIOUS
    <3>1. i \in DOMAIN pubs /\ pubs'[i] = pubs[i]
      BY <1>11
    <3>2. CASE j = Len(pubs) + 1
      <4>1. pubs[i] \in Range(pubs)
        BY <3>1 DEF Range
      <4> QED BY <3>1, <3>2, <4>1, <2>3, <1>11
    <3>3. CASE j # Len(pubs) + 1
      <4>1. j \in DOMAIN pubs /\ pubs'[j] = pubs[j]
        BY <3>3, <1>11
      <4> QED BY <3>1, <4>1, <2>1 DEF InOrder
    <3> QED BY <3>2, <3>3
  <2>6. InOrder(order', pubs', Blocking')
    BY <2>1, <2>2, <2>4, <2>5, <1>11 DEF InOrder
  <2> QED BY <2>1, <2>6, <1>1, PostsWillBe
<1> QED BY <1>12, <1>13, <1>14, <1>15, <1>16, <1>17, <1>18

-----------------------------------------------------------------------------
(* The theorems.                                                           *)

\* A step that changes nothing.
LEMMA StutterInv == ASSUME IInv, UNCHANGED vars PROVE IInv'
<1> USE DEF IInv
<1>1. UNCHANGED <<order, proj, hand, pend, resv, pubs, attached, notes, pass, recover, faults>>
  BY DEF vars, store
<1>2. TypeOK'
  BY <1>1 DEF TypeOK
<1>3. Quiet
  BY <1>1 DEF Quiet
<1>4. PassInv'
  BY <1>1 DEF PassInv
<1>5. CompletionInv'
  BY <1>1 DEF CompletionInv
<1> QED BY <1>2, <1>3, <1>4, <1>5, QuietStep

\* Every transaction of the store, every step of a pass, every crash and every
\* lease that ends keeps the invariant.
LEMMA NextInv == IInv /\ [Next]_vars => IInv'
<1> SUFFICES ASSUME IInv, [Next]_vars PROVE IInv'
  OBVIOUS
<1>1. ASSUME NEW x \in Passes, NEW m \in Messages, project(x, m) PROVE IInv'
  BY <1>1, AdoptInv, BeginInv
<1>2. ASSUME NEW x \in Passes, Work(x) PROVE IInv'
  BY <1>2, ClaimHandoffInv, CompleteHandoffInv, FailHandoffInv, FinalizeInv, ClaimCallbackInv,
     CompleteCallbackInv DEF Work
<1>3. ASSUME NEW x \in Passes, releaseAssistantProjectionCompletion(x) PROVE IInv'
  BY <1>3, ReleaseCallbackInv
<1>4. ASSUME NEW h \in Handoffs, Ripen(h) PROVE IInv'
  BY <1>4, RipenInv
<1>5. ASSUME NEW s \in Sources, deleteExpiredPendingAttachments(s) PROVE IInv'
  BY <1>5, DeleteInv
<1>6. CASE Recover \/ runDue \/ Crash \/ LeaseEnds
  BY <1>6, RecoverInv, RunDueInv, CrashInv, LeaseEndsInv
<1>7. CASE UNCHANGED vars
  BY <1>7, StutterInv
<1> QED BY <1>1, <1>2, <1>3, <1>4, <1>5, <1>6, <1>7 DEF Next

\* The invariant holds always.
THEOREM Inductive == Spec => []IInv
<1>1. Init => IInv
  BY InitInv
<1>2. IInv /\ [Next]_vars => IInv'
  BY NextInv
<1> QED BY <1>1, <1>2, PTL DEF Spec

\* Rows, handoffs, sources and passes have their types, and fault counts their
\* bound, in every state.
THEOREM TypeCorrect == Spec => []TypeOK
<1>1. IInv => TypeOK
  BY DEF IInv
<1> QED BY <1>1, Inductive, PTL

\* Posts become visible in the order their messages arrived, whichever pass
\* finalizes them (finalizeAssistantProjection).
THEOREM ArrivalOrder == Spec => []PostsInArrivalOrder
<1>1. IInv => PostsInArrivalOrder
  BY DEF IInv
<1> QED BY <1>1, Inductive, PTL

\* A source becomes one attachment of one post, of the message that reserved it,
\* and a visible post has all of its attachments (reservePendingAttachment,
\* finalizeAssistantProjection).
THEOREM OneAttachment == Spec => []AttachedOnce
<1>1. IInv => AttachedOnce
  <2> SUFFICES ASSUME IInv PROVE AttachedOnce
    OBVIOUS
  <2>1. \A s \in Sources : attached[s] <= 1
    BY DEF IInv, AttachedInv
  <2>2. ASSUME NEW h \in Handoffs, Of(h) \in Range(pubs)
        PROVE  attached[Src(h)] = 1 /\ resv[Src(h)] = Of(h)
    <3>1. Of(h) \in Messages /\ Src(h) \in Sources
      BY HandoffFacts
    <3>2. proj[Of(h)].st = "projected"
      BY <2>2, <3>1 DEF IInv, RowsInv
    <3> QED BY <3>1, <3>2 DEF IInv, AttachedInv, HandInv
  <2> QED BY <2>1, <2>2 DEF AttachedOnce
<1> QED BY <1>1, Inductive, PTL

\* A linked handoff of a projection that is not published has its source and its
\* reservation: deleteExpiredPendingAttachments takes neither, so finalization does
\* not find custody lost.
THEOREM CustodyKept == Spec => []LinkedKeepsCustody
<1>1. IInv => LinkedKeepsCustody
  BY HandoffFacts DEF IInv, LinkedKeepsCustody, HandInv, RowsInv
<1> QED BY <1>1, Inductive, PTL

\* A callback is begun at most once more than the forum died or a callback failed
\* (claimAssistantProjectionCompletion): passes never announce a post twice by racing.
THEOREM AnnouncedOnce == Spec => []NotifiedOnce
<1>1. IInv => NotifiedOnce
  <2> SUFFICES ASSUME IInv, NEW m \in Messages PROVE notes[m] <= 1 + faults
    BY DEF NotifiedOnce
  <2>1. notes[m] \in Nat /\ faults \in Nat /\ Announced(proj[m], notes[m], faults)
    BY ProjectionConstants DEF IInv, TypeOK, CompletionInv
  <2> QED BY <2>1 DEF Announced
<1> QED BY <1>1, Inductive, PTL
=============================================================================
