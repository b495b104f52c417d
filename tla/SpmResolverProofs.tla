-------------------------- MODULE SpmResolverProofs --------------------------
(***************************************************************************)
(* The search for cycles of SpmResolver (tarjan_scc) is right for every    *)
(* index and every plan: the cycles that are reported are the largest sets *)
(* of packages that all lead to each other.  Versions are ordered as the   *)
(* keys of their strings are, whatever the strings, so that the provider   *)
(* that is chosen (best_version) is a best one for every index.            *)
(***************************************************************************)
EXTENDS SpmResolver, FiniteSetTheorems, FunctionTheorems, SequenceTheorems, WellFoundedInduction, TLAPS

Places    == DOMAIN plan
Wants(n)  == ToSet(Requires(n))
Wanted    == UNION {Wants(n) : n \in Names}
Frames    == [place : Places, left : Seq(Wanted)]
Stacked   == ToSet(stack)
\* The places whose component is known.
Gone      == {v \in Places : disc[v] # 0} \ Stacked

Joined(v, w) == Leads(plan[v], plan[w])
\* A requirement of the activation that is still to be followed.
Ahead(c, w)  == \E d \in ToSet(c.left) : d.name = plan[w]
Reaches(v, w) == plan[w] \in Below(plan[v], ToSet(plan))
Mutual(v)    == {plan[w] : w \in {x \in Places : Reaches(v, x) /\ Reaches(x, v)}}

\* The plan has each package once.
PlanInv == IsIndex(index) /\ plan \in Seq(Names) /\ \A v, w \in Places : plan[v] = plan[w] => v = w

SearchTypes ==
  /\ disc \in [Places -> Nat] /\ low \in [Places -> Nat] /\ time \in Nat
  /\ stack \in Seq(Places) /\ calls \in Seq(Frames)
  /\ \A i \in DOMAIN calls : ToSet(calls[i].left) \subseteq Wants(plan[calls[i].place])

\* Places are discovered one by one, and on the stack, like the activations, the latest is first.
Timed ==
  /\ \A v \in Places : disc[v] <= time
  /\ \A v, w \in Places : disc[v] = disc[w] /\ disc[v] # 0 => v = w
  /\ \A v \in Stacked : disc[v] # 0
  /\ \A i, j \in DOMAIN stack : i < j => disc[stack[j]] < disc[stack[i]]
  /\ \A i \in DOMAIN calls : calls[i].place \in Stacked
  /\ \A i, j \in DOMAIN calls : i < j => disc[calls[j].place] < disc[calls[i].place]

\* What a discovered place is joined to is discovered, or still ahead of its activation.
Explored ==
  \A v, w \in Places : disc[v] # 0 /\ Joined(v, w) =>
    disc[w] # 0 \/ \E i \in DOMAIN calls : calls[i].place = v /\ Ahead(calls[i], w)

\* Nothing leads out of what is gone.
Departed == \A v \in Gone, w \in Places : Joined(v, w) => w \in Gone

\* On the stack an earlier place leads to every later one, and every place leads to one of no
\* later activation.
Connected ==
  /\ \A v, w \in Stacked : disc[v] <= disc[w] => Reaches(v, w)
  /\ \A v \in Stacked : \E i \in DOMAIN calls :
       disc[calls[i].place] <= disc[v] /\ Reaches(v, calls[i].place)

\* The lowest time is that of a place on the stack that the place leads to ...
Lowest ==
  \A v \in Stacked : low[v] <= disc[v] /\ \E w \in Stacked : disc[w] = low[v] /\ Reaches(v, w)

\* ... and no place on the stack that was found from the activation, or from below it, is lower.
Home(v, i) == disc[calls[i].place] <= disc[v] /\ \A k \in 1..i - 1 : disc[v] < disc[calls[k].place]
LowEnough ==
  \A i \in DOMAIN calls : \A v, w \in Stacked :
    Home(v, i) /\ Joined(v, w) /\ (v = calls[i].place => ~Ahead(calls[i], w)) =>
      low[calls[i].place] <= disc[w]

\* What is reported are the components of the places that are gone.
Reported == sccs = {X \in {Mutual(v) : v \in Gone} : Cardinality(X) > 1}

SearchInv == /\ SearchTypes /\ Timed /\ Explored /\ Departed
             /\ Connected /\ Lowest /\ LowEnough /\ Reported

Untouched == plan = <<>> /\ disc = <<>> /\ low = <<>> /\ stack = <<>> /\ calls = <<>> /\ time = 0 /\ sccs = {}

ResolverInv == /\ pc \in {"collect", "cycles", "done"}
               /\ PlanInv
               /\ IF pc = "collect" THEN Untouched ELSE SearchInv
               /\ pc = "done" => calls = <<>> /\ \A v \in Places : disc[v] # 0

-----------------------------------------------------------------------------
(* Sequences and what leads where. *)

LEMMA ConsProperties ==
  ASSUME NEW S, NEW s \in Seq(S), NEW x \in S, NEW t, t = <<x>> \o s
  PROVE  /\ t \in Seq(S) /\ Len(t) = Len(s) + 1 /\ DOMAIN t = 1..Len(s) + 1 /\ t[1] = x
         /\ \A i \in DOMAIN s : t[i + 1] = s[i]
         /\ \A i \in DOMAIN t : i = 1 \/ (i - 1 \in DOMAIN s /\ t[i] = s[i - 1])
<1>1. <<x>> \in Seq(S) /\ Len(<<x>>) = 1 /\ <<x>>[1] = x
  OBVIOUS
<1>2. /\ t \in Seq(S) /\ Len(t) = 1 + Len(s)
      /\ \A i \in 1..Len(t) : t[i] = IF i <= 1 THEN <<x>>[i] ELSE s[i - 1]
  BY <1>1, ConcatProperties
<1>3. DOMAIN t = 1..Len(t) /\ DOMAIN s = 1..Len(s) /\ Len(s) \in Nat
  BY <1>2
<1>4. /\ \A i \in DOMAIN s : i + 1 \in DOMAIN t /\ t[i + 1] = s[i]
      /\ \A i \in DOMAIN t : i = 1 \/ (i - 1 \in DOMAIN s /\ t[i] = s[i - 1])
      /\ 1 \in DOMAIN t /\ t[1] = x
  BY <1>1, <1>2, <1>3
<1> QED BY <1>2, <1>3, <1>4

LEMMA ConsToSet ==
  ASSUME NEW S, NEW s \in Seq(S), NEW x \in S, NEW t, t = <<x>> \o s
  PROVE  ToSet(t) = {x} \cup ToSet(s)
<1>1. /\ DOMAIN s = 1..Len(s) /\ Len(s) \in Nat /\ DOMAIN t = 1..Len(s) + 1 /\ t[1] = x
      /\ \A i \in DOMAIN s : t[i + 1] = s[i]
      /\ \A i \in DOMAIN t : i = 1 \/ (i - 1 \in DOMAIN s /\ t[i] = s[i - 1])
  BY ConsProperties, LenProperties
<1>2. ASSUME NEW y \in ToSet(t) PROVE y \in {x} \cup ToSet(s)
  <2>1. PICK i \in DOMAIN t : y = t[i]
    BY DEF ToSet
  <2> QED BY <2>1, <1>1 DEF ToSet
<1>3. ASSUME NEW y \in ToSet(s) PROVE y \in ToSet(t)
  <2>1. PICK i \in DOMAIN s : y = s[i]
    BY DEF ToSet
  <2>2. i + 1 \in DOMAIN t /\ t[i + 1] = y
    BY <2>1, <1>1
  <2> QED BY <2>2 DEF ToSet
<1>4. x \in ToSet(t)
  BY <1>1 DEF ToSet
<1> QED BY <1>2, <1>3, <1>4

LEMMA TailProperties ==
  ASSUME NEW S, NEW s \in Seq(S), s # <<>>
  PROVE  /\ Head(s) = s[1] /\ Head(s) \in S /\ Len(s) \in Nat /\ Len(s) >= 1
         /\ Tail(s) \in Seq(S) /\ Len(Tail(s)) = Len(s) - 1 /\ DOMAIN Tail(s) = 1..Len(s) - 1
         /\ \A i \in 1..Len(s) - 1 : Tail(s)[i] = s[i + 1]
         /\ ToSet(s) = {Head(s)} \cup ToSet(Tail(s))
<1>1. /\ Head(s) = s[1] /\ Head(s) \in S /\ Tail(s) \in Seq(S) /\ Len(Tail(s)) = Len(s) - 1
      /\ \A i \in 1..Len(Tail(s)) : Tail(s)[i] = s[i + 1]
  BY HeadTailProperties
<1>2. Len(s) \in Nat /\ Len(s) >= 1 /\ DOMAIN s = 1..Len(s) /\ DOMAIN Tail(s) = 1..Len(s) - 1
  BY <1>1, EmptySeq, LenProperties
<1>3. \A i \in DOMAIN s : i = 1 \/ (i - 1 \in DOMAIN Tail(s) /\ s[i] = Tail(s)[i - 1])
  BY <1>1, <1>2
<1>4. \A i \in DOMAIN Tail(s) : i + 1 \in DOMAIN s /\ Tail(s)[i] = s[i + 1]
  BY <1>1, <1>2
<1>5. ASSUME NEW y \in ToSet(s) PROVE y \in {Head(s)} \cup ToSet(Tail(s))
  <2>1. PICK i \in DOMAIN s : y = s[i]
    BY DEF ToSet
  <2> QED BY <2>1, <1>1, <1>3 DEF ToSet
<1>6. ASSUME NEW y \in ToSet(Tail(s)) PROVE y \in ToSet(s)
  <2>1. PICK i \in DOMAIN Tail(s) : y = Tail(s)[i]
    BY DEF ToSet
  <2> QED BY <2>1, <1>4 DEF ToSet
<1>7. 1 \in DOMAIN s
  BY <1>2
<1>8. Head(s) \in ToSet(s)
  BY <1>1, <1>7 DEF ToSet
<1> QED BY <1>1, <1>2, <1>5, <1>6, <1>8

\* To lead somewhere is reflexive, transitive, and leads nowhere out of a set that nothing leads
\* out of.
LEMMA BelowReflexive == ASSUME NEW S, NEW x \in S PROVE x \in Below(x, S)
  BY DEF Below

LEMMA BelowTransitive ==
  ASSUME NEW S, NEW x \in S, NEW y \in Below(x, S), NEW z \in Below(y, S) PROVE z \in Below(x, S)
  BY DEF Below

LEMMA BelowJoined ==
  ASSUME NEW S, NEW x \in S, NEW y \in Below(x, S), NEW z \in S, Leads(y, z) PROVE z \in Below(x, S)
  BY DEF Below

LEMMA BelowClosed ==
  ASSUME NEW S, NEW T \in SUBSET S, NEW x \in T,
         \A u \in T, v \in S : Leads(u, v) => v \in T
  PROVE  Below(x, S) \subseteq T
  BY DEF Below

\* The same for places of the plan.
LEMMA Reaching ==
  ASSUME PlanInv
  PROVE  /\ \A v \in Places : Reaches(v, v)
         /\ \A u, v, w \in Places : Reaches(u, v) /\ Reaches(v, w) => Reaches(u, w)
         /\ \A v, w \in Places : Joined(v, w) => Reaches(v, w)
<1>1. \A v \in Places : plan[v] \in ToSet(plan)
  BY DEF Places, ToSet
<1>2. \A v \in Places : Reaches(v, v)
  BY <1>1, BelowReflexive DEF Reaches
<1>3. ASSUME NEW u \in Places, NEW v \in Places, NEW w \in Places, Reaches(u, v), Reaches(v, w)
      PROVE  Reaches(u, w)
  BY <1>1, <1>3, BelowTransitive DEF Reaches
<1>4. ASSUME NEW v \in Places, NEW w \in Places, Joined(v, w) PROVE Reaches(v, w)
  <2>1. plan[v] \in Below(plan[v], ToSet(plan))
    BY <1>1, BelowReflexive
  <2> QED BY <1>1, <1>4, <2>1, BelowJoined DEF Reaches, Joined
<1> QED BY <1>2, <1>3, <1>4

LEMMA ReachingClosed ==
  ASSUME PlanInv, NEW T \in SUBSET Places, \A u \in T, w \in Places : Joined(u, w) => w \in T,
         NEW v \in T, NEW w \in Places, Reaches(v, w)
  PROVE  w \in T
<1> DEFINE N == {plan[u] : u \in T}
<1>1. N \in SUBSET ToSet(plan) /\ plan[v] \in N
  BY DEF Places, ToSet
<1>2. ASSUME NEW x \in N, NEW y \in ToSet(plan), Leads(x, y) PROVE y \in N
  <2>1. PICK u \in T : x = plan[u]
    OBVIOUS
  <2>2. PICK z \in Places : y = plan[z]
    BY DEF Places, ToSet
  <2>3. z \in T
    BY <1>2, <2>1, <2>2 DEF Joined
  <2> QED BY <2>2, <2>3
<1> HIDE DEF N
<1>3. plan[w] \in N
  BY <1>1, <1>2, BelowClosed DEF Reaches
<1> QED BY <1>3 DEF N, PlanInv

-----------------------------------------------------------------------------
(* The plan: whichever of the two resolvers made it, it has names of the index, each once. *)

LEMMA Least == ASSUME NEW T \in SUBSET Nat, T # {} PROVE \E m \in T : \A k \in T : m <= k
<1>1. PICK m \in T : \A k \in T : <<k, m>> \notin OpToRel(<, Nat)
  BY WFMin, NatLessThanWellFounded, Zenon
<1>2. \A k \in T : ~(k < m)
  BY <1>1, Zenon DEF OpToRel
<1> QED BY <1>2

\* Of the places of a set there is a first one by priority.
LEMMA FirstOfMember ==
  ASSUME NEW ps, ps \in Seq(ToSet(ps)), \A p \in ToSet(ps) : IsProvider(p),
         NEW I \in SUBSET DOMAIN ps, I # {}
  PROVE  FirstOf(ps, I) \in I /\ \A j \in I : ps[FirstOf(ps, I)].priority <= ps[j].priority
<1>1. DOMAIN ps = 1..Len(ps) /\ Len(ps) \in Nat /\ \A i \in I : ps[i].priority \in Nat /\ i \in Nat
  BY LenProperties DEF IsProvider, ToSet
<1>2. PICK m \in {ps[i].priority : i \in I} : \A j \in I : m <= ps[j].priority
  <2> DEFINE T == {ps[i].priority : i \in I}
  <2>1. T \in SUBSET Nat /\ T # {}
    BY <1>1
  <2> HIDE DEF T
  <2>2. \E m \in T : \A k \in T : m <= k
    BY <2>1, Least
  <2> QED BY <2>2 DEF T
<1>3. PICK i \in {k \in I : ps[k].priority = m} : \A j \in {k \in I : ps[k].priority = m} : i <= j
  <2> DEFINE T == {k \in I : ps[k].priority = m}
  <2>1. T \in SUBSET Nat /\ T # {}
    BY <1>1, <1>2
  <2> HIDE DEF T
  <2>2. \E k \in T : \A j \in T : k <= j
    BY <2>1, Least
  <2> QED BY <2>2 DEF T
<1>4. ASSUME NEW j \in I PROVE ps[i].priority <= ps[j].priority /\ (j < i => ps[i].priority < ps[j].priority)
  <2>1. ps[i].priority = m /\ m <= ps[j].priority /\ m \in Nat /\ ps[j].priority \in Nat
    BY <1>1, <1>2, <1>3
  <2>2. j < i => ps[j].priority # m
    BY <1>1, <1>3
  <2> QED BY <2>1, <2>2
<1> DEFINE Right(k) ==
             \A j \in I : ps[k].priority <= ps[j].priority /\ (j < k => ps[k].priority < ps[j].priority)
           f == FirstOf(ps, I)
<1>5. Right(i) /\ i \in I
  BY <1>4
<1>6. f = CHOOSE k \in I : Right(k)
  BY DEF FirstOf
<1>7. f \in I /\ Right(f)
  <2> HIDE DEF f, Right
  <2> QED BY <1>5, <1>6
<1> HIDE DEF f
<1>8. f \in I /\ \A j \in I : ps[f].priority <= ps[j].priority
  BY <1>7
<1> QED BY <1>8 DEF f

\* What a solution contains has a provider, but for the root by the version that is asked for.
LEMMA SolvedProvided ==
  ASSUME IsIndex(index), Solvable, NEW n \in Closure PROVE n \in Names /\ Providers(n) # <<>>
<1> DEFINE T == {x \in Closure : Providers(x) # <<>>}
<1>1. Root \in Names /\ Root \in Closure /\ Root \in T
  BY NamesAssumption, BelowReflexive DEF Closure, Solvable
<1>2. Closure \subseteq Names
  BY DEF Closure, Below
<1>3. ASSUME NEW u \in T, NEW x \in Names, Leads(u, x) PROVE x \in T
  <2>1. x \in Closure
    BY <1>1, <1>3, BelowJoined DEF Closure
  <2> DEFINE req == Requires(u)
             K == {i \in DOMAIN req : req[i].name = x}
             M == {Len(req) - i : i \in K}
  <2>2. DOMAIN req = 1..Len(req) /\ Len(req) \in Nat
    <3>1. u \in Names
      BY <1>2
    <3>2. req \in Seq(ToSet(req))
      BY <3>1 DEF IsIndex, Requires
    <3> HIDE DEF req
    <3> QED BY <3>2, LenProperties
  <2>3. M \in SUBSET Nat /\ M # {}
    <3>1. K # {}
      BY <1>3 DEF Leads, ToSet
    <3> QED BY <2>2, <3>1
  <2> HIDE DEF M
  <2>4. PICK m \in M : \A k \in M : m <= k
    BY <2>3, Least
  <2>5. PICK i \in K : m = Len(req) - i
    BY DEF M
  <2>6. i \in Constraints(u)
    <3>1. ASSUME NEW j \in i + 1..Len(req), req[j].name = x PROVE FALSE
      <4>1. j \in K
        BY <2>2, <3>1
      <4>2. Len(req) - j \in M
        BY <4>1 DEF M
      <4>3. Len(req) - i <= Len(req) - j
        BY <2>4, <2>5, <4>2
      <4> QED BY <2>2, <4>3
    <3> QED BY <3>1 DEF Constraints
  <2>7. Satisfied(req[i])
    BY <2>6 DEF Solvable
  <2> QED BY <2>1, <2>5, <2>7 DEF Satisfied
<1>4. Closure \subseteq T
  <2>1. T \in SUBSET Names
    BY <1>2
  <2> HIDE DEF T
  <2> QED BY <1>1, <1>3, <2>1, BelowClosed DEF Closure
<1> QED BY <1>2, <1>4

LEMMA RealNamed ==
  ASSUME IsIndex(index), Solvable, NEW n \in Closure PROVE RealName(n) \in Names
<1>1. n \in Names /\ Providers(n) # <<>>
  BY SolvedProvided
<1>2. /\ Providers(n) \in Seq(ToSet(Providers(n)))
      /\ \A p \in ToSet(Providers(n)) : IsProvider(p)
  BY <1>1 DEF IsIndex, Providers
<1>3. DOMAIN Providers(n) # {}
  BY <1>1, <1>2, EmptySeq, LenProperties
<1>4. FirstOf(Providers(n), DOMAIN Providers(n)) \in DOMAIN Providers(n)
  BY <1>2, <1>3, FirstOfMember
<1> QED BY <1>1, <1>2, <1>4 DEF RealName, IsProvider, ToSet

\* The sequences of a set of names.
LEMMA Sequenced ==
  ASSUME NEW S \in SUBSET Names, NEW f \in SetToSeqs(S)
  PROVE  f \in Seq(Names) /\ \A i, j \in DOMAIN f : f[i] = f[j] => i = j
<1>1. IsFiniteSet(S)
  BY NamesAssumption, FS_Subset
<1>2. Cardinality(S) \in Nat
  BY <1>1, FS_CardinalityType
<1>3. f \in [1..Cardinality(S) -> S] /\ \A i, j \in 1..Cardinality(S) : i # j => f[i] # f[j]
  BY DEF SetToSeqs
<1>4. f \in [1..Cardinality(S) -> Names]
  BY <1>3
<1> QED BY <1>2, <1>3, <1>4

LEMMA DirectNames ==
  ASSUME IsIndex(index), NEW names \in Direct
  PROVE  \E S \in SUBSET Names : names \in SetToSeqs(S)
<1> DEFINE req == Requires(Root)
           dep == [i \in DOMAIN req |-> req[i].name]
           all == <<Root>> \o dep
<1>1. Root \in Names /\ req \in Seq(ToSet(req)) /\ \A d \in ToSet(req) : d.name \in Names
  BY NamesAssumption DEF IsIndex, IsRequirement, Requires
<1>2. dep \in Seq(Names)
  <2>1. DOMAIN req = 1..Len(req) /\ Len(req) \in Nat /\ \A i \in DOMAIN req : req[i].name \in Names
    BY <1>1, LenProperties DEF ToSet
  <2>2. dep \in [1..Len(req) -> Names]
    BY <2>1
  <2> QED BY <2>1, <2>2
<1> HIDE DEF dep
<1>3. ToSet(all) = {Root} \cup ToSet(dep)
  BY <1>1, <1>2, ConsToSet
<1>4. ToSet(dep) \subseteq Names
  BY <1>2 DEF ToSet
<1>5. names \in SetToSeqs(ToSet(all))
  BY DEF Direct, dep
<1> QED BY <1>1, <1>3, <1>4, <1>5

LEMMA SolvePlans ==
  ASSUME IsIndex(index), Solve
  PROVE  plan' \in Seq(Names) /\ \A v, w \in DOMAIN plan' : plan'[v] = plan'[w] => v = w
<1>1. plan' \in IF Solvable THEN SetToSeqs({RealName(n) : n \in Closure}) ELSE Direct
  BY DEF Solve
<1>2. \E S \in SUBSET Names : plan' \in SetToSeqs(S)
  <2>1. CASE Solvable
    <3>1. {RealName(n) : n \in Closure} \in SUBSET Names
      BY <2>1, RealNamed
    <3> QED BY <1>1, <2>1, <3>1
  <2>2. CASE ~Solvable
    BY <1>1, <2>2, DirectNames
  <2> QED BY <2>1, <2>2
<1> QED BY <1>2, Sequenced

-----------------------------------------------------------------------------
(* The steps of the search.  None of them touches the index or the plan. *)

LEMMA Still ==
  ASSUME UNCHANGED <<index, plan>>
  PROVE  /\ Places' = Places /\ Frames' = Frames /\ PlanInv' = PlanInv
         /\ \A n : Wants(n)' = Wants(n) /\ Requires(n)' = Requires(n)
         /\ \A v, w : Joined(v, w)' = Joined(v, w)
         /\ \A v, w : Reaches(v, w)' = Reaches(v, w)
         /\ \A v : Mutual(v)' = Mutual(v)
         /\ \A c, w : Ahead(c, w)' = Ahead(c, w)
<1>1. \A n : Requires(n)' = Requires(n)
  BY DEF Requires
<1>2. \A n : Wants(n)' = Wants(n)
  BY <1>1 DEF Wants
<1>3. Places' = Places /\ Wanted' = Wanted
  BY <1>2 DEF Places, Wanted
<1>4. Frames' = Frames /\ PlanInv' = PlanInv
  BY <1>3 DEF Frames, PlanInv
<1>5. \A x, y : Leads(x, y)' = Leads(x, y)
  BY <1>1 DEF Leads
<1>6. \A v, w : Joined(v, w)' = Joined(v, w)
  BY <1>5 DEF Joined
<1>7. \A x, S : Below(x, S)' = Below(x, S)
  BY <1>5 DEF Below
<1>8. \A v, w : Reaches(v, w)' = Reaches(v, w)
  BY <1>7 DEF Reaches
<1>9. \A v : Mutual(v)' = Mutual(v)
  BY <1>3, <1>8 DEF Mutual
<1>10. \A c, w : Ahead(c, w)' = Ahead(c, w)
  BY DEF Ahead
<1> QED BY <1>1, <1>2, <1>3, <1>4, <1>6, <1>8, <1>9, <1>10

\* Every place on the stack leads to the place of the innermost activation.
LEMMA ToInnermost ==
  ASSUME PlanInv, SearchInv, NEW v \in Stacked
  PROVE  calls # <<>> /\ 1 \in DOMAIN calls /\ calls[1].place \in Stacked /\ Reaches(v, calls[1].place)
<1> USE DEF SearchInv
<1>1. PICK i \in DOMAIN calls : Reaches(v, calls[i].place)
  BY DEF Connected
<1>2. DOMAIN calls = 1..Len(calls) /\ Len(calls) \in Nat /\ calls \in Seq(Frames)
  BY DEF SearchTypes
<1>3. 1 \in DOMAIN calls /\ calls # <<>>
  BY <1>1, <1>2
<1>4. /\ calls[i].place \in Stacked /\ calls[1].place \in Stacked
      /\ i = 1 \/ disc[calls[i].place] < disc[calls[1].place]
  BY <1>1, <1>2, <1>3 DEF Timed
<1>5. Stacked \subseteq Places
  BY DEF Stacked, ToSet, SearchTypes
<1>6. Reaches(calls[i].place, calls[1].place)
  <2>1. CASE i = 1
    BY <2>1, <1>4, <1>5, Reaching
  <2>2. CASE disc[calls[i].place] < disc[calls[1].place]
    <3>1. disc[calls[i].place] \in Nat /\ disc[calls[1].place] \in Nat
      BY <1>4, <1>5 DEF SearchTypes
    <3> QED BY <2>2, <3>1, <1>4 DEF Connected
  <2> QED BY <2>1, <2>2, <1>4
<1> QED BY <1>1, <1>3, <1>4, <1>5, <1>6, Reaching

\* A place is discovered: above are the activations, where nothing but w is followed further.
LEMMA Discovers ==
  ASSUME PlanInv, SearchInv, UNCHANGED <<index, plan, sccs>>,
         NEW w \in Places, disc[w] = 0, NEW above \in Seq(Frames), Enter(w, above),
         Len(above) = Len(calls), calls # <<>> => Joined(calls[1].place, w),
         \A i \in DOMAIN calls :
           /\ above[i].place = calls[i].place /\ ToSet(above[i].left) \subseteq ToSet(calls[i].left)
           /\ \A x \in Places : Ahead(calls[i], x) => x = w \/ Ahead(above[i], x)
  PROVE  SearchInv'
<1> USE DEF SearchInv
<1> DEFINE frame == [place |-> w, left |-> Requires(plan[w])]
           t == time + 1
<1>1. /\ disc \in [Places -> Nat] /\ low \in [Places -> Nat] /\ time \in Nat /\ t \in Nat
      /\ stack \in Seq(Places) /\ calls \in Seq(Frames) /\ Stacked \subseteq Places
      /\ DOMAIN calls = 1..Len(calls) /\ Len(calls) \in Nat
      /\ DOMAIN stack = 1..Len(stack) /\ Len(stack) \in Nat
  BY DEF SearchTypes, Stacked, ToSet
<1>2. /\ time' = t /\ disc' = [disc EXCEPT ![w] = t] /\ low' = [low EXCEPT ![w] = t]
      /\ stack' = <<w>> \o stack /\ calls' = <<frame>> \o above
  BY DEF Enter
<1>3. /\ Places' = Places /\ Frames' = Frames
      /\ \A n : Wants(n)' = Wants(n) /\ Requires(n)' = Requires(n)
      /\ \A v, x : Joined(v, x)' = Joined(v, x) /\ Reaches(v, x)' = Reaches(v, x)
      /\ \A v : Mutual(v)' = Mutual(v)
      /\ \A c, x : Ahead(c, x)' = Ahead(c, x)
  BY Still
<1>4. /\ disc' \in [Places -> Nat] /\ low' \in [Places -> Nat]
      /\ disc'[w] = t /\ low'[w] = t
      /\ \A v \in Places : v # w => disc'[v] = disc[v] /\ low'[v] = low[v]
      /\ \A v \in Places : disc[v] <= time /\ disc'[v] <= t /\ disc[v] < t
  BY <1>1, <1>2 DEF Timed
<1>5. w \notin Stacked
  BY DEF Timed
<1>6. plan[w] \in Names /\ frame \in Frames /\ ToSet(frame.left) \subseteq Wants(plan[frame.place])
  <2>1. plan[w] \in Names
    BY DEF PlanInv, Places
  <2>2. Requires(plan[w]) \in Seq(Wants(plan[w])) /\ Wants(plan[w]) \subseteq Wanted
    BY <2>1 DEF PlanInv, IsIndex, Requires, Wants, Wanted
  <2>3. Requires(plan[w]) \in Seq(Wanted)
    BY <2>2, SeqMonotonic
  <2> QED BY <2>1, <2>3 DEF Frames, Wants
<1>7. /\ stack' \in Seq(Places) /\ DOMAIN stack' = 1..Len(stack) + 1 /\ stack'[1] = w
      /\ \A i \in DOMAIN stack' : i = 1 \/ (i - 1 \in DOMAIN stack /\ stack'[i] = stack[i - 1])
  <2> HIDE DEF SearchInv
  <2>1. stack \in Seq(Places) /\ stack' = <<w>> \o stack
    BY <1>1, <1>2
  <2> QED BY <2>1, ConsProperties
<1>8. Stacked' = {w} \cup Stacked
  <2> HIDE DEF SearchInv
  <2>1. stack \in Seq(Places) /\ stack' = <<w>> \o stack
    BY <1>1, <1>2
  <2>2. ToSet(stack') = {w} \cup ToSet(stack)
    BY <2>1, ConsToSet
  <2> QED BY <2>2 DEF Stacked
<1>9. /\ calls' \in Seq(Frames) /\ DOMAIN calls' = 1..Len(calls) + 1 /\ calls'[1] = frame
      /\ \A i \in DOMAIN above : calls'[i + 1] = above[i]
      /\ \A i \in DOMAIN calls' : i = 1 \/ (i - 1 \in DOMAIN above /\ calls'[i] = above[i - 1])
  <2> HIDE DEF frame, SearchInv
  <2> QED BY <1>2, <1>6, ConsProperties
<1>10. DOMAIN above = DOMAIN calls
  BY <1>1
<1>11. /\ 1 \in DOMAIN calls' /\ calls'[1].place = w
       /\ \A x \in Places : Joined(w, x) => Ahead(calls'[1], x)
       /\ \A i \in DOMAIN calls :
            /\ i + 1 \in DOMAIN calls' /\ calls'[i + 1].place = calls[i].place
            /\ \A x \in Places : Ahead(calls[i], x) => x = w \/ Ahead(calls'[i + 1], x)
  <2>1. calls'[1].place = w /\ calls'[1].left = Requires(plan[w])
    BY <1>9
  <2>2. \A x \in Places : Joined(w, x) => Ahead(calls'[1], x)
    BY <2>1 DEF Joined, Leads, Ahead
  <2>3. \A i \in DOMAIN calls : i + 1 \in DOMAIN calls' /\ calls'[i + 1] = above[i]
    BY <1>1, <1>9, <1>10
  <2>4. 1 \in DOMAIN calls'
    BY <1>1, <1>9
  <2>5. \A i \in DOMAIN calls : calls'[i + 1].place = calls[i].place
    BY <2>3
  <2>6. \A i \in DOMAIN calls : \A x \in Places : Ahead(calls[i], x) => x = w \/ Ahead(calls'[i + 1], x)
    BY <2>3
  <2> QED BY <2>1, <2>2, <2>3, <2>4, <2>5, <2>6
<1>12. \A i \in DOMAIN calls' :
         \/ i = 1
         \/ /\ i - 1 \in DOMAIN calls /\ calls'[i].place = calls[i - 1].place
            /\ calls[i - 1].place \in Stacked /\ calls[i - 1].place # w
            /\ ToSet(calls'[i].left) \subseteq ToSet(calls[i - 1].left)
            /\ \A x \in Places : Ahead(calls[i - 1], x) => x = w \/ Ahead(calls'[i], x)
  BY <1>5, <1>9, <1>10 DEF Timed
<1> HIDE DEF SearchInv, frame, t
<1>20. SearchTypes'
  <2>1. \A i \in DOMAIN calls' : ToSet(calls'[i].left) \subseteq Wants(plan[calls'[i].place])
    BY <1>6, <1>9, <1>11, <1>12 DEF SearchInv, SearchTypes, frame
  <2> QED BY <1>1, <1>2, <1>3, <1>4, <1>7, <1>9, <2>1 DEF SearchTypes
<1>21. Timed'
  <2>1. \A v, x \in Places : disc'[v] = disc'[x] /\ disc'[v] # 0 => v = x
    BY <1>1, <1>4 DEF SearchInv, Timed
  <2>2. \A v \in Stacked' : disc'[v] # 0
    BY <1>1, <1>4, <1>8, t # 0 DEF SearchInv, Timed, t
  <2>3. ASSUME NEW i \in DOMAIN stack', NEW j \in DOMAIN stack', i < j
        PROVE  disc'[stack'[j]] < disc'[stack'[i]]
    <3> DEFINE below(n) == /\ n - 1 \in DOMAIN stack /\ stack'[n] = stack[n - 1]
                           /\ disc'[stack'[n]] = disc[stack[n - 1]] /\ disc[stack[n - 1]] < t
    <3>0. \A n \in DOMAIN stack' : n # 1 => below(n)
      <4> SUFFICES ASSUME NEW n \in DOMAIN stack', n # 1 PROVE below(n)
        OBVIOUS
      <4>1. n - 1 \in DOMAIN stack /\ stack'[n] = stack[n - 1]
        BY <1>7
      <4>2. stack[n - 1] \in Stacked
        BY <4>1 DEF Stacked, ToSet
      <4> QED BY <4>1, <4>2, <1>1, <1>4, <1>5
    <3>01. DOMAIN stack' = 1..Len(stack) + 1 /\ Len(stack) \in Nat
      BY <1>1, <1>7
    <3>02. j # 1 /\ i - 1 < j - 1
      BY <2>3, <3>01
    <3> HIDE DEF below
    <3>1. below(j)
      BY <3>0, <3>02
    <3>2. CASE i = 1
      BY <3>1, <3>2, <1>4, <1>7 DEF below
    <3>3. CASE i # 1
      <4>1. below(i) /\ i - 1 < j - 1
        BY <3>0, <3>02, <3>3
      <4> QED BY <3>1, <4>1 DEF SearchInv, Timed, below
    <3> QED BY <3>2, <3>3
  <2>4. ASSUME NEW i \in DOMAIN calls', NEW j \in DOMAIN calls', i < j
        PROVE  disc'[calls'[j].place] < disc'[calls'[i].place]
    <3>1. /\ j - 1 \in DOMAIN calls /\ calls'[j].place = calls[j - 1].place
          /\ calls[j - 1].place \in Places /\ disc'[calls'[j].place] = disc[calls[j - 1].place]
      BY <2>4, <1>1, <1>4, <1>9, <1>12
    <3>2. CASE i = 1
      BY <3>1, <3>2, <1>4, <1>11
    <3>3. CASE i # 1
      <4>1. /\ i - 1 \in DOMAIN calls /\ calls'[i].place = calls[i - 1].place
            /\ calls[i - 1].place \in Places /\ disc'[calls'[i].place] = disc[calls[i - 1].place]
            /\ i - 1 < j - 1
        BY <2>4, <3>3, <1>1, <1>4, <1>9, <1>12
      <4> QED BY <3>1, <4>1 DEF SearchInv, Timed
    <3> QED BY <3>2, <3>3
  <2>5. \A i \in DOMAIN calls' : calls'[i].place \in Stacked'
    BY <1>8, <1>11, <1>12
  <2> QED BY <1>2, <1>3, <1>4, <2>1, <2>2, <2>3, <2>4, <2>5 DEF Timed
<1>22. Explored'
  <2> SUFFICES ASSUME NEW v \in Places, NEW x \in Places, disc'[v] # 0, Joined(v, x), disc'[x] = 0
               PROVE  \E i \in DOMAIN calls' : calls'[i].place = v /\ Ahead(calls'[i], x)
    BY <1>3 DEF Explored
  <2>1. CASE v = w
    BY <2>1, <1>11
  <2>2. CASE v # w
    <3>1. x # w /\ disc[x] = 0 /\ disc[v] # 0
      BY <2>2, <1>1, <1>4 DEF t
    <3>2. PICK i \in DOMAIN calls : calls[i].place = v /\ Ahead(calls[i], x)
      BY <3>1 DEF SearchInv, Explored
    <3> QED BY <3>1, <3>2, <1>11
  <2> QED BY <2>1, <2>2
<1>23. Gone' = Gone
  BY <1>1, <1>3, <1>4, <1>5, <1>8 DEF Gone, t
<1>24. Departed' /\ Reported'
  BY <1>3, <1>23 DEF SearchInv, Departed, Reported
<1>25. Connected'
  <2>1. \A v \in Stacked : Reaches(v, w)
    <3> SUFFICES ASSUME NEW v \in Stacked PROVE Reaches(v, w)
      OBVIOUS
    <3>1. Reaches(v, calls[1].place) /\ calls[1].place \in Places /\ Joined(calls[1].place, w)
      BY <1>1, ToInnermost
    <3> QED BY <3>1, <1>1, Reaching
  <2>2. ASSUME NEW v \in Stacked', NEW x \in Stacked', disc'[v] <= disc'[x] PROVE Reaches(v, x)
    <3>1. CASE x = w
      BY <3>1, <2>1, <1>8, Reaching
    <3>2. CASE x # w
      <4>1. v # w /\ v \in Stacked /\ x \in Stacked /\ disc[v] <= disc[x]
        BY <2>2, <3>2, <1>1, <1>4, <1>8
      <4> QED BY <4>1 DEF SearchInv, Connected
    <3> QED BY <3>1, <3>2
  <2>3. ASSUME NEW v \in Stacked'
        PROVE  \E i \in DOMAIN calls' : disc'[calls'[i].place] <= disc'[v] /\ Reaches(v, calls'[i].place)
    <3>1. CASE v = w
      BY <3>1, <1>4, <1>11, Reaching
    <3>2. CASE v # w
      <4>1. v \in Stacked /\ disc'[v] = disc[v]
        BY <3>2, <1>1, <1>4, <1>8
      <4>2. PICK i \in DOMAIN calls : disc[calls[i].place] <= disc[v] /\ Reaches(v, calls[i].place)
        BY <4>1 DEF SearchInv, Connected
      <4>3. calls[i].place \in Places /\ calls[i].place # w
        BY <1>1, <1>5 DEF SearchInv, Timed
      <4>4. disc'[calls[i].place] <= disc'[v]
        BY <4>1, <4>2, <4>3, <1>4
      <4> QED BY <4>2, <4>4, <1>11
    <3> QED BY <3>1, <3>2
  <2> QED BY <1>3, <2>2, <2>3 DEF Connected
<1>26. Lowest'
  <2> SUFFICES ASSUME NEW v \in Stacked'
               PROVE  low'[v] <= disc'[v] /\ \E x \in Stacked' : disc'[x] = low'[v] /\ Reaches(v, x)
    BY <1>3 DEF Lowest
  <2>1. CASE v = w
    BY <2>1, <1>1, <1>4, <1>8, Reaching
  <2>2. CASE v # w
    <3>1. v \in Stacked /\ disc'[v] = disc[v] /\ low'[v] = low[v]
      BY <2>2, <1>1, <1>4, <1>8
    <3>2. PICK x \in Stacked : disc[x] = low[v] /\ Reaches(v, x)
      BY <3>1 DEF SearchInv, Lowest
    <3>3. disc'[x] = disc[x]
      BY <1>1, <1>4, <1>5
    <3>4. low[v] <= disc[v]
      BY <3>1 DEF SearchInv, Lowest
    <3> QED BY <3>1, <3>2, <3>3, <3>4, <1>8
  <2> QED BY <2>1, <2>2
<1>27. LowEnough'
  <2> SUFFICES ASSUME NEW i \in DOMAIN calls', NEW v \in Stacked', NEW x \in Stacked',
                      Home(v, i)', Joined(v, x), v = calls'[i].place => ~Ahead(calls'[i], x)
               PROVE  low'[calls'[i].place] <= disc'[x]
    BY <1>3 DEF LowEnough
  <2>1. /\ disc'[calls'[i].place] <= disc'[v]
        /\ \A k \in 1..i - 1 : disc'[v] < disc'[calls'[k].place]
    BY DEF Home
  <2>2. v \in Places /\ x \in Places
    BY <1>1, <1>8
  <2>3. i # 1
    <3>1. SUFFICES ASSUME i = 1 PROVE FALSE
      OBVIOUS
    <3>2. v = w
      BY <2>1, <2>2, <3>1, <1>1, <1>4, <1>11
    <3> QED BY <2>2, <3>1, <3>2, <1>11
  <2> DEFINE j == i - 1
             p == calls[j].place
  <2>4. j \in DOMAIN calls /\ calls'[i].place = p /\ p \in Places /\ p # w
    BY <2>3, <1>1, <1>12
  <2>5. v # w /\ v \in Stacked
    <3>1. 1 \in 1..i - 1
      BY <2>3, <1>9
    <3>2. disc'[v] < t
      BY <2>1, <3>1, <1>4, <1>11
    <3>3. v # w
      BY <3>2, <1>1, <1>4
    <3> QED BY <3>3, <1>8
  <2>6. Home(v, j)
    <3>1. disc[p] <= disc[v]
      BY <2>1, <2>2, <2>4, <2>5, <1>4
    <3>2. ASSUME NEW k \in 1..j - 1 PROVE disc[v] < disc[calls[k].place]
      <4>1. k + 1 \in 1..i - 1 /\ k \in DOMAIN calls
        BY <2>4, <1>1
      <4>2. calls'[k + 1].place = calls[k].place /\ calls[k].place \in Places /\ calls[k].place # w
        BY <4>1, <1>1, <1>5, <1>11 DEF SearchInv, Timed
      <4> QED BY <2>1, <2>2, <2>5, <4>1, <4>2, <1>4
    <3> QED BY <3>1, <3>2 DEF Home
  <2>7. low'[p] = low[p] /\ low[p] \in Nat /\ disc[p] \in Nat /\ low[p] <= disc[p]
    BY <2>4, <1>1, <1>4 DEF SearchInv, Lowest, Timed
  <2>8. CASE x = w
    BY <2>4, <2>7, <2>8, <1>1, <1>4
  <2>9. CASE x # w
    <3>1. x \in Stacked /\ disc'[x] = disc[x]
      BY <2>2, <2>9, <1>4, <1>8
    <3>2. v = p => ~Ahead(calls[j], x)
      BY <2>2, <2>3, <2>4, <2>9, <1>12
    <3> HIDE DEF p, j
    <3>3. low[p] <= disc[x]
      BY <2>4, <2>5, <2>6, <3>1, <3>2 DEF SearchInv, LowEnough, p
    <3> QED BY <2>4, <2>7, <3>1, <3>3
  <2> QED BY <2>8, <2>9
<1> QED BY <1>20, <1>21, <1>22, <1>24, <1>25, <1>26, <1>27 DEF SearchInv

\* A requirement is followed to no new place: here is the activation without it.
LEMMA Follows ==
  ASSUME PlanInv, SearchInv, UNCHANGED <<index, plan, disc, stack, time, sccs>>,
         calls # <<>>, NEW here \in Frames, calls' = <<here>> \o Tail(calls),
         here.place = calls[1].place, ToSet(here.left) \subseteq ToSet(calls[1].left),
         low' \in [Places -> Nat], \A v \in Places : low'[v] <= low[v],
         \A v \in Stacked : low'[v] = low[v] \/ \E x \in Stacked : disc[x] = low'[v] /\ Joined(v, x),
         \A x \in Places : Ahead(calls[1], x) =>
           Ahead(here, x) \/ (disc[x] # 0 /\ (x \in Stacked => low'[here.place] <= disc[x]))
  PROVE  SearchInv'
<1>1. /\ disc \in [Places -> Nat] /\ low \in [Places -> Nat] /\ time \in Nat
      /\ calls \in Seq(Frames) /\ Stacked \subseteq Places
      /\ DOMAIN calls = 1..Len(calls) /\ Len(calls) \in Nat
  BY DEF SearchInv, SearchTypes, Stacked, ToSet
<1>2. /\ Places' = Places /\ Frames' = Frames
      /\ \A n : Wants(n)' = Wants(n)
      /\ \A v, x : Joined(v, x)' = Joined(v, x) /\ Reaches(v, x)' = Reaches(v, x)
      /\ \A v : Mutual(v)' = Mutual(v)
      /\ \A c, x : Ahead(c, x)' = Ahead(c, x)
  BY Still
<1>3. Stacked' = Stacked /\ Gone' = Gone
  BY <1>2 DEF Stacked, Gone
<1>4. /\ Tail(calls) \in Seq(Frames) /\ Len(calls) >= 1 /\ Len(Tail(calls)) = Len(calls) - 1
      /\ \A i \in 1..Len(calls) - 1 : Tail(calls)[i] = calls[i + 1]
  BY <1>1, TailProperties
<1>5. /\ calls' \in Seq(Frames) /\ DOMAIN calls' = 1..Len(Tail(calls)) + 1 /\ calls'[1] = here
      /\ \A i \in DOMAIN calls' : i = 1 \/ (i - 1 \in DOMAIN Tail(calls) /\ calls'[i] = Tail(calls)[i - 1])
  BY <1>4, ConsProperties
<1>6. DOMAIN calls' = DOMAIN calls /\ 1 \in DOMAIN calls
  BY <1>1, <1>4, <1>5
<1>7. \A i \in DOMAIN calls : i # 1 => calls'[i] = calls[i]
  <2> SUFFICES ASSUME NEW i \in DOMAIN calls, i # 1 PROVE calls'[i] = calls[i]
    OBVIOUS
  <2>1. i - 1 \in 1..Len(calls) - 1 /\ (i - 1) + 1 = i
    BY <1>1
  <2> QED BY <2>1, <1>4, <1>5, <1>6
<1>8. \A i \in DOMAIN calls :
        /\ calls'[i].place = calls[i].place /\ calls[i].place \in Stacked
        /\ ToSet(calls'[i].left) \subseteq ToSet(calls[i].left)
        /\ \A x \in Places : Ahead(calls[i], x) =>
             \/ Ahead(calls'[i], x)
             \/ disc[x] # 0 /\ (x \in Stacked => low'[calls[i].place] <= disc[x])
  <2> SUFFICES ASSUME NEW i \in DOMAIN calls
               PROVE  /\ calls'[i].place = calls[i].place /\ calls[i].place \in Stacked
                      /\ ToSet(calls'[i].left) \subseteq ToSet(calls[i].left)
                      /\ \A x \in Places : Ahead(calls[i], x) =>
                           \/ Ahead(calls'[i], x)
                           \/ disc[x] # 0 /\ (x \in Stacked => low'[calls[i].place] <= disc[x])
    OBVIOUS
  <2>1. calls[i].place \in Stacked
    BY DEF SearchInv, Timed
  <2>2. CASE i = 1
    BY <2>1, <2>2, <1>5
  <2>3. CASE i # 1
    BY <2>1, <2>3, <1>7
  <2> QED BY <2>2, <2>3
<1>10. SearchTypes'
  <2>1. \A i \in DOMAIN calls' : ToSet(calls'[i].left) \subseteq Wants(plan[calls'[i].place])
    BY <1>6, <1>8 DEF SearchInv, SearchTypes
  <2> QED BY <1>2, <1>5, <2>1 DEF SearchInv, SearchTypes
<1>11. Timed'
  BY <1>2, <1>3, <1>6, <1>8 DEF SearchInv, Timed
<1>12. Explored'
  <2> SUFFICES ASSUME NEW v \in Places, NEW x \in Places, disc[v] # 0, Joined(v, x), disc[x] = 0
               PROVE  \E i \in DOMAIN calls' : calls'[i].place = v /\ Ahead(calls'[i], x)
    BY <1>2 DEF Explored
  <2>1. PICK i \in DOMAIN calls : calls[i].place = v /\ Ahead(calls[i], x)
    BY DEF SearchInv, Explored
  <2> QED BY <2>1, <1>6, <1>8
<1>13. Departed' /\ Reported'
  BY <1>2, <1>3 DEF SearchInv, Departed, Reported
<1>14. Connected'
  BY <1>2, <1>3, <1>6, <1>8 DEF SearchInv, Connected
<1>15. Lowest'
  <2> SUFFICES ASSUME NEW v \in Stacked
               PROVE  low'[v] <= disc[v] /\ \E x \in Stacked : disc[x] = low'[v] /\ Reaches(v, x)
    BY <1>2, <1>3 DEF Lowest
  <2>1. low'[v] <= low[v] /\ low[v] <= disc[v] /\ low'[v] \in Nat /\ low[v] \in Nat /\ disc[v] \in Nat
    BY <1>1 DEF SearchInv, Lowest
  <2>2. \E x \in Stacked : disc[x] = low'[v] /\ Reaches(v, x)
    <3>1. CASE low'[v] = low[v]
      BY <3>1 DEF SearchInv, Lowest
    <3>2. CASE low'[v] # low[v]
      <4>1. PICK x \in Stacked : disc[x] = low'[v] /\ Joined(v, x)
        BY <3>2
      <4> QED BY <4>1, <1>1, Reaching
    <3> QED BY <3>1, <3>2
  <2> QED BY <2>1, <2>2
<1>16. LowEnough'
  <2> SUFFICES ASSUME NEW i \in DOMAIN calls, NEW v \in Stacked, NEW x \in Stacked,
                      Home(v, i)', Joined(v, x), v = calls[i].place => ~Ahead(calls'[i], x)
               PROVE  low'[calls[i].place] <= disc[x]
    BY <1>2, <1>3, <1>6, <1>8 DEF LowEnough
  <2> DEFINE p == calls[i].place
  <2>1. Home(v, i)
    <3>1. /\ disc[calls'[i].place] <= disc[v]
          /\ \A k \in 1..i - 1 : disc[v] < disc[calls'[k].place]
      BY DEF Home
    <3>2. \A k \in 1..i - 1 : k \in DOMAIN calls
      BY <1>1
    <3> QED BY <1>8, <3>1, <3>2 DEF Home
  <2>2. CASE v = p /\ Ahead(calls[i], x)
    BY <2>2, <1>1, <1>8
  <2>3. CASE ~(v = p /\ Ahead(calls[i], x))
    <3>1. low[p] <= disc[x]
      BY <2>1, <2>3 DEF SearchInv, LowEnough
    <3>2. p \in Places
      BY <1>1, <1>8
    <3>3. low'[p] <= low[p] /\ low'[p] \in Nat /\ low[p] \in Nat /\ disc[x] \in Nat
      BY <3>2, <1>1
    <3> QED BY <3>1, <3>3
  <2> QED BY <2>2, <2>3
<1> QED BY <1>10, <1>11, <1>12, <1>13, <1>14, <1>15, <1>16 DEF SearchInv

\* An activation ends.  What the lemmas below share: the activations that are left are those under
\* it, and with the innermost one nothing was ahead any more.
LEMMA Ends ==
  ASSUME PlanInv, SearchInv, UNCHANGED <<index, plan, disc>>, calls # <<>>, calls[1].left = <<>>,
         calls' = Tail(calls)
  PROVE  /\ disc \in [Places -> Nat] /\ low \in [Places -> Nat] /\ time \in Nat
         /\ Stacked \subseteq Places /\ Len(calls) \in Nat /\ DOMAIN calls = 1..Len(calls)
         /\ 1 \in DOMAIN calls /\ \A i \in DOMAIN calls : calls[i].place \in Stacked
         /\ \A x : ~Ahead(calls[1], x)
         /\ calls' \in Seq(Frames) /\ DOMAIN calls' = 1..Len(calls) - 1
         /\ \A i \in DOMAIN calls' : i + 1 \in DOMAIN calls /\ calls'[i] = calls[i + 1]
         /\ \A i \in DOMAIN calls : i # 1 =>
              /\ i - 1 \in DOMAIN calls' /\ calls'[i - 1] = calls[i]
              /\ disc[calls[i].place] < disc[calls[1].place]
         /\ \A i \in DOMAIN calls' : ToSet(calls'[i].left) \subseteq Wants(plan[calls'[i].place])
         /\ Explored'
<1>1. /\ disc \in [Places -> Nat] /\ low \in [Places -> Nat] /\ time \in Nat
      /\ calls \in Seq(Frames) /\ Stacked \subseteq Places
      /\ DOMAIN calls = 1..Len(calls) /\ Len(calls) \in Nat
      /\ \A i \in DOMAIN calls : calls[i].place \in Stacked
  BY DEF SearchInv, SearchTypes, Timed, Stacked, ToSet
<1>2. /\ Places' = Places /\ \A n : Wants(n)' = Wants(n)
      /\ \A v, x : Joined(v, x)' = Joined(v, x)
      /\ \A c, x : Ahead(c, x)' = Ahead(c, x)
  BY Still
<1>3. /\ calls' \in Seq(Frames) /\ Len(calls) >= 1 /\ DOMAIN calls' = 1..Len(calls) - 1
      /\ \A i \in 1..Len(calls) - 1 : calls'[i] = calls[i + 1]
  BY <1>1, TailProperties
<1>4. /\ 1 \in DOMAIN calls /\ \A i \in DOMAIN calls' : i + 1 \in DOMAIN calls /\ calls'[i] = calls[i + 1]
  BY <1>1, <1>3
<1>5. ASSUME NEW i \in DOMAIN calls, i # 1
      PROVE  /\ i - 1 \in DOMAIN calls' /\ calls'[i - 1] = calls[i]
             /\ disc[calls[i].place] < disc[calls[1].place]
  <2>1. i - 1 \in 1..Len(calls) - 1 /\ (i - 1) + 1 = i /\ 1 < i
    BY <1>1, <1>5
  <2>2. calls'[i - 1] = calls[i]
    BY <2>1, <1>3
  <2> QED BY <2>1, <2>2, <1>3, <1>4 DEF SearchInv, Timed
<1>6. \A x : ~Ahead(calls[1], x)
  BY DEF Ahead, ToSet
<1>7. \A i \in DOMAIN calls' : ToSet(calls'[i].left) \subseteq Wants(plan[calls'[i].place])
  BY <1>4 DEF SearchInv, SearchTypes
<1>8. Explored'
  <2> SUFFICES ASSUME NEW v \in Places, NEW x \in Places, disc[v] # 0, Joined(v, x), disc[x] = 0
               PROVE  \E i \in DOMAIN calls' : calls'[i].place = v /\ Ahead(calls'[i], x)
    BY <1>2 DEF Explored
  <2>1. PICK i \in DOMAIN calls : calls[i].place = v /\ Ahead(calls[i], x)
    BY DEF SearchInv, Explored
  <2>2. i # 1
    BY <2>1, <1>6
  <2> QED BY <2>1, <2>2, <1>5
<1> QED BY <1>1, <1>3, <1>4, <1>5, <1>6, <1>7, <1>8

\* What is on the stack from the place on whose lowest time is its own.
Above(v) == {x \in Stacked : disc[v] <= disc[x]}

\* Nothing leads out of it but to what is gone, and its places all lead to each other.
LEMMA AboveIsMutual ==
  ASSUME PlanInv, SearchInv, calls # <<>>, calls[1].left = <<>>,
         low[calls[1].place] = disc[calls[1].place]
  PROVE  LET S == Above(calls[1].place)
         IN  /\ \A u \in S \cup Gone, x \in Places : Joined(u, x) => x \in S \cup Gone
             /\ \A u \in S : Mutual(u) = {plan[x] : x \in S}
<1> DEFINE v == calls[1].place
           S == Above(v)
<1>1. /\ disc \in [Places -> Nat] /\ low \in [Places -> Nat] /\ Stacked \subseteq Places
      /\ Gone \subseteq Places /\ calls \in Seq(Frames)
      /\ DOMAIN calls = 1..Len(calls) /\ Len(calls) \in Nat
      /\ \A i \in DOMAIN calls : calls[i].place \in Stacked
  BY DEF SearchInv, SearchTypes, Timed, Stacked, ToSet, Gone
<1>2. 1 \in DOMAIN calls
  BY <1>1, EmptySeq
<1>3. /\ \A x : ~Ahead(calls[1], x)
      /\ \A i \in DOMAIN calls : i # 1 => disc[calls[i].place] < disc[v]
  <2>1. \A x : ~Ahead(calls[1], x)
    BY DEF Ahead, ToSet
  <2> QED BY <1>1, <1>2, <2>1 DEF SearchInv, Timed
<1>4. v \in Stacked /\ v \in S /\ S \subseteq Stacked /\ \A u \in S : disc[v] <= disc[u]
  BY <1>1, <1>2 DEF Above
<1>5. ASSUME NEW u \in S, NEW x \in Places, Joined(u, x) PROVE x \in S \cup Gone
  <2>1. disc[x] # 0
    <3>1. SUFFICES ASSUME disc[x] = 0 PROVE FALSE
      OBVIOUS
    <3>2. disc[u] # 0 /\ u \in Places
      BY <1>1, <1>4 DEF SearchInv, Timed
    <3>3. PICK i \in DOMAIN calls : calls[i].place = u /\ Ahead(calls[i], x)
      BY <1>5, <3>1, <3>2 DEF SearchInv, Explored
    <3>4. disc[calls[i].place] < disc[v] /\ disc[v] <= disc[u]
      BY <3>3, <1>3, <1>4
    <3> QED BY <3>2, <3>3, <3>4, <1>1, <1>4
  <2>2. CASE x \notin Stacked
    BY <2>1, <2>2 DEF Gone
  <2>3. CASE x \in Stacked
    <3>1. Home(u, 1)
      BY <1>4 DEF Home
    <3>2. low[v] <= disc[x]
      BY <1>2, <1>3, <1>4, <1>5, <2>3, <3>1 DEF SearchInv, LowEnough
    <3> QED BY <2>3, <3>2 DEF Above
  <2> QED BY <2>2, <2>3
<1>6. \A u \in Gone, x \in Places : Joined(u, x) => x \in Gone
  BY DEF SearchInv, Departed
<1>7. \A u \in S \cup Gone, x \in Places : Joined(u, x) => x \in S \cup Gone
  BY <1>5, <1>6
<1> HIDE DEF S
<1>8. \A u \in S \cup Gone, x \in Places : Reaches(u, x) => x \in S \cup Gone
  <2>1. S \cup Gone \in SUBSET Places
    BY <1>1, <1>4
  <2> QED BY <1>7, <2>1, ReachingClosed
<1>9. \A u \in Gone, x \in Places : Reaches(u, x) => x \in Gone
  <2>1. Gone \in SUBSET Places
    BY <1>1
  <2> QED BY <1>6, <2>1, ReachingClosed
<1>10. \A u, x \in S : Reaches(u, x)
  <2> SUFFICES ASSUME NEW u \in S, NEW x \in S PROVE Reaches(u, x)
    OBVIOUS
  <2>1. PICK i \in DOMAIN calls : disc[calls[i].place] <= disc[u] /\ Reaches(u, calls[i].place)
    BY <1>4 DEF SearchInv, Connected
  <2>2. calls[i].place \in Stacked /\ calls[i].place \in Places
    BY <1>1
  <2>3. calls[i].place \in S
    BY <2>1, <2>2, <1>8 DEF Gone
  <2>4. i = 1
    <3>1. disc[v] <= disc[calls[i].place] /\ disc[v] \in Nat /\ disc[calls[i].place] \in Nat
      BY <2>2, <2>3, <1>1, <1>4
    <3> QED BY <3>1, <1>3
  <2>5. Reaches(v, x)
    BY <1>4 DEF SearchInv, Connected
  <2> QED BY <2>1, <2>4, <2>5, <1>1, <1>4, Reaching
<1>11. ASSUME NEW u \in S PROVE Mutual(u) = {plan[x] : x \in S}
  <2>1. u \in Places /\ u \notin Gone /\ S \subseteq Places
    BY <1>1, <1>4 DEF Gone
  <2>2. \A x \in Places : Reaches(u, x) /\ Reaches(x, u) <=> x \in S
    BY <2>1, <1>8, <1>9, <1>10
  <2>3. {x \in Places : Reaches(u, x) /\ Reaches(x, u)} = S
    BY <2>1, <2>2
  <2> QED BY <2>3 DEF Mutual
<1> QED BY <1>7, <1>11 DEF S

\* The stack down to a place is what is above it; what is left is the rest, in the same order.
LEMMA SplitStack ==
  ASSUME PlanInv, SearchInv, NEW at \in DOMAIN stack
  PROVE  LET rest == SubSeq(stack, at + 1, Len(stack))
         IN  /\ ToSet(SubSeq(stack, 1, at)) = Above(stack[at])
             /\ rest \in Seq(Places) /\ ToSet(rest) = Stacked \ Above(stack[at])
             /\ \A i, j \in DOMAIN rest : i < j => disc[rest[j]] < disc[rest[i]]
<1> DEFINE top  == SubSeq(stack, 1, at)
           rest == SubSeq(stack, at + 1, Len(stack))
           v    == stack[at]
<1>1. /\ disc \in [Places -> Nat] /\ Stacked \subseteq Places
      /\ DOMAIN stack = 1..Len(stack) /\ Len(stack) \in Nat /\ at \in 1..Len(stack)
      /\ \A i \in DOMAIN stack : stack[i] \in Stacked /\ stack[i] \in Places
  BY DEF SearchInv, SearchTypes, Stacked, ToSet
<1>2. /\ top \in Seq(Places) /\ Len(top) = at /\ DOMAIN top = 1..at
      /\ \A i \in 1..at : top[i] = stack[i]
  <2>1. at \in Int /\ 1 \in Int /\ 1 <= at /\ \A i \in 1..at : i \in DOMAIN stack
    BY <1>1
  <2>2. \A i \in 1..at : stack[i] \in Places
    BY <1>1, <2>1
  <2>3. top \in Seq(Places) /\ Len(top) = at - 1 + 1 /\ \A i \in 1..at - 1 + 1 : top[i] = stack[1 + i - 1]
    BY <2>1, <2>2, SubSeqProperties
  <2> HIDE DEF top
  <2> QED BY <2>1, <2>3, LenProperties
<1>3. /\ rest \in Seq(Places) /\ Len(rest) = Len(stack) - at /\ DOMAIN rest = 1..Len(stack) - at
      /\ \A i \in 1..Len(stack) - at : rest[i] = stack[at + i]
  <2>1. at + 1 \in Int /\ Len(stack) \in Int /\ \A i \in at + 1..Len(stack) : i \in DOMAIN stack
    BY <1>1
  <2>2. \A i \in at + 1..Len(stack) : stack[i] \in Places
    BY <1>1, <2>1
  <2>3. /\ rest \in Seq(Places)
        /\ Len(rest) = IF at + 1 <= Len(stack) THEN Len(stack) - (at + 1) + 1 ELSE 0
        /\ \A i \in 1..Len(stack) - (at + 1) + 1 : rest[i] = stack[at + 1 + i - 1]
    BY <2>1, <2>2, SubSeqProperties
  <2> HIDE DEF rest
  <2>4. Len(rest) = Len(stack) - at
    BY <1>1, <2>3
  <2>5. \A i \in 1..Len(stack) - at : rest[i] = stack[at + i]
    <3> SUFFICES ASSUME NEW i \in 1..Len(stack) - at PROVE rest[i] = stack[at + i]
      OBVIOUS
    <3>1. i \in 1..Len(stack) - (at + 1) + 1 /\ at + 1 + i - 1 = at + i
      BY <1>1
    <3> QED BY <2>3, <3>1
  <2> QED BY <2>3, <2>4, <2>5, LenProperties
<1> HIDE DEF top, rest
<1>4. \A i, j \in DOMAIN stack : i < j => disc[stack[j]] < disc[stack[i]]
  BY DEF SearchInv, Timed
<1>5. ASSUME NEW i \in 1..Len(stack) PROVE disc[v] <= disc[stack[i]] <=> i <= at
  <2>1. disc[stack[i]] \in Nat /\ disc[v] \in Nat /\ i \in Nat /\ at \in Nat
    BY <1>1
  <2>2. CASE i < at
    BY <1>1, <1>4, <2>1, <2>2
  <2>3. CASE i = at
    BY <2>1, <2>3
  <2>4. CASE at < i
    <3>1. disc[stack[i]] < disc[v]
      BY <1>1, <1>4, <2>4
    <3> HIDE DEF v
    <3> QED BY <2>1, <2>4, <3>1
  <2> QED BY <2>1, <2>2, <2>3, <2>4
<1> HIDE DEF v
<1>6. \A x \in Above(v) : x \in ToSet(top)
  <2> SUFFICES ASSUME NEW x \in Above(v) PROVE x \in ToSet(top)
    OBVIOUS
  <2>1. PICK i \in DOMAIN stack : x = stack[i]
    BY DEF Above, Stacked, ToSet
  <2>2. i \in 1..at
    BY <1>1, <1>5, <2>1 DEF Above
  <2> QED BY <1>2, <2>1, <2>2 DEF ToSet
<1>7. \A x \in ToSet(top) : x \in Above(v)
  <2> SUFFICES ASSUME NEW x \in ToSet(top) PROVE x \in Above(v)
    OBVIOUS
  <2>1. PICK i \in 1..at : x = stack[i]
    BY <1>2 DEF ToSet
  <2>2. i \in 1..Len(stack) /\ i <= at
    BY <1>1
  <2> QED BY <1>1, <1>5, <2>1, <2>2 DEF Above
<1>8. \A x \in Stacked \ Above(v) : x \in ToSet(rest)
  <2> SUFFICES ASSUME NEW x \in Stacked \ Above(v) PROVE x \in ToSet(rest)
    OBVIOUS
  <2>1. PICK i \in DOMAIN stack : x = stack[i]
    BY DEF Stacked, ToSet
  <2>2. at < i
    BY <1>1, <1>5, <2>1 DEF Above
  <2>3. i - at \in 1..Len(stack) - at /\ at + (i - at) = i
    BY <1>1, <2>2
  <2>4. rest[i - at] = x /\ i - at \in DOMAIN rest
    BY <1>3, <2>1, <2>3
  <2> QED BY <2>4 DEF ToSet
<1>9. \A x \in ToSet(rest) : x \in Stacked \ Above(v)
  <2> SUFFICES ASSUME NEW x \in ToSet(rest) PROVE x \in Stacked \ Above(v)
    OBVIOUS
  <2>1. PICK i \in 1..Len(stack) - at : x = stack[at + i]
    BY <1>3 DEF ToSet
  <2>2. at + i \in 1..Len(stack) /\ ~(at + i <= at)
    BY <1>1
  <2> QED BY <1>1, <1>5, <2>1, <2>2 DEF Above
<1>10. ASSUME NEW i \in DOMAIN rest, NEW j \in DOMAIN rest, i < j PROVE disc[rest[j]] < disc[rest[i]]
  <2>1. i \in 1..Len(stack) - at /\ j \in 1..Len(stack) - at
    BY <1>3
  <2>2. at + i \in DOMAIN stack /\ at + j \in DOMAIN stack /\ at + i < at + j
    BY <1>1, <1>10, <2>1
  <2> QED BY <1>3, <1>4, <2>1, <2>2
<1> QED BY <1>3, <1>6, <1>7, <1>8, <1>9, <1>10 DEF top, rest, v

\* Different places are different packages, so a set of places is as large as that of its packages.
LEMMA SameSize ==
  ASSUME PlanInv, NEW S \in SUBSET Places
  PROVE  Cardinality({plan[x] : x \in S}) = Cardinality(S)
<1> DEFINE N == {plan[x] : x \in S}
           f == [x \in S |-> plan[x]]
<1>1. IsFiniteSet(S)
  <2>1. Places = 1..Len(plan) /\ Len(plan) \in Nat
    BY DEF PlanInv, Places
  <2>2. IsFiniteSet(1..Len(plan))
    BY <2>1, FS_Interval
  <2> QED BY <2>1, <2>2, FS_Subset
<1>2. f \in Bijection(S, N)
  <2>1. f \in [S -> N] /\ \A y \in N : \E x \in S : f[x] = y
    OBVIOUS
  <2>2. \A x, y \in S : f[x] = f[y] => x = y
    BY DEF PlanInv
  <2> HIDE DEF f, N
  <2> QED BY <2>1, <2>2, Fun_IsBij
<1>3. ExistsBijection(S, N)
  BY <1>2 DEF ExistsBijection
<1> QED BY <1>1, <1>3, FS_Bijection

\* The activation of a place whose lowest time is its own: its component leaves the stack.
LEMMA Leaves ==
  ASSUME PlanInv, SearchInv, Return, low[Top.place] = disc[Top.place]
  PROVE  SearchInv'
<1> DEFINE v == calls[1].place
           S == Above(v)
<1>1. /\ calls # <<>> /\ Head(calls).left = <<>> /\ calls' = Tail(calls)
      /\ UNCHANGED <<index, plan, disc, time>>
      /\ IF Tail(calls) # <<>> THEN Lower(calls[2].place, low[Top.place]) ELSE UNCHANGED low
  BY DEF Return, Top, ask
<1>2. Head(calls) = calls[1] /\ calls[1].left = <<>> /\ low[v] = disc[v]
  <2>1. calls \in Seq(Frames)
    BY DEF SearchInv, SearchTypes
  <2>2. Head(calls) = calls[1]
    BY <1>1, <2>1, TailProperties
  <2> QED BY <1>1, <2>2 DEF Top
<1>3. /\ Places' = Places /\ Frames' = Frames
      /\ \A u, x : Joined(u, x)' = Joined(u, x) /\ Reaches(u, x)' = Reaches(u, x)
      /\ \A u : Mutual(u)' = Mutual(u)
      /\ \A c, x : Ahead(c, x)' = Ahead(c, x) /\ \A n : Wants(n)' = Wants(n)
  BY <1>1, Still
<1>4. /\ disc \in [Places -> Nat] /\ low \in [Places -> Nat] /\ time \in Nat
      /\ Stacked \subseteq Places /\ Len(calls) \in Nat /\ DOMAIN calls = 1..Len(calls)
      /\ 1 \in DOMAIN calls /\ \A i \in DOMAIN calls : calls[i].place \in Stacked
      /\ \A x : ~Ahead(calls[1], x)
      /\ calls' \in Seq(Frames) /\ DOMAIN calls' = 1..Len(calls) - 1
      /\ \A i \in DOMAIN calls' : i + 1 \in DOMAIN calls /\ calls'[i] = calls[i + 1]
      /\ \A i \in DOMAIN calls : i # 1 =>
           i - 1 \in DOMAIN calls' /\ calls'[i - 1] = calls[i] /\ disc[calls[i].place] < disc[v]
      /\ \A i \in DOMAIN calls' : ToSet(calls'[i].left) \subseteq Wants(plan[calls'[i].place])
      /\ Explored'
  BY <1>1, <1>2, Ends
<1>5. v \in Stacked /\ v \in S /\ S \subseteq Stacked /\ \A u \in S : disc[v] <= disc[u]
  <2>1. v \in Stacked /\ disc[v] \in Nat
    BY <1>4
  <2> QED BY <2>1 DEF Above
<1>6. low' = low
  <2>1. CASE Tail(calls) = <<>>
    BY <1>1, <2>1
  <2>2. CASE Tail(calls) # <<>>
    <3> DEFINE p == calls[2].place
    <3>1. 1 \in DOMAIN calls'
      BY <1>1, <1>4, <2>2, EmptySeq, LenProperties
    <3>2. 2 \in DOMAIN calls
      BY <1>4, <3>1
    <3>3. p \in Stacked /\ disc[p] < disc[v]
      BY <1>4, <3>2
    <3>4. low[p] <= disc[p]
      BY <3>3 DEF SearchInv, Lowest
    <3>5. ~(low[Top.place] < low[p])
      BY <1>2, <1>4, <1>5, <3>3, <3>4 DEF Top
    <3>6. low' = [low EXCEPT ![p] = low[p]]
      BY <1>1, <2>2, <3>5 DEF Lower
    <3> QED BY <1>4, <3>6
  <2> QED BY <2>1, <2>2
<1>7. /\ stack' \in Seq(Places) /\ Stacked' = Stacked \ S
      /\ \A i, j \in DOMAIN stack' : i < j => disc[stack'[j]] < disc[stack'[i]]
      /\ sccs' = IF Cardinality(S) > 1 THEN sccs \cup {{plan[w] : w \in S}} ELSE sccs
  <2> DEFINE at == CHOOSE i \in DOMAIN stack : stack[i] = v
  <2>1. at \in DOMAIN stack /\ stack[at] = v
    <3>1. \E i \in DOMAIN stack : stack[i] = v
      BY <1>5 DEF Stacked, ToSet
    <3> QED BY <3>1
  <2>2. /\ stack' = SubSeq(stack, at + 1, Len(stack))
        /\ sccs' = IF Cardinality(ToSet(SubSeq(stack, 1, at))) > 1
                   THEN sccs \cup {{plan[w] : w \in ToSet(SubSeq(stack, 1, at))}} ELSE sccs
    BY <1>2 DEF Return, Top
  <2> HIDE DEF at
  <2>3. /\ ToSet(SubSeq(stack, 1, at)) = S
        /\ stack' \in Seq(Places) /\ ToSet(stack') = Stacked \ S
        /\ \A i, j \in DOMAIN stack' : i < j => disc[stack'[j]] < disc[stack'[i]]
    BY <2>1, <2>2, SplitStack
  <2>4. Stacked' = Stacked \ S
    BY <2>3 DEF Stacked
  <2>5. sccs' = IF Cardinality(S) > 1 THEN sccs \cup {{plan[w] : w \in S}} ELSE sccs
    BY <2>2, <2>3
  <2> QED BY <2>3, <2>4, <2>5
<1>8. \A u \in Stacked' : u \in Stacked /\ u \in Places /\ disc[u] < disc[v]
  BY <1>4, <1>5, <1>7 DEF Above
<1>9. \A u \in Stacked : disc[u] < disc[v] => u \in Stacked'
  BY <1>4, <1>5, <1>7
<1>10. /\ \A u \in S \cup Gone, x \in Places : Joined(u, x) => x \in S \cup Gone
       /\ \A u \in S : Mutual(u) = {plan[x] : x \in S}
  BY <1>1, <1>2, AboveIsMutual
<1>11. Gone' = S \cup Gone
  <2>1. \A u \in S : disc[u] # 0
    BY <1>5 DEF SearchInv, Timed
  <2> QED BY <1>1, <1>3, <1>4, <1>5, <1>7, <2>1 DEF Gone
<1> HIDE DEF S
<1>20. SearchTypes'
  <2>1. disc' \in [Places -> Nat] /\ low' \in [Places -> Nat] /\ time' \in Nat
    BY <1>1, <1>4, <1>6
  <2>2. stack' \in Seq(Places) /\ calls' \in Seq(Frames)
    BY <1>4, <1>7
  <2>3. \A i \in DOMAIN calls' : ToSet(calls'[i].left) \subseteq Wants(plan[calls'[i].place])
    BY <1>4
  <2>4. plan' = plan
    BY <1>1
  <2> QED BY <1>3, <2>1, <2>2, <2>3, <2>4 DEF SearchTypes
<1>21. Timed'
  <2>1. \A i \in DOMAIN calls' : calls'[i].place \in Stacked'
    <3> SUFFICES ASSUME NEW i \in DOMAIN calls' PROVE calls'[i].place \in Stacked'
      OBVIOUS
    <3>1. i + 1 \in DOMAIN calls /\ i + 1 # 1 /\ calls'[i] = calls[i + 1]
      BY <1>4
    <3> QED BY <3>1, <1>4, <1>9
  <2>2. ASSUME NEW i \in DOMAIN calls', NEW j \in DOMAIN calls', i < j
        PROVE  disc[calls'[j].place] < disc[calls'[i].place]
    <3>1. /\ i + 1 \in DOMAIN calls /\ j + 1 \in DOMAIN calls /\ i + 1 < j + 1
          /\ calls'[i] = calls[i + 1] /\ calls'[j] = calls[j + 1]
      BY <1>4, <2>2
    <3> QED BY <3>1 DEF SearchInv, Timed
  <2> QED BY <1>1, <1>3, <1>7, <1>8, <2>1, <2>2 DEF SearchInv, Timed
<1>22. Departed'
  BY <1>3, <1>10, <1>11 DEF Departed
<1>23. Connected'
  <2>1. ASSUME NEW u \in Stacked'
        PROVE  \E i \in DOMAIN calls' : disc[calls'[i].place] <= disc[u] /\ Reaches(u, calls'[i].place)
    <3>1. PICK i \in DOMAIN calls : disc[calls[i].place] <= disc[u] /\ Reaches(u, calls[i].place)
      BY <1>8 DEF SearchInv, Connected
    <3>2. i # 1
      <4>1. disc[u] < disc[v] /\ disc[u] \in Nat /\ disc[v] \in Nat
        BY <1>4, <1>5, <1>8
      <4> QED BY <3>1, <4>1
    <3> QED BY <3>1, <3>2, <1>4
  <2> QED BY <1>1, <1>3, <1>8, <2>1 DEF SearchInv, Connected
<1>24. Lowest'
  <2> SUFFICES ASSUME NEW u \in Stacked'
               PROVE  low[u] <= disc[u] /\ \E x \in Stacked' : disc[x] = low[u] /\ Reaches(u, x)
    BY <1>1, <1>3, <1>6 DEF Lowest
  <2>1. low[u] <= disc[u] /\ disc[u] < disc[v]
    BY <1>8 DEF SearchInv, Lowest
  <2>2. PICK x \in Stacked : disc[x] = low[u] /\ Reaches(u, x)
    BY <1>8 DEF SearchInv, Lowest
  <2>3. disc[x] < disc[v]
    BY <2>1, <2>2, <1>4, <1>5, <1>8
  <2> QED BY <2>1, <2>2, <2>3, <1>9
<1>25. LowEnough'
  <2> SUFFICES ASSUME NEW i \in DOMAIN calls', NEW u \in Stacked', NEW x \in Stacked',
                      Home(u, i)', Joined(u, x), u = calls'[i].place => ~Ahead(calls'[i], x)
               PROVE  low[calls'[i].place] <= disc[x]
    BY <1>1, <1>3, <1>6 DEF LowEnough
  <2>1. i + 1 \in DOMAIN calls /\ calls'[i] = calls[i + 1]
    BY <1>4
  <2>2. Home(u, i + 1)
    <3>1. /\ disc[calls'[i].place] <= disc[u]
          /\ \A k \in 1..i - 1 : disc[u] < disc[calls'[k].place]
      BY <1>1 DEF Home
    <3>2. ASSUME NEW k \in 1..(i + 1) - 1 PROVE disc[u] < disc[calls[k].place]
      <4>1. CASE k = 1
        BY <4>1, <1>8
      <4>2. CASE k # 1
        <5>1. k - 1 \in 1..i - 1 /\ k \in DOMAIN calls
          BY <4>2, <2>1, <1>4
        <5> QED BY <3>1, <4>2, <5>1, <1>4
      <4> QED BY <4>1, <4>2
    <3> QED BY <2>1, <3>1, <3>2 DEF Home
  <2> QED BY <2>1, <2>2, <1>8 DEF SearchInv, LowEnough
<1>26. Reported'
  <2>1. {Mutual(u) : u \in Gone'} = {Mutual(u) : u \in Gone} \cup {{plan[x] : x \in S}}
    BY <1>5, <1>10, <1>11
  <2>2. Cardinality({plan[x] : x \in S}) = Cardinality(S)
    BY <1>4, <1>5, SameSize
  <2>3. sccs' = {X \in {Mutual(u) : u \in Gone'} : Cardinality(X) > 1}
    <3>1. sccs = {X \in {Mutual(u) : u \in Gone} : Cardinality(X) > 1}
      BY DEF SearchInv, Reported
    <3> QED BY <1>7, <2>1, <2>2, <3>1
  <2> QED BY <1>3, <2>3 DEF Reported
<1> QED BY <1>4, <1>20, <1>21, <1>22, <1>23, <1>24, <1>25, <1>26 DEF SearchInv

\* Any other activation hands its lowest time to the one under it, and there is one.
LEMMA HandsDown ==
  ASSUME PlanInv, SearchInv, Return, low[Top.place] # disc[Top.place]
  PROVE  SearchInv'
<1> DEFINE v == calls[1].place
           p == calls[2].place
<1>1. /\ calls # <<>> /\ Head(calls).left = <<>> /\ calls' = Tail(calls)
      /\ UNCHANGED <<index, plan, disc, time>>
      /\ IF Tail(calls) # <<>> THEN Lower(p, low[Top.place]) ELSE UNCHANGED low
  BY DEF Return, Top, ask
<1>2. Head(calls) = calls[1] /\ calls[1].left = <<>> /\ low[v] # disc[v]
  <2>1. calls \in Seq(Frames)
    BY DEF SearchInv, SearchTypes
  <2>2. Head(calls) = calls[1]
    BY <1>1, <2>1, TailProperties
  <2> QED BY <1>1, <2>2 DEF Top
<1>3. /\ Places' = Places /\ Frames' = Frames
      /\ \A u, x : Joined(u, x)' = Joined(u, x) /\ Reaches(u, x)' = Reaches(u, x)
      /\ \A u : Mutual(u)' = Mutual(u)
      /\ \A c, x : Ahead(c, x)' = Ahead(c, x)
      /\ \A n : Wants(n)' = Wants(n)
  BY <1>1, Still
<1>4. /\ disc \in [Places -> Nat] /\ low \in [Places -> Nat] /\ time \in Nat
      /\ Stacked \subseteq Places /\ Len(calls) \in Nat /\ DOMAIN calls = 1..Len(calls)
      /\ 1 \in DOMAIN calls /\ \A i \in DOMAIN calls : calls[i].place \in Stacked
      /\ \A x : ~Ahead(calls[1], x)
      /\ calls' \in Seq(Frames) /\ DOMAIN calls' = 1..Len(calls) - 1
      /\ \A i \in DOMAIN calls' : i + 1 \in DOMAIN calls /\ calls'[i] = calls[i + 1]
      /\ \A i \in DOMAIN calls : i # 1 =>
           i - 1 \in DOMAIN calls' /\ calls'[i - 1] = calls[i] /\ disc[calls[i].place] < disc[v]
      /\ \A i \in DOMAIN calls' : ToSet(calls'[i].left) \subseteq Wants(plan[calls'[i].place])
      /\ Explored'
  BY <1>1, <1>2, Ends
<1>5. UNCHANGED <<stack, sccs>>
  BY <1>2 DEF Return, Top
<1>6. Stacked' = Stacked /\ Gone' = Gone
  BY <1>1, <1>3, <1>5 DEF Stacked, Gone
\* The place whose time it is, and an activation below it.
<1>7. PICK w \in Stacked : disc[w] = low[v] /\ Reaches(v, w)
  BY <1>4 DEF SearchInv, Lowest
<1>8. v \in Stacked /\ v \in Places /\ disc[w] < disc[v] /\ disc[v] \in Nat /\ disc[w] \in Nat
  <2>1. v \in Stacked /\ v \in Places
    BY <1>4
  <2>2. low[v] <= disc[v]
    BY <2>1 DEF SearchInv, Lowest
  <2> QED BY <1>2, <1>4, <1>7, <2>1, <2>2
<1>9. PICK j \in DOMAIN calls : disc[calls[j].place] <= disc[w] /\ Reaches(w, calls[j].place)
  BY <1>7 DEF SearchInv, Connected
<1>10. j # 1
  BY <1>8, <1>9
<1>11. 2 \in DOMAIN calls /\ p \in Stacked /\ p \in Places /\ Tail(calls) # <<>> /\ disc[p] < disc[v]
  <2>1. 2 \in DOMAIN calls
    BY <1>4, <1>9, <1>10
  <2>2. Tail(calls) # <<>>
    BY <1>1, <1>4, <2>1, EmptySeq
  <2>3. p \in Stacked /\ 2 # 1
    BY <1>4, <2>1
  <2>4. disc[p] < disc[v]
    BY <1>4, <2>1, <2>3
  <2> QED BY <1>4, <2>1, <2>2, <2>3, <2>4
<1>12. /\ low' \in [Places -> Nat] /\ low'[p] \in {low[p], low[v]}
       /\ low'[p] <= low[p] /\ low'[p] <= low[v]
       /\ \A u \in Places : u # p => low'[u] = low[u]
  <2>1. low' = [low EXCEPT ![p] = IF low[v] < low[p] THEN low[v] ELSE low[p]]
    BY <1>1, <1>2, <1>11 DEF Lower, Top
  <2>2. low[v] \in Nat /\ low[p] \in Nat
    BY <1>4, <1>8, <1>11
  <2> QED BY <1>4, <1>11, <2>1, <2>2
<1>13. \A u \in Places : low'[u] <= low[u] /\ low[u] \in Nat /\ low'[u] \in Nat /\ disc[u] \in Nat
  BY <1>4, <1>12
<1> HIDE DEF v, p
<1>20. SearchTypes'
  <2>1. disc' \in [Places -> Nat] /\ low' \in [Places -> Nat] /\ time' \in Nat
    BY <1>1, <1>4, <1>12
  <2>2. stack' \in Seq(Places) /\ calls' \in Seq(Frames)
    BY <1>4, <1>5 DEF SearchInv, SearchTypes
  <2>3. \A i \in DOMAIN calls' : ToSet(calls'[i].left) \subseteq Wants(plan[calls'[i].place])
    BY <1>4
  <2>4. plan' = plan
    BY <1>1
  <2> QED BY <1>3, <2>1, <2>2, <2>3, <2>4 DEF SearchTypes
<1>21. Timed'
  <2>1. \A i \in DOMAIN calls' : calls'[i].place \in Stacked
    BY <1>4
  <2>2. ASSUME NEW i \in DOMAIN calls', NEW k \in DOMAIN calls', i < k
        PROVE  disc[calls'[k].place] < disc[calls'[i].place]
    <3>1. /\ i + 1 \in DOMAIN calls /\ k + 1 \in DOMAIN calls /\ i + 1 < k + 1
          /\ calls'[i] = calls[i + 1] /\ calls'[k] = calls[k + 1]
      BY <1>4, <2>2
    <3> QED BY <3>1 DEF SearchInv, Timed
  <2> QED BY <1>1, <1>3, <1>5, <1>6, <2>1, <2>2 DEF SearchInv, Timed
<1>22. Departed' /\ Reported'
  BY <1>3, <1>5, <1>6 DEF SearchInv, Departed, Reported
<1>23. Connected'
  <2>1. ASSUME NEW u \in Stacked
        PROVE  \E i \in DOMAIN calls' : disc[calls'[i].place] <= disc[u] /\ Reaches(u, calls'[i].place)
    <3>1. PICK i \in DOMAIN calls : disc[calls[i].place] <= disc[u] /\ Reaches(u, calls[i].place)
      BY DEF SearchInv, Connected
    <3>2. CASE i # 1
      BY <3>1, <3>2, <1>4
    <3>3. CASE i = 1
      <4>1. Reaches(u, v) /\ disc[v] <= disc[u]
        BY <3>1, <3>3 DEF v
      <4>2. calls[j].place \in Places /\ u \in Places /\ w \in Places
        BY <1>4
      <4>3. Reaches(u, calls[j].place)
        BY <4>1, <4>2, <1>7, <1>8, <1>9, Reaching
      <4>4. disc[calls[j].place] <= disc[u]
        BY <4>1, <4>2, <1>8, <1>9, <1>13
      <4> QED BY <4>3, <4>4, <1>4, <1>10
    <3> QED BY <3>2, <3>3
  <2> QED BY <1>1, <1>3, <1>6, <2>1 DEF SearchInv, Connected
<1>24. Lowest'
  <2> SUFFICES ASSUME NEW u \in Stacked
               PROVE  low'[u] <= disc[u] /\ \E x \in Stacked : disc[x] = low'[u] /\ Reaches(u, x)
    BY <1>1, <1>3, <1>6 DEF Lowest
  <2>1. low[u] <= disc[u] /\ u \in Places
    BY <1>4 DEF SearchInv, Lowest
  <2>2. low'[u] <= disc[u]
    BY <2>1, <1>13
  <2>3. CASE low'[u] = low[u]
    BY <2>2, <2>3 DEF SearchInv, Lowest
  <2>4. CASE low'[u] # low[u]
    <3>1. u = p /\ low'[u] = low[v]
      BY <2>1, <2>4, <1>12
    <3>2. Reaches(p, v)
      BY <1>8, <1>11, <1>13 DEF SearchInv, Connected
    <3>3. Reaches(p, w)
      BY <3>2, <1>4, <1>7, <1>8, <1>11, Reaching
    <3> QED BY <2>2, <3>1, <3>3, <1>7
  <2> QED BY <2>3, <2>4
<1>25. LowEnough'
  <2> SUFFICES ASSUME NEW i \in DOMAIN calls', NEW u \in Stacked, NEW x \in Stacked,
                      Home(u, i)', Joined(u, x), u = calls'[i].place => ~Ahead(calls'[i], x)
               PROVE  low'[calls'[i].place] <= disc[x]
    BY <1>1, <1>3, <1>6 DEF LowEnough
  <2> DEFINE q == calls[i + 1].place
  <2>1. i + 1 \in DOMAIN calls /\ calls'[i] = calls[i + 1] /\ q \in Places /\ i \in Nat
    BY <1>4
  <2>2. /\ disc[q] <= disc[u]
        /\ \A k \in 1..i - 1 : disc[u] < disc[calls'[k].place]
    BY <1>1, <2>1 DEF Home
  <2>3. u \in Places /\ x \in Places
    BY <1>4
  <2>4. CASE disc[u] < disc[v]
    <3>1. ASSUME NEW k \in 1..(i + 1) - 1 PROVE disc[u] < disc[calls[k].place]
      <4>1. CASE k = 1
        BY <4>1, <2>4 DEF v
      <4>2. CASE k # 1
        <5>1. k - 1 \in 1..i - 1 /\ k \in DOMAIN calls
          BY <4>2, <2>1, <1>4
        <5> QED BY <2>2, <4>2, <5>1, <1>4
      <4> QED BY <4>1, <4>2
    <3>2. Home(u, i + 1)
      BY <2>2, <3>1 DEF Home
    <3>3. low[q] <= disc[x]
      BY <2>1, <3>2 DEF SearchInv, LowEnough
    <3> HIDE DEF q
    <3>4. low'[q] <= disc[x]
      BY <2>1, <2>3, <3>3, <1>13
    <3> QED BY <2>1, <3>4 DEF q
  <2>5. CASE ~(disc[u] < disc[v])
    <3>1. i = 1
      <4>1. SUFFICES ASSUME i # 1 PROVE FALSE
        OBVIOUS
      <4>2. 1 \in 1..i - 1 /\ 1 \in DOMAIN calls'
        BY <4>1, <2>1, <1>4
      <4>3. calls'[1] = calls[2]
        BY <4>2, <1>4, 1 + 1 = 2
      <4>4. disc[u] < disc[p]
        BY <4>2, <4>3, <2>2 DEF p
      <4> QED BY <4>4, <2>3, <2>5, <1>8, <1>11, <1>13
    <3>2. q = p
      BY <3>1 DEF p
    <3>3. Home(u, 1)
      BY <2>3, <2>5, <1>8, <1>13 DEF Home, v
    <3>4. low[v] <= disc[x]
      BY <3>3, <1>4 DEF SearchInv, LowEnough, v
    <3>5. low'[p] <= disc[x]
      BY <3>4, <2>3, <1>8, <1>11, <1>12, <1>13
    <3> QED BY <3>2, <3>5, <2>1
  <2> QED BY <2>4, <2>5
<1> QED BY <1>4, <1>20, <1>21, <1>22, <1>23, <1>24, <1>25 DEF SearchInv

-----------------------------------------------------------------------------
(* The search as a whole. *)

LEMMA SameState ==
  ASSUME UNCHANGED <<index, plan, disc, low, stack, calls, time, sccs>>
  PROVE  /\ PlanInv => PlanInv'
         /\ Untouched => Untouched'
         /\ SearchInv => SearchInv'
<1>1. /\ Places' = Places /\ Frames' = Frames
      /\ \A n : Wants(n)' = Wants(n)
      /\ \A u, x : Joined(u, x)' = Joined(u, x) /\ Reaches(u, x)' = Reaches(u, x)
      /\ \A u : Mutual(u)' = Mutual(u)
      /\ \A c, x : Ahead(c, x)' = Ahead(c, x)
      /\ PlanInv' = PlanInv
  BY Still
<1>2. Stacked' = Stacked /\ Gone' = Gone /\ \A v, i : Home(v, i)' = Home(v, i)
  BY <1>1 DEF Stacked, Gone, Home
<1>3. Untouched => Untouched'
  BY DEF Untouched
<1>4. SearchTypes => SearchTypes'
  BY <1>1 DEF SearchTypes
<1>5. Timed => Timed'
  BY <1>1, <1>2 DEF Timed
<1>6. (Explored => Explored') /\ (Departed => Departed')
  BY <1>1, <1>2 DEF Explored, Departed
<1>7. (Connected => Connected') /\ (Lowest => Lowest')
  BY <1>1, <1>2 DEF Connected, Lowest
<1>8. (LowEnough => LowEnough') /\ (Reported => Reported')
  BY <1>1, <1>2 DEF LowEnough, Reported
<1> QED BY <1>1, <1>3, <1>4, <1>5, <1>6, <1>7, <1>8 DEF SearchInv

LEMMA SolveSearch == ASSUME Untouched, IsIndex(index), Solve PROVE PlanInv' /\ SearchInv'
<1>1. /\ UNCHANGED <<index, stack, calls, time, sccs>>
      /\ disc' = [i \in DOMAIN plan' |-> 0] /\ low' = [i \in DOMAIN plan' |-> 0]
      /\ stack = <<>> /\ calls = <<>> /\ time = 0 /\ sccs = {}
  BY DEF Solve, Untouched, ask
<1>2. PlanInv'
  BY <1>1, SolvePlans DEF PlanInv, Places
<1>3. Stacked' = {} /\ Gone' = {} /\ DOMAIN calls' = {} /\ DOMAIN stack' = {}
  BY <1>1 DEF Stacked, Gone, Places, ToSet
<1>4. SearchTypes'
  BY <1>1, <1>3, EmptySeq DEF SearchTypes, Places
<1>5. Timed' /\ Explored' /\ Departed'
  BY <1>1, <1>3 DEF Timed, Explored, Departed, Places
<1>6. Connected' /\ Lowest' /\ LowEnough' /\ Reported'
  BY <1>1, <1>3 DEF Connected, Lowest, LowEnough, Reported
<1> QED BY <1>2, <1>4, <1>5, <1>6 DEF SearchInv

LEMMA NextRootSearch == ASSUME PlanInv, SearchInv, NextRoot PROVE SearchInv'
<1> DEFINE v == CHOOSE v \in DOMAIN plan : disc[v] = 0 /\ \A u \in 1..v - 1 : disc[u] # 0
<1>1. v \in Places /\ disc[v] = 0
  <2>1. DOMAIN plan = 1..Len(plan) /\ Len(plan) \in Nat
    BY DEF PlanInv, Places
  <2> DEFINE T == {u \in DOMAIN plan : disc[u] = 0}
  <2>2. T \in SUBSET Nat /\ T # {}
    BY <2>1 DEF NextRoot
  <2> HIDE DEF T
  <2>3. PICK m \in T : \A k \in T : m <= k
    BY <2>2, Least
  <2>4. m \in DOMAIN plan /\ disc[m] = 0 /\ \A u \in 1..m - 1 : disc[u] # 0
    <3>1. m \in DOMAIN plan /\ disc[m] = 0
      BY DEF T
    <3>2. ASSUME NEW u \in 1..m - 1, disc[u] = 0 PROVE FALSE
      <4>1. u \in T /\ u < m
        BY <2>1, <3>1, <3>2 DEF T
      <4> QED BY <2>2, <2>3, <4>1
    <3> QED BY <3>1, <3>2
  <2> QED BY <2>4 DEF Places
<1>2. /\ calls = <<>> /\ Enter(v, <<>>) /\ UNCHANGED <<index, plan, sccs>>
  BY DEF NextRoot, ask
<1> HIDE DEF v
<1>3. <<>> \in Seq(Frames) /\ Len(<<>>) = Len(calls) /\ DOMAIN calls = {}
  BY <1>2, EmptySeq
<1> QED BY <1>1, <1>2, <1>3, Discovers

LEMMA EdgeSearch == ASSUME PlanInv, SearchInv, Edge PROVE SearchInv'
<1> DEFINE v == calls[1].place
           left == calls[1].left
           d == Head(left)
           w == PlaceOf(d.name)
           here == [place |-> v, left |-> Tail(left)]
           above == <<here>> \o Tail(calls)
<1>1. /\ disc \in [Places -> Nat] /\ low \in [Places -> Nat] /\ calls \in Seq(Frames)
      /\ DOMAIN calls = 1..Len(calls) /\ Len(calls) \in Nat /\ Stacked \subseteq Places
  BY DEF SearchInv, SearchTypes, Stacked, ToSet
<1>2. /\ calls # <<>> /\ Len(calls) >= 1 /\ Head(calls) = calls[1]
      /\ Tail(calls) \in Seq(Frames) /\ Len(Tail(calls)) = Len(calls) - 1
      /\ \A i \in 1..Len(calls) - 1 : Tail(calls)[i] = calls[i + 1]
  <2>1. calls # <<>>
    BY DEF Edge
  <2> QED BY <1>1, <2>1, TailProperties
<1>3. /\ 1 \in DOMAIN calls /\ calls[1] \in Frames /\ v \in Places /\ left \in Seq(Wanted)
      /\ v \in Stacked /\ ToSet(left) \subseteq Wants(plan[v])
  <2>1. 1 \in DOMAIN calls
    BY <1>1, <1>2
  <2>2. calls[1] \in Frames
    BY <1>1, <2>1
  <2>3. v \in Places /\ left \in Seq(Wanted)
    BY <2>2 DEF Frames
  <2> QED BY <2>1, <2>2, <2>3 DEF SearchInv, SearchTypes, Timed
<1>4. [Top EXCEPT !.left = Tail(@)] = here
  <2> DEFINE c == calls[1]
  <2>1. c \in [place : Places, left : Seq(Wanted)]
    BY <1>3 DEF Frames
  <2>2. Top = c
    BY <1>2 DEF Top
  <2> HIDE DEF c
  <2>3. \A y : [c EXCEPT !.left = y] = [place |-> c.place, left |-> y]
    BY <2>1
  <2>4. [c EXCEPT !.left = Tail(@)] = [place |-> c.place, left |-> Tail(c.left)]
    BY <2>3
  <2> QED BY <2>2, <2>4 DEF c
<1>5. /\ left # <<>>
      /\ IF d.name \in ToSet(plan) /\ disc[w] = 0 THEN Enter(w, above)
         ELSE /\ calls' = above /\ UNCHANGED <<disc, stack, time>>
              /\ IF d.name \in ToSet(plan) /\ w \in Stacked THEN Lower(v, disc[w]) ELSE UNCHANGED low
      /\ UNCHANGED <<index, plan, sccs>>
  BY <1>2, <1>4 DEF Edge, Top, Stacked, ask
<1>6. Tail(left) \in Seq(Wanted) /\ ToSet(left) = {d} \cup ToSet(Tail(left))
  BY <1>3, <1>5, TailProperties
<1>7. /\ here \in Frames /\ here.place = v /\ ToSet(here.left) \subseteq ToSet(left)
      /\ \A x \in Places : Ahead(calls[1], x) => plan[x] = d.name \/ Ahead(here, x)
  BY <1>3, <1>6 DEF Frames, Ahead
<1>8. \A x \in Places : plan[x] = d.name => Joined(v, x)
  BY <1>3, <1>6 DEF Joined, Leads, Wants
<1>9. d.name \in ToSet(plan) => w \in Places /\ plan[w] = d.name
  BY DEF PlaceOf, Places, ToSet
<1>10. \A x \in Places : plan[x] = d.name => d.name \in ToSet(plan) /\ x = w
  <2> SUFFICES ASSUME NEW x \in Places, plan[x] = d.name PROVE d.name \in ToSet(plan) /\ x = w
    OBVIOUS
  <2>1. d.name \in ToSet(plan)
    BY DEF Places, ToSet
  <2> QED BY <2>1, <1>9 DEF PlanInv
<1> HIDE DEF here, w, d, left, v
<1>11. CASE d.name \in ToSet(plan) /\ disc[w] = 0
  <2>1. /\ above \in Seq(Frames) /\ DOMAIN above = 1..Len(Tail(calls)) + 1 /\ above[1] = here
        /\ \A i \in DOMAIN above : i = 1 \/ (i - 1 \in DOMAIN Tail(calls) /\ above[i] = Tail(calls)[i - 1])
        /\ Len(above) = Len(Tail(calls)) + 1
    BY <1>2, <1>7, ConsProperties
  <2> HIDE DEF above
  <2>2. Len(above) = Len(calls) /\ DOMAIN above = DOMAIN calls
    BY <2>1, <1>1, <1>2
  <2>3. \A i \in DOMAIN calls :
          /\ above[i].place = calls[i].place /\ ToSet(above[i].left) \subseteq ToSet(calls[i].left)
          /\ \A x \in Places : Ahead(calls[i], x) => x = w \/ Ahead(above[i], x)
    <3> SUFFICES ASSUME NEW i \in DOMAIN calls
                 PROVE  /\ above[i].place = calls[i].place
                        /\ ToSet(above[i].left) \subseteq ToSet(calls[i].left)
                        /\ \A x \in Places : Ahead(calls[i], x) => x = w \/ Ahead(above[i], x)
      OBVIOUS
    <3>1. CASE i = 1
      BY <3>1, <2>1, <1>7, <1>10 DEF v, left
    <3>2. CASE i # 1
      <4>1. i - 1 \in 1..Len(calls) - 1 /\ (i - 1) + 1 = i
        BY <3>2, <1>1
      <4>2. above[i] = calls[i]
        BY <3>2, <4>1, <2>1, <2>2, <1>2
      <4> QED BY <4>2
    <3> QED BY <3>1, <3>2
  <2>4. w \in Places /\ disc[w] = 0 /\ Joined(calls[1].place, w)
    BY <1>8, <1>9, <1>11 DEF v
  <2>5. Enter(w, above) /\ UNCHANGED <<index, plan, sccs>>
    BY <1>5, <1>11
  <2> QED BY <2>1, <2>2, <2>3, <2>4, <2>5, Discovers
<1>12. CASE ~(d.name \in ToSet(plan) /\ disc[w] = 0)
  <2>1. /\ calls' = <<here>> \o Tail(calls) /\ UNCHANGED <<index, plan, disc, stack, time, sccs>>
        /\ IF d.name \in ToSet(plan) /\ w \in Stacked THEN Lower(v, disc[w]) ELSE UNCHANGED low
    BY <1>5, <1>12
  <2>2. /\ low' \in [Places -> Nat] /\ \A u \in Places : low'[u] <= low[u]
        /\ \A u \in Stacked : low'[u] = low[u] \/ \E x \in Stacked : disc[x] = low'[u] /\ Joined(u, x)
        /\ d.name \in ToSet(plan) /\ w \in Stacked => low'[v] <= disc[w]
    <3>1. CASE d.name \in ToSet(plan) /\ w \in Stacked
      <4>1. low' = [low EXCEPT ![v] = IF disc[w] < low[v] THEN disc[w] ELSE low[v]]
        BY <2>1, <3>1 DEF Lower
      <4>2. disc[w] \in Nat /\ low[v] \in Nat /\ Joined(v, w)
        BY <1>1, <1>3, <1>8, <1>9, <3>1 DEF v
      <4>3. /\ low' \in [Places -> Nat] /\ \A u \in Places : low'[u] <= low[u]
            /\ \A u \in Places : u # v => low'[u] = low[u]
            /\ low'[v] \in {low[v], disc[w]} /\ low'[v] <= disc[w]
        BY <1>1, <1>3, <4>1, <4>2 DEF v
      <4> QED BY <1>1, <3>1, <4>2, <4>3
    <3>2. CASE ~(d.name \in ToSet(plan) /\ w \in Stacked)
      BY <1>1, <2>1, <3>2
    <3> QED BY <3>1, <3>2
  <2>3. \A x \in Places : Ahead(calls[1], x) =>
          Ahead(here, x) \/ (disc[x] # 0 /\ (x \in Stacked => low'[here.place] <= disc[x]))
    BY <1>7, <1>10, <1>12, <2>2
  <2>4. here.place = calls[1].place /\ ToSet(here.left) \subseteq ToSet(calls[1].left)
    BY <1>7 DEF v, left
  <2> QED BY <1>2, <1>7, <2>1, <2>2, <2>3, <2>4, Follows
<1> QED BY <1>11, <1>12

\* The plan is one of names of the index, and the search keeps what it is built on at every step.
THEOREM ResolverSafety == Spec => []ResolverInv
<1>1. Init => ResolverInv
  <2> SUFFICES ASSUME Init PROVE ResolverInv
    OBVIOUS
  <2>1. IsIndex(index)
    BY AsksAssumption DEF Init, IsAsk
  <2>2. plan = <<>> /\ <<>> \in Seq(Names) /\ DOMAIN <<>> = {}
    BY EmptySeq DEF Init
  <2>3. PlanInv
    BY <2>1, <2>2 DEF PlanInv, Places
  <2> QED BY <2>3 DEF Init, ResolverInv, Untouched
<1>2. ResolverInv /\ [Next]_vars => ResolverInv'
  <2> SUFFICES ASSUME ResolverInv, [Next]_vars PROVE ResolverInv'
    OBVIOUS
  <2>1. PlanInv /\ IsIndex(index)
    BY DEF ResolverInv, PlanInv
  <2>2. CASE Collect
    <3>1. UNCHANGED <<index, plan, disc, low, stack, calls, time, sccs>> /\ pc = "collect" /\ pc' = pc
      BY <2>2 DEF Collect, ask
    <3> QED BY <3>1, SameState DEF ResolverInv
  <2>3. CASE Solve
    <3>1. pc = "collect" /\ pc' = "cycles"
      BY <2>3 DEF Solve
    <3> QED BY <2>1, <2>3, <3>1, SolveSearch DEF ResolverInv
  <2>4. CASE NextRoot
    <3>1. pc = "cycles" /\ pc' = pc /\ UNCHANGED <<index, plan>>
      BY <2>4 DEF NextRoot, ask
    <3>2. SearchInv' /\ PlanInv'
      BY <2>1, <2>4, <3>1, NextRootSearch, Still DEF ResolverInv
    <3> QED BY <3>1, <3>2 DEF ResolverInv
  <2>5. CASE Edge
    <3>1. pc = "cycles" /\ pc' = pc /\ UNCHANGED <<index, plan>>
      BY <2>5 DEF Edge, ask
    <3>2. SearchInv' /\ PlanInv'
      BY <2>1, <2>5, <3>1, EdgeSearch, Still DEF ResolverInv
    <3> QED BY <3>1, <3>2 DEF ResolverInv
  <2>6. CASE Return
    <3>1. pc = "cycles" /\ pc' = pc /\ UNCHANGED <<index, plan>>
      BY <2>6 DEF Return, ask
    <3>2. SearchInv' /\ PlanInv'
      BY <2>1, <2>6, <3>1, Leaves, HandsDown, Still DEF ResolverInv
    <3> QED BY <3>1, <3>2 DEF ResolverInv
  <2>7. CASE Finish
    <3>1. /\ pc = "cycles" /\ pc' = "done" /\ calls = <<>> /\ \A v \in Places : disc[v] # 0
          /\ UNCHANGED <<index, plan, disc, low, stack, calls, time, sccs>>
      BY <2>7 DEF Finish, ask, Places
    <3>2. Places' = Places
      BY <3>1 DEF Places
    <3> QED BY <3>1, <3>2, SameState DEF ResolverInv
  <2>8. CASE UNCHANGED vars
    <3>1. UNCHANGED <<index, plan, disc, low, stack, calls, time, sccs>> /\ pc' = pc
      BY <2>8 DEF vars, ask
    <3>2. Places' = Places
      BY <3>1 DEF Places
    <3> QED BY <3>1, <3>2, SameState DEF ResolverInv
  <2> QED BY <2>2, <2>3, <2>4, <2>5, <2>6, <2>7, <2>8 DEF Next
<1> QED BY <1>1, <1>2, PTL DEF Spec

\* tarjan_scc: for every index, request and plan, when the search ends the cycles that it reports
\* are the largest sets of two or more planned packages that all lead to each other.
THEOREM CyclesFound == Spec => []CyclesAreMutual
<1>1. ResolverInv => CyclesAreMutual
  <2> SUFFICES ASSUME ResolverInv, pc = "done"
               PROVE  sccs = {C \in {{y \in Below(x, ToSet(plan)) : x \in Below(y, ToSet(plan))} :
                                       x \in ToSet(plan)} : Cardinality(C) > 1}
    BY DEF CyclesAreMutual
  <2>1. PlanInv /\ SearchInv /\ calls = <<>> /\ \A v \in Places : disc[v] # 0
    BY DEF ResolverInv
  <2>2. Gone = Places
    <3>1. DOMAIN calls = {}
      BY <2>1
    <3>2. Stacked = {}
      BY <2>1, <3>1 DEF SearchInv, Connected
    <3> QED BY <2>1, <3>2 DEF Gone
  <2>3. \A v \in Places : Mutual(v) = {y \in Below(plan[v], ToSet(plan)) : plan[v] \in Below(y, ToSet(plan))}
    <3> SUFFICES ASSUME NEW v \in Places
                 PROVE  Mutual(v) = {y \in Below(plan[v], ToSet(plan)) : plan[v] \in Below(y, ToSet(plan))}
      OBVIOUS
    <3>1. \A y \in Below(plan[v], ToSet(plan)) : \E x \in Places : y = plan[x]
      BY DEF Below, ToSet, Places
    <3> QED BY <3>1 DEF Mutual, Reaches
  <2>4. {Mutual(v) : v \in Places} =
          {{y \in Below(x, ToSet(plan)) : x \in Below(y, ToSet(plan))} : x \in ToSet(plan)}
    <3> DEFINE C(x) == {y \in Below(x, ToSet(plan)) : x \in Below(y, ToSet(plan))}
    <3>1. ToSet(plan) = {plan[v] : v \in Places}
      BY DEF ToSet, Places
    <3>2. \A v \in Places : Mutual(v) = C(plan[v])
      BY <2>3
    <3> HIDE DEF C
    <3>3. {Mutual(v) : v \in Places} = {C(x) : x \in ToSet(plan)}
      BY <3>1, <3>2
    <3> QED BY <3>3 DEF C
  <2> QED BY <2>1, <2>2, <2>4 DEF SearchInv, Reported
<1> QED BY <1>1, ResolverSafety, PTL

-----------------------------------------------------------------------------
(* Functions that are defined by recursion. *)

\* F makes of a function on D one whose values come from those of smaller ones.
Recursion(D, V, size, bound, F) ==
  /\ V # {} /\ size \in [D -> Nat] /\ bound \in Nat /\ \A x \in D : size[x] < bound
  /\ F \in [[D -> V] -> [D -> V]]
  /\ \A h, k \in [D -> V], x \in D :
       (\A y \in D : size[y] < size[x] => h[y] = k[y]) => F[h][x] = F[k][x]

\* Then there is the function that it defines: for every n there is one that is right below n,
\* and F makes of it one that is right below n + 1.
LEMMA RecursionDefines ==
  ASSUME NEW D, NEW V, NEW size, NEW bound, NEW F, Recursion(D, V, size, bound, F)
  PROVE  \E f \in [D -> V] : f = F[f]
<1> USE DEF Recursion
<1> DEFINE Right(f, n) == \A x \in D : size[x] < n => F[f][x] = f[x]
           Bad == {n \in Nat : \A f \in [D -> V] : ~Right(f, n)}
<1>1. Bad = {}
  <2> SUFFICES ASSUME Bad # {} PROVE FALSE
    OBVIOUS
  <2>1. PICK n \in Bad : \A k \in Bad : n <= k
    <3>1. Bad \in SUBSET Nat
      OBVIOUS
    <3> HIDE DEF Bad
    <3> QED BY <3>1, Least
  <2>2. n # 0
    <3>1. PICK v \in V : TRUE
      OBVIOUS
    <3>2. [x \in D |-> v] \in [D -> V]
      OBVIOUS
    <3>3. Right([x \in D |-> v], 0)
      OBVIOUS
    <3>4. 0 \notin Bad
      BY <3>2, <3>3, Zenon
    <3> QED BY <2>1, <3>4
  <2>3. n \in Nat /\ n - 1 \in Nat /\ n - 1 \notin Bad
    <3>1. n \in Nat
      BY <2>1
    <3>2. n - 1 \in Nat /\ ~(n <= n - 1)
      BY <2>2, <3>1
    <3> QED BY <2>1, <3>1, <3>2
  <2>4. PICK f \in [D -> V] : Right(f, n - 1)
    BY <2>3
  <2>5. F[f] \in [D -> V]
    BY <2>4
  <2>6. Right(F[f], n)
    <3> SUFFICES ASSUME NEW x \in D, size[x] < n PROVE F[F[f]][x] = F[f][x]
      OBVIOUS
    <3>1. \A y \in D : size[y] < size[x] => f[y] = F[f][y]
      <4> SUFFICES ASSUME NEW y \in D, size[y] < size[x] PROVE f[y] = F[f][y]
        OBVIOUS
      <4>1. size[y] < n - 1
        BY <2>3
      <4> QED BY <2>4, <4>1
    <3> QED BY <2>4, <2>5, <3>1
  <2> QED BY <2>1, <2>5, <2>6
<1>2. PICK f \in [D -> V] : Right(f, bound)
  BY <1>1
<1>3. F[f] \in [D -> V] /\ \A x \in D : F[f][x] = f[x]
  BY <1>2
<1>4. f = F[f]
  BY <1>3
<1> QED BY <1>4

-----------------------------------------------------------------------------
(* Numbers by their digits. *)

\* Values is such a function.
LEMMA ValuesDef ==
  ASSUME NEW s \in Seq(Int)
  PROVE  /\ Values(s) = [i \in 0..Len(s) |-> IF i = 0 THEN 0 ELSE 10 * Values(s)[i - 1] + (s[i] - Zero)]
<1> DEFINE D == 0..Len(s)
           Body(f, i) == IF i = 0 THEN 0 ELSE 10 * f[i - 1] + (s[i] - Zero)
           F == [f \in [D -> Int] |-> [i \in D |-> Body(f, i)]]
           size == [i \in D |-> i]
<1>1. Len(s) \in Nat /\ \A i \in 1..Len(s) : s[i] \in Int
  BY ElementOfSeq, LenProperties
<1>2. \A f \in [D -> Int], i \in D : Body(f, i) \in Int
  <2> SUFFICES ASSUME NEW f \in [D -> Int], NEW i \in D PROVE Body(f, i) \in Int
    OBVIOUS
  <2>1. CASE i = 0
    BY <2>1
  <2>2. CASE i # 0
    <3>1. i \in 1..Len(s) /\ i - 1 \in D
      BY <2>2, <1>1
    <3>2. s[i] \in Int /\ f[i - 1] \in Int
      BY <3>1, <1>1
    <3> QED BY <2>2, <3>2 DEF Zero
  <2> QED BY <2>1, <2>2
<1>3. F \in [[D -> Int] -> [D -> Int]]
  BY <1>2
<1>4. \A h, k \in [D -> Int], x \in D :
           (\A y \in D : size[y] < size[x] => h[y] = k[y]) => F[h][x] = F[k][x]
  <2> SUFFICES ASSUME NEW h \in [D -> Int], NEW k \in [D -> Int], NEW x \in D,
                      \A y \in D : size[y] < size[x] => h[y] = k[y]
               PROVE  F[h][x] = F[k][x]
    OBVIOUS
  <2>3. F[h][x] = Body(h, x) /\ F[k][x] = Body(k, x)
    OBVIOUS
  <2>1. CASE x = 0
    BY <2>1
  <2>2. CASE x # 0
    <3>1. x - 1 \in D /\ x - 1 < x
      BY <2>2, <1>1
    <3>2. h[x - 1] = k[x - 1]
      BY <3>1
    <3> QED BY <2>2, <2>3, <3>2
  <2> QED BY <2>1, <2>2, <2>3
<1>5. \E f \in [D -> Int] : f = F[f]
  <2>1. Recursion(D, Int, size, Len(s) + 1, F)
    <3>1. Int # {} /\ size \in [D -> Nat] /\ Len(s) + 1 \in Nat /\ \A x \in D : size[x] < Len(s) + 1
      BY <1>1
    <3> HIDE DEF D, F, size
    <3> QED BY <3>1, <1>3, <1>4 DEF Recursion
  <2> HIDE DEF D, F, size
  <2> QED BY <2>1, RecursionDefines
<1>6. PICK f \in [D -> Int] : f = [i \in D |-> Body(f, i)]
  BY <1>5
<1> QED BY <1>6 DEF Values

\* A further digit keeps the order of two numbers.
LEMMA OneDigitMore ==
  ASSUME NEW x \in Nat, NEW y \in Nat, NEW a \in 0..9, NEW b \in 0..9
  PROVE  /\ 10 * x + a \in Nat
         /\ x < y => 10 * x + a < 10 * y + b
         /\ x > 0 => 10 * x + a > 0
  OBVIOUS

LEMMA OtherDigit ==
  ASSUME NEW w \in Nat, NEW a \in Nat, NEW b \in Nat, a < b PROVE w + (a - Zero) < w + (b - Zero)
  BY DEF Zero

\* The value of a number, digit by digit.
LEMMA ValuesOf ==
  ASSUME NEW s \in Seq(Digits)
  PROVE  /\ Len(s) \in Nat /\ \A i \in 1..Len(s) : s[i] - Zero \in 0..9 /\ s[i] \in Nat
         /\ Values(s)[0] = 0
         /\ \A i \in 1..Len(s) : Values(s)[i] = 10 * Values(s)[i - 1] + (s[i] - Zero)
         /\ \A i \in 0..Len(s) : Values(s)[i] \in Nat
         /\ Number(s) \in Nat
<1>1. Len(s) \in Nat /\ \A i \in 1..Len(s) : s[i] \in Digits
  BY ElementOfSeq, LenProperties
<1>2. \A i \in 1..Len(s) : s[i] - Zero \in 0..9 /\ s[i] \in Nat
  BY <1>1 DEF Digits, Zero
<1>3. s \in Seq(Int)
  <2>1. Digits \subseteq Int
    BY DEF Digits
  <2> QED BY <2>1, SeqMonotonic
<1>4. \A i \in 0..Len(s) : Values(s)[i] = IF i = 0 THEN 0 ELSE 10 * Values(s)[i - 1] + (s[i] - Zero)
  <2> DEFINE v == Values(s)
  <2>1. v = [i \in 0..Len(s) |-> IF i = 0 THEN 0 ELSE 10 * v[i - 1] + (s[i] - Zero)]
    BY <1>3, ValuesDef
  <2> HIDE DEF v
  <2>2. \A i \in 0..Len(s) : v[i] = IF i = 0 THEN 0 ELSE 10 * v[i - 1] + (s[i] - Zero)
    BY <2>1
  <2> QED BY <2>2 DEF v
<1>5. /\ Values(s)[0] = 0
      /\ \A i \in 1..Len(s) : Values(s)[i] = 10 * Values(s)[i - 1] + (s[i] - Zero)
  BY <1>1, <1>4
<1>6. \A i \in 0..Len(s) : Values(s)[i] \in Nat
  <2> DEFINE T == {i \in 0..Len(s) : Values(s)[i] \notin Nat}
  <2>1. T \in SUBSET Nat
    BY <1>1
  <2> SUFFICES ASSUME T # {} PROVE FALSE
    OBVIOUS
  <2>2. PICK i \in T : \A k \in T : i <= k
    <3> HIDE DEF T
    <3> QED BY <2>1, Least
  <2>3. i # 0 /\ i \in 1..Len(s)
    BY <1>1, <1>5, <2>2
  <2>4. i - 1 \in 0..Len(s) /\ ~(i <= i - 1)
    BY <1>1, <2>3
  <2>5. Values(s)[i - 1] \in Nat
    BY <2>2, <2>4
  <2>6. Values(s)[i] \in Nat
    BY <1>2, <1>5, <2>3, <2>5, OneDigitMore
  <2> QED BY <2>2, <2>6
<1> QED BY <1>1, <1>2, <1>5, <1>6 DEF Number

\* Of numbers with as many digits left, the lesser one stays the lesser one, and equal ones with
\* the same digits left stay equal.
LEMMA Aligned ==
  ASSUME NEW s \in Seq(Digits), NEW t \in Seq(Digits), NEW p \in 0..Len(s), NEW q \in 0..Len(t),
         Len(s) - p = Len(t) - q
  PROVE  /\ Values(s)[p] < Values(t)[q] => Number(s) < Number(t)
         /\ Values(s)[p] = Values(t)[q] /\ (\A k \in 1..Len(s) - p : s[p + k] = t[q + k]) =>
              Number(s) = Number(t)
<1> DEFINE v == Values(s)
           w == Values(t)
           n == Len(s) - p
<1>1. /\ n \in Nat /\ p \in Nat /\ q \in Nat /\ Len(s) = p + n /\ Len(t) = q + n
      /\ Len(s) \in Nat /\ Len(t) \in Nat
  BY ValuesOf
<1>2. ASSUME NEW k \in 1..n
      PROVE  /\ v[p + k] = 10 * v[p + (k - 1)] + (s[p + k] - Zero) /\ s[p + k] - Zero \in 0..9
             /\ w[q + k] = 10 * w[q + (k - 1)] + (t[q + k] - Zero) /\ t[q + k] - Zero \in 0..9
             /\ v[p + k] \in Nat /\ v[p + (k - 1)] \in Nat /\ w[q + k] \in Nat /\ w[q + (k - 1)] \in Nat
             /\ s[p + k] \in Nat /\ t[q + k] \in Nat
  <2>1. p + k \in 1..Len(s) /\ q + k \in 1..Len(t) /\ (p + k) - 1 = p + (k - 1) /\ (q + k) - 1 = q + (k - 1)
    BY <1>1
  <2>2. p + (k - 1) \in 0..Len(s) /\ q + (k - 1) \in 0..Len(t) /\ p + k \in 0..Len(s) /\ q + k \in 0..Len(t)
    BY <1>1
  <2>3. /\ v[p + k] = 10 * v[(p + k) - 1] + (s[p + k] - Zero) /\ s[p + k] - Zero \in 0..9 /\ s[p + k] \in Nat
        /\ v[p + k] \in Nat /\ v[p + (k - 1)] \in Nat
    BY <2>1, <2>2, ValuesOf
  <2>4. /\ w[q + k] = 10 * w[(q + k) - 1] + (t[q + k] - Zero) /\ t[q + k] - Zero \in 0..9 /\ t[q + k] \in Nat
        /\ w[q + k] \in Nat /\ w[q + (k - 1)] \in Nat
    BY <2>1, <2>2, ValuesOf
  <2> QED BY <2>1, <2>3, <2>4
<1>3. ASSUME v[p] < w[q] PROVE Number(s) < Number(t)
  <2> DEFINE T == {k \in 0..n : ~(v[p + k] < w[q + k])}
  <2>1. T \in SUBSET Nat
    BY <1>1
  <2>2. T = {}
    <3> SUFFICES ASSUME T # {} PROVE FALSE
      OBVIOUS
    <3>1. PICK k \in T : \A j \in T : k <= j
      <4> HIDE DEF T
      <4> QED BY <2>1, Least
    <3>2. k # 0
      BY <3>1, <1>3, <1>1
    <3>3. k \in 1..n /\ k - 1 \in 0..n /\ ~(k <= k - 1)
      BY <3>1, <3>2, <1>1
    <3>4. v[p + (k - 1)] < w[q + (k - 1)]
      BY <3>1, <3>3
    <3> HIDE DEF v, w, n
    <3> DEFINE a == s[p + k] - Zero
               b == t[q + k] - Zero
               x == v[p + (k - 1)]
               y == w[q + (k - 1)]
    <3>5. /\ x \in Nat /\ y \in Nat /\ a \in 0..9 /\ b \in 0..9 /\ x < y
          /\ v[p + k] = 10 * x + a /\ w[q + k] = 10 * y + b
      BY <1>2, <3>3, <3>4
    <3>6. v[p + k] < w[q + k]
      <4> HIDE DEF a, b, x, y
      <4>1. 10 * x + a < 10 * y + b
        BY <3>5, OneDigitMore
      <4> QED BY <3>5, <4>1
    <3> QED BY <3>1, <3>6
  <2>3. v[p + n] < w[q + n]
    <3>1. n \in 0..n
      BY <1>1
    <3>2. n \notin T
      BY <2>2
    <3> QED BY <3>1, <3>2
  <2> QED BY <2>3, <1>1 DEF Number
<1>4. ASSUME v[p] = w[q], \A k \in 1..n : s[p + k] = t[q + k] PROVE Number(s) = Number(t)
  <2> DEFINE T == {k \in 0..n : v[p + k] # w[q + k]}
  <2>1. T \in SUBSET Nat
    BY <1>1
  <2>2. T = {}
    <3> SUFFICES ASSUME T # {} PROVE FALSE
      OBVIOUS
    <3>1. PICK k \in T : \A j \in T : k <= j
      <4> HIDE DEF T
      <4> QED BY <2>1, Least
    <3>2. k # 0
      BY <3>1, <1>4, <1>1
    <3>3. k \in 1..n /\ k - 1 \in 0..n /\ ~(k <= k - 1)
      BY <3>1, <3>2, <1>1
    <3>4. v[p + (k - 1)] = w[q + (k - 1)]
      BY <3>1, <3>3
    <3> HIDE DEF v, w, n
    <3>5. v[p + k] = w[q + k]
      BY <1>2, <1>4, <3>3, <3>4
    <3> QED BY <3>1, <3>5
  <2>3. v[p + n] = w[q + n]
    <3>1. n \in 0..n
      BY <1>1
    <3>2. n \notin T
      BY <2>2
    <3> QED BY <3>1, <3>2
  <2> QED BY <2>3, <1>1 DEF Number
<1> QED BY <1>3, <1>4

\* The same digits have the same values.
LEMMA EqualBeginnings ==
  ASSUME NEW s \in Seq(Digits), NEW t \in Seq(Digits), NEW n \in 0..Len(s), n \in 0..Len(t),
         \A k \in 1..n : s[k] = t[k]
  PROVE  Values(s)[n] = Values(t)[n]
<1> DEFINE T == {i \in 0..n : Values(s)[i] # Values(t)[i]}
<1>1. T \in SUBSET Nat /\ Len(s) \in Nat /\ Len(t) \in Nat /\ n \in Nat
  BY ValuesOf
<1> SUFFICES ASSUME T # {} PROVE FALSE
  BY <1>1
<1>2. PICK i \in T : \A k \in T : i <= k
  <2> HIDE DEF T
  <2> QED BY <1>1, Least
<1>3. i # 0
  BY <1>2, ValuesOf
<1>4. i \in 1..n /\ i - 1 \in 0..n /\ ~(i <= i - 1) /\ i \in 1..Len(s) /\ i \in 1..Len(t)
  BY <1>1, <1>2, <1>3
<1>5. Values(s)[i - 1] = Values(t)[i - 1]
  BY <1>2, <1>4
<1>6. /\ Values(s)[i] = 10 * Values(s)[i - 1] + (s[i] - Zero)
      /\ Values(t)[i] = 10 * Values(t)[i - 1] + (t[i] - Zero)
  BY <1>4, ValuesOf
<1> QED BY <1>2, <1>4, <1>5, <1>6

\* Leading zeros say nothing, and after another digit a number is not 0.
LEMMA LeadingZeros ==
  ASSUME NEW s \in Seq(Digits), NEW p \in 0..Len(s), \A k \in 1..p : s[k] = Zero
  PROVE  Values(s)[p] = 0
<1> DEFINE T == {i \in 0..p : Values(s)[i] # 0}
<1>1. T \in SUBSET Nat /\ Len(s) \in Nat
  BY ValuesOf
<1> SUFFICES ASSUME T # {} PROVE FALSE
  BY <1>1
<1>2. PICK i \in T : \A k \in T : i <= k
  <2> HIDE DEF T
  <2> QED BY <1>1, Least
<1>3. i # 0
  BY <1>2, ValuesOf
<1>4. i \in 1..p /\ i - 1 \in 0..p /\ ~(i <= i - 1) /\ i \in 1..Len(s)
  BY <1>1, <1>2, <1>3
<1>5. Values(s)[i - 1] = 0
  BY <1>2, <1>4
<1>6. s[i] = Zero /\ Values(s)[i] = 10 * Values(s)[i - 1] + (s[i] - Zero)
  BY <1>4, ValuesOf
<1>7. Values(s)[i] = 0
  BY <1>5, <1>6 DEF Zero
<1> QED BY <1>2, <1>7

\* A number without leading zeros is more than none from its first digit on,
LEMMA NoLeadingZero ==
  ASSUME NEW s \in Seq(Digits), NEW p \in 1..Len(s), s[1] # Zero
  PROVE  Values(s)[p] > 0
<1> DEFINE T == {i \in 1..p : ~(Values(s)[i] > 0)}
<1>1. T \in SUBSET Nat /\ Len(s) \in Nat /\ p \in Nat /\ p >= 1
  BY ValuesOf
<1> SUFFICES ASSUME T # {} PROVE FALSE
  BY <1>1
<1>2. PICK i \in T : \A k \in T : i <= k
  <2> HIDE DEF T
  <2> QED BY <1>1, Least
<1>3. i \in 1..Len(s) /\ i - 1 \in 0..Len(s)
  BY <1>1, <1>2
<1>4. /\ Values(s)[i] = 10 * Values(s)[i - 1] + (s[i] - Zero)
      /\ Values(s)[i - 1] \in Nat /\ Values(s)[i] \in Nat /\ s[i] \in Nat /\ s[i] - Zero \in 0..9
  BY <1>3, ValuesOf
<1>5. CASE i = 1
  <2>1. Values(s)[0] = 0
    BY ValuesOf
  <2>2. s[1] - Zero > 0
    <3> DEFINE c == s[1]
    <3>1. c \in Nat /\ c - Zero \in 0..9 /\ c # Zero
      BY <1>4, <1>5
    <3> HIDE DEF c
    <3>2. c - Zero > 0
      BY <3>1 DEF Zero
    <3> QED BY <3>2 DEF c
  <2>3. Values(s)[i] > 0
    BY <1>4, <1>5, <2>1, <2>2
  <2> QED BY <1>2, <2>3
<1>6. CASE i # 1
  <2>1. i - 1 \in 1..p /\ ~(i <= i - 1)
    BY <1>1, <1>2, <1>6
  <2>2. Values(s)[i - 1] > 0
    BY <1>2, <2>1
  <2>3. Values(s)[i] > 0
    BY <1>4, <2>2, OneDigitMore
  <2> QED BY <1>2, <2>3
<1> QED BY <1>5, <1>6

\* so that the longer of two is the greater one.
LEMMA Longer ==
  ASSUME NEW s \in Seq(Digits), NEW t \in Seq(Digits), Len(s) < Len(t), t[1] # Zero
  PROVE  Number(s) < Number(t)
<1> DEFINE q == Len(t) - Len(s)
<1>1. Len(s) \in Nat /\ Len(t) \in Nat /\ q \in 1..Len(t) /\ 0 \in 0..Len(s) /\ Len(s) - 0 = Len(t) - q
  BY ValuesOf
<1>2. Values(s)[0] = 0 /\ Values(t)[q] > 0
  BY <1>1, ValuesOf, NoLeadingZero
<1>3. Values(s)[0] < Values(t)[q] /\ q \in 0..Len(t)
  BY <1>1, <1>2
<1> QED BY <1>1, <1>3, Aligned

-----------------------------------------------------------------------------
(* The order of keys. *)

\* The result c of a comparison is right for the keys x and y.
Orders(c, x, y) == \/ c = -1 /\ Lesser(x, y)
                   \/ c = 0 /\ x = y
                   \/ c = 1 /\ Lesser(y, x)

\* The result c, or d where it decides nothing.
Chained(c, d) == IF c # 0 THEN c ELSE d

LEMMA SignCases ==
  ASSUME NEW x \in Int PROVE (x < 0 /\ Sign(x) = -1) \/ (x = 0 /\ Sign(x) = 0) \/ (x > 0 /\ Sign(x) = 1)
  BY DEF Sign

\* What decides between two keys decides whatever comes after them,
LEMMA LesserConcat ==
  ASSUME NEW x \in Seq(Nat), NEW y \in Seq(Nat), NEW u \in Seq(Nat), NEW v \in Seq(Nat), Lesser(x, y)
  PROVE  Lesser(x \o u, y \o v)
<1>1. /\ Len(x) \in Nat /\ Len(y) \in Nat /\ Len(u) \in Nat /\ Len(v) \in Nat
      /\ DOMAIN x = 1..Len(x) /\ DOMAIN y = 1..Len(y)
  BY LenProperties
<1>2. PICK i \in DOMAIN x \cap DOMAIN y : x[i] < y[i] /\ \A j \in 1..i - 1 : x[j] = y[j]
  BY DEF Lesser
<1>3. /\ x \o u \in Seq(Nat) /\ Len(x \o u) = Len(x) + Len(u)
      /\ \A k \in 1..Len(x) + Len(u) : (x \o u)[k] = IF k <= Len(x) THEN x[k] ELSE u[k - Len(x)]
  BY ConcatProperties
<1>4. /\ y \o v \in Seq(Nat) /\ Len(y \o v) = Len(y) + Len(v)
      /\ \A k \in 1..Len(y) + Len(v) : (y \o v)[k] = IF k <= Len(y) THEN y[k] ELSE v[k - Len(y)]
  BY ConcatProperties
<1>5. DOMAIN (x \o u) = 1..Len(x) + Len(u) /\ DOMAIN (y \o v) = 1..Len(y) + Len(v)
  BY <1>3, <1>4, LenProperties
<1>6. /\ i \in 1..Len(x) + Len(u) /\ i \in 1..Len(y) + Len(v) /\ i <= Len(x) /\ i <= Len(y)
  BY <1>1, <1>2
<1>7. (x \o u)[i] = x[i] /\ (y \o v)[i] = y[i]
  BY <1>3, <1>4, <1>6
<1>8. ASSUME NEW j \in 1..i - 1 PROVE (x \o u)[j] = (y \o v)[j]
  <2>1. j \in 1..Len(x) + Len(u) /\ j \in 1..Len(y) + Len(v) /\ j <= Len(x) /\ j <= Len(y)
    BY <1>1, <1>6
  <2> QED BY <1>2, <1>3, <1>4, <2>1
<1> QED BY <1>2, <1>5, <1>6, <1>7, <1>8 DEF Lesser

\* and so it does after equal ones.
LEMMA LesserAfter ==
  ASSUME NEW x \in Seq(Nat), NEW u \in Seq(Nat), NEW v \in Seq(Nat), Lesser(u, v)
  PROVE  Lesser(x \o u, x \o v)
<1>1. /\ Len(x) \in Nat /\ Len(u) \in Nat /\ Len(v) \in Nat
      /\ DOMAIN u = 1..Len(u) /\ DOMAIN v = 1..Len(v)
  BY LenProperties
<1>2. PICK i \in DOMAIN u \cap DOMAIN v : u[i] < v[i] /\ \A j \in 1..i - 1 : u[j] = v[j]
  BY DEF Lesser
<1>3. /\ x \o u \in Seq(Nat) /\ Len(x \o u) = Len(x) + Len(u)
      /\ \A k \in 1..Len(x) + Len(u) : (x \o u)[k] = IF k <= Len(x) THEN x[k] ELSE u[k - Len(x)]
  BY ConcatProperties
<1>4. /\ x \o v \in Seq(Nat) /\ Len(x \o v) = Len(x) + Len(v)
      /\ \A k \in 1..Len(x) + Len(v) : (x \o v)[k] = IF k <= Len(x) THEN x[k] ELSE v[k - Len(x)]
  BY ConcatProperties
<1>5. DOMAIN (x \o u) = 1..Len(x) + Len(u) /\ DOMAIN (x \o v) = 1..Len(x) + Len(v)
  BY <1>3, <1>4, LenProperties
<1> DEFINE k == Len(x) + i
<1>6. /\ k \in 1..Len(x) + Len(u) /\ k \in 1..Len(x) + Len(v) /\ ~(k <= Len(x)) /\ k - Len(x) = i
  BY <1>1, <1>2
<1>7. (x \o u)[k] = u[i] /\ (x \o v)[k] = v[i]
  BY <1>3, <1>4, <1>6
<1>8. ASSUME NEW j \in 1..k - 1 PROVE (x \o u)[j] = (x \o v)[j]
  <2>1. j \in 1..Len(x) + Len(u) /\ j \in 1..Len(x) + Len(v) /\ (j <= Len(x) \/ j - Len(x) \in 1..i - 1)
    BY <1>1, <1>2, <1>6
  <2>2. (x \o u)[j] = (IF j <= Len(x) THEN x[j] ELSE u[j - Len(x)])
        /\ (x \o v)[j] = (IF j <= Len(x) THEN x[j] ELSE v[j - Len(x)])
    BY <1>3, <1>4, <2>1
  <2> QED BY <1>2, <2>1, <2>2
<1> QED
  <2> HIDE DEF k
  <2> QED BY <1>2, <1>5, <1>6, <1>7, <1>8 DEF Lesser

\* The order of keys is a strict one.
LEMMA LesserAsymmetric ==
  ASSUME NEW x \in Seq(Nat), NEW y \in Seq(Nat), Lesser(x, y) PROVE ~Lesser(y, x) /\ x # y
<1>1. /\ Len(x) \in Nat /\ Len(y) \in Nat /\ DOMAIN x = 1..Len(x) /\ DOMAIN y = 1..Len(y)
      /\ \A i \in 1..Len(x) : x[i] \in Nat /\ \A j \in 1..Len(y) : y[j] \in Nat
  BY LenProperties, ElementOfSeq
<1>2. PICK i \in DOMAIN x \cap DOMAIN y : x[i] < y[i] /\ \A j \in 1..i - 1 : x[j] = y[j]
  BY DEF Lesser
<1>3. i \in Nat /\ i >= 1 /\ x[i] \in Nat /\ y[i] \in Nat
  BY <1>1, <1>2
<1>4. ASSUME NEW k \in DOMAIN y \cap DOMAIN x, y[k] < x[k], \A j \in 1..k - 1 : y[j] = x[j] PROVE FALSE
  <2>1. k \in Nat /\ k >= 1 /\ x[k] \in Nat /\ y[k] \in Nat
    BY <1>1
  <2>2. CASE k < i
    <3>1. k \in 1..i - 1
      BY <2>1, <2>2, <1>3
    <3> QED BY <3>1, <1>2, <1>4, <2>1
  <2>3. CASE k = i
    BY <2>1, <2>3, <1>2, <1>4
  <2>4. CASE k > i
    <3>1. i \in 1..k - 1
      BY <2>1, <2>4, <1>3
    <3> QED BY <3>1, <1>2, <1>3, <1>4
  <2> QED BY <1>3, <2>1, <2>2, <2>3, <2>4
<1>5. ~Lesser(y, x)
  BY <1>4 DEF Lesser
<1> QED BY <1>2, <1>3, <1>5

LEMMA LesserTransitive ==
  ASSUME NEW x \in Seq(Nat), NEW y \in Seq(Nat), NEW z \in Seq(Nat), Lesser(x, y), Lesser(y, z)
  PROVE  Lesser(x, z)
<1>1. /\ Len(x) \in Nat /\ Len(y) \in Nat /\ Len(z) \in Nat
      /\ DOMAIN x = 1..Len(x) /\ DOMAIN y = 1..Len(y) /\ DOMAIN z = 1..Len(z)
      /\ \A i \in 1..Len(x) : x[i] \in Nat
      /\ \A i \in 1..Len(y) : y[i] \in Nat
      /\ \A i \in 1..Len(z) : z[i] \in Nat
  BY LenProperties, ElementOfSeq
<1>2. PICK i \in DOMAIN x \cap DOMAIN y : x[i] < y[i] /\ \A j \in 1..i - 1 : x[j] = y[j]
  BY DEF Lesser
<1>3. PICK k \in DOMAIN y \cap DOMAIN z : y[k] < z[k] /\ \A j \in 1..k - 1 : y[j] = z[j]
  BY DEF Lesser
<1>4. i \in Nat /\ i >= 1 /\ k \in Nat /\ k >= 1 /\ i <= Len(x) /\ i <= Len(y) /\ k <= Len(y) /\ k <= Len(z)
  BY <1>1, <1>2, <1>3
<1> DEFINE l == IF i <= k THEN i ELSE k
<1>5. l \in 1..Len(x) /\ l \in 1..Len(z) /\ l \in 1..Len(y)
  BY <1>1, <1>4
<1>6. x[l] \in Nat /\ y[l] \in Nat /\ z[l] \in Nat
  BY <1>1, <1>5
<1>7. x[l] < z[l]
  <2>1. CASE i < k
    <3>1. i \in 1..k - 1 /\ l = i
      BY <1>4, <2>1
    <3> QED BY <3>1, <1>2, <1>3
  <2>2. CASE i = k
    <3>1. l = i /\ x[i] < y[i] /\ y[i] < z[i]
      BY <2>2, <1>2, <1>3, <1>4
    <3>2. x[i] \in Nat /\ y[i] \in Nat /\ z[i] \in Nat
      BY <3>1, <1>6
    <3>3. x[i] < z[i]
      BY <3>1, <3>2
    <3> QED BY <3>1, <3>3
  <2>3. CASE i > k
    <3>1. k \in 1..i - 1 /\ l = k
      BY <1>4, <2>3
    <3> QED BY <3>1, <1>2, <1>3
  <2> QED BY <1>4, <2>1, <2>2, <2>3
<1>8. ASSUME NEW j \in 1..l - 1 PROVE x[j] = z[j]
  <2>1. j \in 1..i - 1 /\ j \in 1..k - 1
    BY <1>4
  <2> QED BY <2>1, <1>2, <1>3
<1> HIDE DEF l
<1> QED BY <1>1, <1>5, <1>7, <1>8 DEF Lesser

\* Comparing the beginnings and, where they are equal, what comes after them.
LEMMA OrdersChain ==
  ASSUME NEW x \in Seq(Nat), NEW y \in Seq(Nat), NEW u \in Seq(Nat), NEW v \in Seq(Nat),
         NEW c, NEW d, Orders(c, x, y), Orders(d, u, v)
  PROVE  Orders(Chained(c, d), x \o u, y \o v)
<1>1. CASE c = -1
  BY <1>1, LesserConcat DEF Orders, Chained
<1>2. CASE c = 1
  BY <1>2, LesserConcat DEF Orders, Chained
<1>3. CASE c = 0
  <2>1. x = y
    BY <1>3 DEF Orders
  <2> QED BY <1>3, <2>1, LesserAfter DEF Orders, Chained
<1> QED BY <1>1, <1>2, <1>3 DEF Orders, Chained

\* Keys with different first elements, and keys of one number.
LEMMA FirstDecides ==
  ASSUME NEW x \in Seq(Nat), NEW y \in Seq(Nat), Len(x) >= 1, Len(y) >= 1, x[1] < y[1]
  PROVE  Lesser(x, y)
<1>1. Len(x) \in Nat /\ Len(y) \in Nat /\ DOMAIN x = 1..Len(x) /\ DOMAIN y = 1..Len(y)
  BY LenProperties
<1>2. 1 \in DOMAIN x \cap DOMAIN y /\ \A j \in 1..1 - 1 : x[j] = y[j]
  BY <1>1
<1> QED BY <1>2 DEF Lesser

LEMMA Singleton ==
  ASSUME NEW e \in Nat
  PROVE  <<e>> \in Seq(Nat) /\ Len(<<e>>) = 1 /\ <<e>>[1] = e
  OBVIOUS

LEMMA NatOrders ==
  ASSUME NEW x \in Nat, NEW y \in Nat PROVE Orders(Sign(x - y), <<x>>, <<y>>)
<1>1. /\ <<x>> \in Seq(Nat) /\ Len(<<x>>) >= 1 /\ <<x>>[1] = x
      /\ <<y>> \in Seq(Nat) /\ Len(<<y>>) >= 1 /\ <<y>>[1] = y
  BY Singleton
<1>2. CASE x < y
  <2>1. Sign(x - y) = -1
    BY <1>2, SignCases
  <2>2. Lesser(<<x>>, <<y>>)
    BY <1>1, <1>2, FirstDecides
  <2> QED BY <2>1, <2>2 DEF Orders
<1>3. CASE x = y
  <2>1. Sign(x - y) = 0
    BY <1>3, SignCases
  <2> QED BY <1>3, <2>1 DEF Orders
<1>4. CASE x > y
  <2>1. Sign(x - y) = 1
    BY <1>4, SignCases
  <2>2. Lesser(<<y>>, <<x>>)
    BY <1>1, <1>4, FirstDecides
  <2> QED BY <2>1, <2>2 DEF Orders
<1> QED BY <1>2, <1>3, <1>4

-----------------------------------------------------------------------------
(* Where segments begin and end, and how two of them compare. *)

LEMMA LettersAreNoDigits == ASSUME NEW c \in Letters PROVE c \notin Digits /\ c \in Nat /\ c > 0
  BY DEF Letters, Digits

\* What stands in s from m up to, and not at, e.
LEMMA Slice ==
  ASSUME NEW S, NEW s, NEW m \in Nat, NEW e \in Nat, m <= e, \A k \in m..e - 1 : s[k] \in S
  PROVE  /\ SubSeq(s, m, e - 1) \in Seq(S) /\ Len(SubSeq(s, m, e - 1)) = e - m
         /\ \A k \in 1..e - m : SubSeq(s, m, e - 1)[k] = s[m + k - 1]
<1> DEFINE n == e - 1
<1>1. m \in Int /\ n \in Int /\ n - m + 1 = e - m /\ (m <= n \/ e - m = 0)
  OBVIOUS
<1>2. \A k \in m..n : s[k] \in S
  OBVIOUS
<1> HIDE DEF n
<1>3. /\ SubSeq(s, m, n) \in Seq(S) /\ Len(SubSeq(s, m, n)) = IF m <= n THEN n - m + 1 ELSE 0
      /\ \A k \in 1..n - m + 1 : SubSeq(s, m, n)[k] = s[m + k - 1]
  BY <1>1, <1>2, SubSeqProperties
<1>4. (IF m <= n THEN n - m + 1 ELSE 0) = e - m
  BY <1>1 DEF n
<1> QED BY <1>1, <1>3, <1>4 DEF n

\* Skip stops where it says.
LEMMA Skips ==
  ASSUME NEW s \in Seq(Bytes), NEW i \in 1..Len(s) + 1, NEW S
  PROVE  /\ Len(s) \in Nat /\ Skip(s, i, S) \in i..Len(s) + 1
         /\ Skip(s, i, S) = Len(s) + 1 \/ s[Skip(s, i, S)] \notin S
         /\ \A k \in i..Skip(s, i, S) - 1 : s[k] \in S
<1> DEFINE T == {j \in i..Len(s) + 1 : j = Len(s) + 1 \/ s[j] \notin S}
<1>1. Len(s) \in Nat /\ i \in Nat /\ T \in SUBSET Nat /\ Len(s) + 1 \in T
  BY LenProperties
<1>2. PICK j \in T : \A k \in T : j <= k
  <2> HIDE DEF T
  <2> QED BY <1>1, Least
<1>3. ASSUME NEW k \in i..j - 1 PROVE s[k] \in S
  <2>1. k \in i..Len(s) + 1 /\ k # Len(s) + 1 /\ ~(j <= k)
    BY <1>1, <1>2
  <2> QED BY <1>2, <2>1
<1>4. \E x \in i..Len(s) + 1 : (x = Len(s) + 1 \/ s[x] \notin S) /\ \A k \in i..x - 1 : s[k] \in S
  BY <1>2, <1>3
<1>5. /\ Skip(s, i, S) \in i..Len(s) + 1
      /\ Skip(s, i, S) = Len(s) + 1 \/ s[Skip(s, i, S)] \notin S
      /\ \A k \in i..Skip(s, i, S) - 1 : s[k] \in S
  BY <1>4 DEF Skip
<1> QED BY <1>1, <1>5

\* What a segment is, and the number that it is without leading zeros.
LEMMA NumberSegment ==
  ASSUME NEW s \in Seq(Bytes), NEW m \in 1..Len(s), s[m] \in Digits,
         NEW e, e = SegmentEnd(s, m), NEW x, x = SubSeq(s, Significant(s, m), e - 1)
  PROVE  /\ e \in m + 1..Len(s) + 1 /\ SubSeq(s, m, e - 1) \in Seq(Digits)
         /\ x \in Seq(Digits) /\ Len(x) >= 1 /\ (Len(x) > 1 => x[1] # Zero)
         /\ Number(SubSeq(s, m, e - 1)) = Number(x)
<1>1. /\ Len(s) \in Nat /\ m \in Nat /\ m >= 1 /\ e \in m..Len(s) + 1
      /\ e = Len(s) + 1 \/ s[e] \notin Digits
      /\ \A k \in m..e - 1 : s[k] \in Digits
  BY Skips DEF SegmentEnd
<1>2. e \in m + 1..Len(s) + 1
  BY <1>1
<1> DEFINE z == Significant(s, m)
           Starts(k) == ~(s[k] = Zero /\ k < Len(s) /\ s[k + 1] \in Digits)
<1>3. /\ z \in m..Len(s) /\ Starts(z)
      /\ \A k \in m..z - 1 : s[k] = Zero /\ s[k + 1] \in Digits
  <2> DEFINE T == {k \in m..Len(s) : Starts(k)}
  <2>1. T \in SUBSET Nat /\ Len(s) \in T
    BY <1>1
  <2>2. PICK y \in T : \A k \in T : y <= k
    <3> HIDE DEF T
    <3> QED BY <2>1, Least
  <2>3. ASSUME NEW k \in m..y - 1 PROVE s[k] = Zero /\ s[k + 1] \in Digits
    <3>1. k \in m..Len(s) /\ ~(y <= k)
      BY <1>1, <2>2
    <3> QED BY <2>2, <3>1
  <2>4. \E w \in m..Len(s) : Starts(w) /\ \A k \in m..w - 1 : s[k] = Zero /\ s[k + 1] \in Digits
    BY <2>2, <2>3
  <2> QED BY <2>4 DEF Significant
<1>4. z \in Nat /\ z < e
  <2>1. CASE e \in m + 1..z
    <3>1. e - 1 \in m..z - 1 /\ (e - 1) + 1 = e /\ e # Len(s) + 1
      BY <1>1, <1>2, <1>3, <2>1
    <3>2. s[e] \in Digits
      BY <1>3, <3>1
    <3> QED BY <1>1, <3>1, <3>2
  <2>2. CASE e \notin m + 1..z
    BY <1>1, <1>2, <1>3, <2>2
  <2> QED BY <2>1, <2>2
<1> HIDE DEF z
<1>0. Len(s) \in Nat /\ m \in Nat /\ z \in Nat /\ e \in Nat /\ m <= z /\ z < e /\ e <= Len(s) + 1
  BY <1>1, <1>2, <1>3, <1>4
<1> DEFINE t == SubSeq(s, m, e - 1)
<1>5. /\ t \in Seq(Digits) /\ Len(t) = e - m /\ \A k \in 1..e - m : t[k] = s[m + k - 1]
  <2>1. m \in Nat /\ e \in Nat /\ m <= e
    BY <1>1, <1>2
  <2> QED BY <2>1, <1>1, Slice
<1>6. /\ x \in Seq(Digits) /\ Len(x) = e - z /\ \A k \in 1..e - z : x[k] = s[z + k - 1]
  <2>1. z \in Nat /\ e \in Nat /\ z <= e
    BY <1>1, <1>2, <1>4
  <2>2. \A k \in z..e - 1 : s[k] \in Digits
    <3> SUFFICES ASSUME NEW k \in z..e - 1 PROVE s[k] \in Digits
      OBVIOUS
    <3>1. k \in m..e - 1
      BY <1>1, <1>3, <1>4
    <3> QED BY <1>1, <3>1
  <2>3. x = SubSeq(s, z, e - 1)
    BY DEF z
  <2>4. /\ SubSeq(s, z, e - 1) \in Seq(Digits) /\ Len(SubSeq(s, z, e - 1)) = e - z
        /\ \A k \in 1..e - z : SubSeq(s, z, e - 1)[k] = s[z + k - 1]
    BY <2>1, <2>2, Slice
  <2> QED BY <2>3, <2>4
<1>7. ASSUME Len(x) > 1 PROVE x[1] # Zero
  <2>1. 1 \in 1..e - z /\ z + 1 - 1 = z /\ z + 1 \in m..e - 1 /\ z < Len(s)
    BY <1>0, <1>6, <1>7
  <2>2. x[1] = s[z] /\ s[z + 1] \in Digits
    BY <1>1, <1>6, <2>1
  <2> QED BY <1>3, <2>1, <2>2
<1>8. Number(t) = Number(x)
  <2> DEFINE p == z - m
  <2>1. p \in 0..Len(t) /\ 0 \in 0..Len(x) /\ Len(t) - p = Len(x) - 0
    <3>1. Len(t) = e - m /\ Len(x) = e - z
      BY <1>5, <1>6
    <3>2. p \in 0..e - m /\ 0 \in 0..e - z /\ (e - m) - p = (e - z) - 0
      BY <1>0
    <3> HIDE DEF t, p
    <3> QED BY <3>1, <3>2, Zenon
  <2>2. \A k \in 1..p : t[k] = Zero
    <3> SUFFICES ASSUME NEW k \in 1..p PROVE t[k] = Zero
      OBVIOUS
    <3>1. k \in 1..e - m /\ m + k - 1 \in m..z - 1
      BY <1>1, <1>3, <1>4
    <3> QED BY <1>3, <1>5, <3>1
  <2>3. Values(t)[p] = Values(x)[0]
    BY <1>5, <1>6, <2>1, <2>2, LeadingZeros, ValuesOf
  <2>4. \A k \in 1..Len(t) - p : t[p + k] = x[0 + k]
    <3> SUFFICES ASSUME NEW k \in 1..Len(t) - p PROVE t[p + k] = x[0 + k]
      OBVIOUS
    <3>1. p + k \in 1..e - m /\ k \in 1..e - z /\ m + (p + k) - 1 = z + k - 1 /\ 0 + k = k
      <4>1. Len(t) = e - m
        BY <1>5
      <4> HIDE DEF t
      <4> QED BY <1>0, <4>1
    <3>2. t[p + k] = s[m + (p + k) - 1] /\ x[k] = s[z + k - 1]
      BY <1>5, <1>6, <3>1
    <3> QED BY <3>1, <3>2
  <2> HIDE DEF p, t
  <2> QED BY <1>5, <1>6, <2>1, <2>3, <2>4, Aligned
<1>9. Len(x) >= 1
  BY <1>1, <1>4, <1>6
<1> QED BY <1>2, <1>5, <1>6, <1>7, <1>8, <1>9

\* A segment of letters.
LEMMA WordSegment ==
  ASSUME NEW s \in Seq(Bytes), NEW m \in 1..Len(s), s[m] \in Letters, NEW e, e = SegmentEnd(s, m)
  PROVE  /\ e \in m + 1..Len(s) + 1 /\ SubSeq(s, m, e - 1) \in Seq(Letters)
         /\ s[m] \notin Digits
<1>1. s[m] \notin Digits
  BY LettersAreNoDigits
<1>2. /\ Len(s) \in Nat /\ m \in Nat /\ m >= 1 /\ e \in m..Len(s) + 1
      /\ e = Len(s) + 1 \/ s[e] \notin Letters
      /\ \A k \in m..e - 1 : s[k] \in Letters
  BY <1>1, Skips DEF SegmentEnd
<1>3. e \in m + 1..Len(s) + 1
  BY <1>2
<1>4. m \in Nat /\ e \in Nat /\ m <= e
  BY <1>2
<1>5. SubSeq(s, m, e - 1) \in Seq(Letters)
  BY <1>2, <1>4, Slice
<1> QED BY <1>1, <1>3, <1>5

\* Slices of bytes differ at one first place, or one is the beginning of the other.
LEMMA BytesCmpCases ==
  ASSUME NEW x \in Seq(Nat), NEW y \in Seq(Nat)
  PROVE  \/ \E d \in DOMAIN x \cap DOMAIN y :
              x[d] # y[d] /\ (\A j \in 1..d - 1 : x[j] = y[j]) /\ BytesCmp(x, y) = Sign(x[d] - y[d])
         \/ (\A i \in DOMAIN x \cap DOMAIN y : x[i] = y[i]) /\ BytesCmp(x, y) = Sign(Len(x) - Len(y))
<1> DEFINE ds == {i \in DOMAIN x \cap DOMAIN y : x[i] # y[i]}
<1>1. Len(x) \in Nat /\ Len(y) \in Nat /\ DOMAIN x = 1..Len(x) /\ DOMAIN y = 1..Len(y)
  BY LenProperties
<1>2. CASE ds = {}
  <2>1. \A i \in DOMAIN x \cap DOMAIN y : x[i] = y[i]
    BY <1>2
  <2>2. BytesCmp(x, y) = Sign(Len(x) - Len(y))
    BY <1>2 DEF BytesCmp
  <2> QED BY <2>1, <2>2
<1>3. CASE ds # {}
  <2> DEFINE d == CHOOSE i \in ds : \A j \in ds : i <= j
  <2>1. d \in ds /\ \A j \in ds : d <= j
    <3>1. ds \in SUBSET Nat
      BY <1>1
    <3> HIDE DEF ds
    <3>2. \E i \in ds : \A j \in ds : i <= j
      BY <1>3, <3>1, Least
    <3> QED BY <3>2
  <2>2. BytesCmp(x, y) = Sign(x[d] - y[d])
    BY <1>3 DEF BytesCmp
  <2> HIDE DEF d
  <2>3. ASSUME NEW j \in 1..d - 1 PROVE x[j] = y[j]
    <3>1. j \in DOMAIN x \cap DOMAIN y /\ ~(d <= j)
      BY <1>1, <2>1
    <3> QED BY <2>1, <3>1
  <2> QED BY <2>1, <2>2, <2>3
<1> QED BY <1>2, <1>3

\* Two segments of digits are compared as their numbers are,
LEMMA NumbersOrdered ==
  ASSUME NEW x \in Seq(Digits), NEW y \in Seq(Digits), Len(x) >= 1, Len(y) >= 1,
         Len(x) > 1 => x[1] # Zero, Len(y) > 1 => y[1] # Zero
  PROVE  Orders(NumCmp(x, y), <<2, Number(x)>>, <<2, Number(y)>>)
<1>0. Len(x) \in Nat /\ Len(y) \in Nat
  BY LenProperties
<1>1. /\ Len(x) \in Nat /\ Len(y) \in Nat /\ DOMAIN x = 1..Len(x) /\ DOMAIN y = 1..Len(y)
      /\ Number(x) \in Nat /\ Number(y) \in Nat
      /\ \A i \in 1..Len(x) : x[i] \in Nat
      /\ \A i \in 1..Len(y) : y[i] \in Nat
  BY ValuesOf, LenProperties
<1>2. Digits \subseteq Nat
  BY DEF Digits
<1>3. x \in Seq(Nat) /\ y \in Seq(Nat)
  BY <1>2, SeqMonotonic
<1>4. ASSUME NEW a \in Nat, NEW b \in Nat, a < b PROVE Lesser(<<2, a>>, <<2, b>>)
  <2>1. /\ 2 \in DOMAIN <<2, a>> \cap DOMAIN <<2, b>> /\ <<2, a>>[2] < <<2, b>>[2]
        /\ \A j \in 1..2 - 1 : <<2, a>>[j] = <<2, b>>[j]
    BY <1>4
  <2> QED BY <2>1 DEF Lesser
<1>5. \/ NumCmp(x, y) = -1 /\ Number(x) < Number(y)
      \/ NumCmp(x, y) = 0 /\ Number(x) = Number(y)
      \/ NumCmp(x, y) = 1 /\ Number(y) < Number(x)
  <2>1. CASE Len(x) < Len(y)
    <3>1. NumCmp(x, y) = -1
      <4>1. Len(x) - Len(y) \in Int /\ Len(x) - Len(y) < 0 /\ Len(x) # Len(y)
        BY <1>0, <2>1
      <4> QED BY <4>1, SignCases DEF NumCmp
    <3>2. y[1] # Zero
      BY <1>1, <2>1
    <3> QED BY <2>1, <3>1, <3>2, Longer
  <2>2. CASE Len(x) > Len(y)
    <3>1. NumCmp(x, y) = 1
      <4>1. Len(x) - Len(y) \in Int /\ Len(x) - Len(y) > 0 /\ Len(x) # Len(y)
        BY <1>0, <2>2
      <4> QED BY <4>1, SignCases DEF NumCmp
    <3>2. x[1] # Zero
      BY <1>1, <2>2
    <3>3. Len(y) < Len(x)
      BY <1>1, <2>2
    <3> QED BY <3>1, <3>2, <3>3, Longer
  <2>3. CASE Len(x) = Len(y)
    <3>1. NumCmp(x, y) = BytesCmp(x, y)
      BY <2>3 DEF NumCmp
    <3>2. CASE \A i \in DOMAIN x \cap DOMAIN y : x[i] = y[i]
      <4>1. x = y
        BY <1>1, <1>3, <2>3, <3>2, SeqEqual
      <4>2. BytesCmp(x, y) = 0
        <5>1. Sign(Len(x) - Len(y)) = 0
          BY <1>1, <2>3, SignCases
        <5> QED BY <1>3, <3>2, <5>1, BytesCmpCases
      <4> QED BY <3>1, <4>1, <4>2
    <3>3. ASSUME NEW d \in DOMAIN x \cap DOMAIN y, x[d] # y[d], \A j \in 1..d - 1 : x[j] = y[j],
                 BytesCmp(x, y) = Sign(x[d] - y[d])
          PROVE  \/ BytesCmp(x, y) = -1 /\ Number(x) < Number(y)
                 \/ BytesCmp(x, y) = 1 /\ Number(y) < Number(x)
      <4>1. /\ d \in 1..Len(x) /\ d \in 1..Len(y) /\ d - 1 \in 0..Len(x) /\ d - 1 \in 0..Len(y)
            /\ d \in 0..Len(x) /\ d \in 0..Len(y)
            /\ Len(x) - d = Len(y) - d /\ x[d] \in Nat /\ y[d] \in Nat
        BY <1>1, <2>3
      <4>2. Values(x)[d - 1] = Values(y)[d - 1]
        BY <3>3, <4>1, EqualBeginnings
      <4>3. /\ Values(x)[d] = 10 * Values(x)[d - 1] + (x[d] - Zero)
            /\ Values(y)[d] = 10 * Values(x)[d - 1] + (y[d] - Zero)
            /\ Values(x)[d - 1] \in Nat
        BY <4>1, <4>2, ValuesOf
      <4>4. /\ x[d] < y[d] => Values(x)[d] < Values(y)[d]
            /\ y[d] < x[d] => Values(y)[d] < Values(x)[d]
        <5> DEFINE w == 10 * Values(x)[d - 1]
        <5>1. w \in Nat /\ Values(x)[d] = w + (x[d] - Zero) /\ Values(y)[d] = w + (y[d] - Zero)
          BY <4>3
        <5> HIDE DEF w
        <5>2. x[d] < y[d] => w + (x[d] - Zero) < w + (y[d] - Zero)
          BY <4>1, <5>1, OtherDigit
        <5>3. y[d] < x[d] => w + (y[d] - Zero) < w + (x[d] - Zero)
          BY <4>1, <5>1, OtherDigit
        <5> QED BY <5>1, <5>2, <5>3
      <4>5. CASE x[d] < y[d]
        <5>1. Number(x) < Number(y)
          BY <4>1, <4>4, <4>5, Aligned
        <5>2. BytesCmp(x, y) = -1
          BY <3>3, <4>1, <4>5, SignCases
        <5> QED BY <5>1, <5>2
      <4>6. CASE y[d] < x[d]
        <5>1. Number(y) < Number(x)
          BY <4>1, <4>4, <4>6, Aligned
        <5>2. BytesCmp(x, y) = 1
          BY <3>3, <4>1, <4>6, SignCases
        <5> QED BY <5>1, <5>2
      <4> QED BY <3>3, <4>1, <4>5, <4>6
    <3> QED BY <1>3, <3>1, <3>2, <3>3, BytesCmpCases
  <2>4. Len(x) < Len(y) \/ Len(x) > Len(y) \/ Len(x) = Len(y)
    BY <1>0
  <2> QED BY <2>1, <2>2, <2>3, <2>4
<1> QED BY <1>1, <1>4, <1>5 DEF Orders

\* and two of letters as their keys are, where the end is before a letter.
LEMMA WordsOrdered ==
  ASSUME NEW x \in Seq(Letters), NEW y \in Seq(Letters)
  PROVE  /\ <<3>> \o x \o <<0>> \in Seq(Nat) /\ <<3>> \o y \o <<0>> \in Seq(Nat)
         /\ Orders(BytesCmp(x, y), <<3>> \o x \o <<0>>, <<3>> \o y \o <<0>>)
<1>0. Len(x) \in Nat /\ Len(y) \in Nat
  BY LenProperties
<1>1. /\ DOMAIN x = 1..Len(x) /\ DOMAIN y = 1..Len(y)
      /\ \A i \in 1..Len(x) : x[i] \in Letters
      /\ \A i \in 1..Len(y) : y[i] \in Letters
  BY LenProperties, ElementOfSeq
<1>2. Letters \subseteq Nat
  BY LettersAreNoDigits
<1>3. x \in Seq(Nat) /\ y \in Seq(Nat) /\ <<0>> \in Seq(Nat) /\ <<3>> \in Seq(Nat)
  <2>1. x \in Seq(Nat) /\ y \in Seq(Nat)
    BY <1>2, SeqMonotonic
  <2> QED BY <2>1, Singleton
<1>4. ASSUME NEW u \in Seq(Letters), NEW v \in Seq(Letters), u \in Seq(Nat), v \in Seq(Nat), Len(u) < Len(v),
             \A i \in DOMAIN u \cap DOMAIN v : u[i] = v[i]
      PROVE  Lesser(u \o <<0>>, v \o <<0>>)
  <2>1. Len(u) \in Nat /\ Len(v) \in Nat /\ Len(<<0>>) = 1 /\ <<0>> \in Seq(Nat) /\ <<0>>[1] = 0
    BY LenProperties
  <2>2. DOMAIN u = 1..Len(u) /\ DOMAIN v = 1..Len(v)
    BY LenProperties
  <2>3. /\ u \o <<0>> \in Seq(Nat) /\ Len(u \o <<0>>) = Len(u) + Len(<<0>>)
        /\ \A k \in 1..Len(u) + Len(<<0>>) : (u \o <<0>>)[k] = IF k <= Len(u) THEN u[k] ELSE <<0>>[k - Len(u)]
    BY <1>4, <2>1, ConcatProperties
  <2>4. /\ v \o <<0>> \in Seq(Nat) /\ Len(v \o <<0>>) = Len(v) + Len(<<0>>)
        /\ \A k \in 1..Len(v) + Len(<<0>>) : (v \o <<0>>)[k] = IF k <= Len(v) THEN v[k] ELSE <<0>>[k - Len(v)]
    BY <1>4, <2>1, ConcatProperties
  <2> DEFINE U == u \o <<0>>
             W == v \o <<0>>
             n == Len(u) + 1
  <2>5. DOMAIN U = 1..Len(u) + 1 /\ DOMAIN W = 1..Len(v) + 1
    BY <2>1, <2>3, <2>4, LenProperties
  <2>6. n \in 1..Len(u) + 1 /\ n \in 1..Len(v) + 1 /\ ~(n <= Len(u)) /\ n <= Len(v) /\ n - Len(u) = 1 /\ n \in 1..Len(v)
    BY <1>4, <2>1
  <2>7. U[n] = 0 /\ W[n] = v[n]
    BY <2>1, <2>3, <2>4, <2>6
  <2>8. v[n] > 0
    <3>1. v[n] \in Letters
      BY <2>6, ElementOfSeq
    <3> QED BY <3>1, LettersAreNoDigits
  <2>9. ASSUME NEW j \in 1..n - 1 PROVE U[j] = W[j]
    <3>1. j \in 1..Len(u) + 1 /\ j \in 1..Len(v) + 1 /\ j <= Len(u) /\ j <= Len(v) /\ j \in 1..Len(u) /\ j \in 1..Len(v)
      BY <1>4, <2>1
    <3>2. U[j] = u[j] /\ W[j] = v[j]
      BY <2>1, <2>3, <2>4, <3>1
    <3> QED BY <1>4, <2>2, <3>1, <3>2
  <2> HIDE DEF U, W, n
  <2>10. Lesser(U, W)
    BY <2>5, <2>6, <2>7, <2>8, <2>9 DEF Lesser
  <2> QED BY <2>10 DEF U, W
<1>5. Orders(BytesCmp(x, y), x \o <<0>>, y \o <<0>>)
  <2>1. ASSUME NEW d \in DOMAIN x \cap DOMAIN y, x[d] # y[d], \A j \in 1..d - 1 : x[j] = y[j],
               BytesCmp(x, y) = Sign(x[d] - y[d])
        PROVE  Orders(BytesCmp(x, y), x \o <<0>>, y \o <<0>>)
    <3>1. x[d] \in Nat /\ y[d] \in Nat
      BY <1>1, <1>2
    <3>2. CASE x[d] < y[d]
      <4>1. Lesser(x, y)
        BY <2>1, <3>2 DEF Lesser
      <4>2. BytesCmp(x, y) = -1
        BY <2>1, <3>1, <3>2, SignCases
      <4> QED BY <1>3, <4>1, <4>2, LesserConcat DEF Orders
    <3>3. CASE y[d] < x[d]
      <4>1. Lesser(y, x)
        BY <2>1, <3>3 DEF Lesser
      <4>2. BytesCmp(x, y) = 1
        BY <2>1, <3>1, <3>3, SignCases
      <4> QED BY <1>3, <4>1, <4>2, LesserConcat DEF Orders
    <3> QED BY <2>1, <3>1, <3>2, <3>3
  <2>2. ASSUME \A i \in DOMAIN x \cap DOMAIN y : x[i] = y[i], BytesCmp(x, y) = Sign(Len(x) - Len(y))
        PROVE  Orders(BytesCmp(x, y), x \o <<0>>, y \o <<0>>)
    <3>1. CASE Len(x) < Len(y)
      <4>1. BytesCmp(x, y) = -1
        BY <1>0, <2>2, <3>1, SignCases
      <4> QED BY <1>3, <1>4, <2>2, <3>1, <4>1 DEF Orders
    <3>2. CASE Len(x) = Len(y)
      <4>1. BytesCmp(x, y) = 0
        BY <1>0, <2>2, <3>2, SignCases
      <4>2. x = y
        BY <1>1, <1>3, <2>2, <3>2, SeqEqual
      <4> QED BY <4>1, <4>2 DEF Orders
    <3>3. CASE Len(y) < Len(x)
      <4>1. BytesCmp(x, y) = 1
        BY <1>0, <2>2, <3>3, SignCases
      <4>2. \A i \in DOMAIN y \cap DOMAIN x : y[i] = x[i]
        BY <2>2
      <4> QED BY <1>3, <1>4, <4>2, <3>3, <4>1 DEF Orders
    <3>4. Len(x) < Len(y) \/ Len(x) = Len(y) \/ Len(y) < Len(x)
      BY <1>0
    <3> QED BY <3>1, <3>2, <3>3, <3>4
  <2> QED BY <1>3, <2>1, <2>2, BytesCmpCases
<1>6. Orders(0, <<3>>, <<3>>)
  BY DEF Orders
<1>7. x \o <<0>> \in Seq(Nat) /\ y \o <<0>> \in Seq(Nat)
  BY <1>3, ConcatProperties
<1>8. Orders(Chained(0, BytesCmp(x, y)), <<3>> \o (x \o <<0>>), <<3>> \o (y \o <<0>>))
  BY <1>3, <1>5, <1>6, <1>7, OrdersChain
<1>9. <<3>> \o (x \o <<0>>) = <<3>> \o x \o <<0>> /\ <<3>> \o (y \o <<0>>) = <<3>> \o y \o <<0>>
  BY <1>3, ConcatAssociative
<1>10. <<3>> \o (x \o <<0>>) \in Seq(Nat) /\ <<3>> \o (y \o <<0>>) \in Seq(Nat)
  BY <1>3, <1>7, ConcatProperties
<1> QED BY <1>8, <1>9, <1>10 DEF Chained

-----------------------------------------------------------------------------
(* What the recursive functions compute. *)

\* What stands at i: a tilde, the end, a number or a word.
Kind(s, i) ==
  IF AtTilde(s, i) THEN 0
  ELSE IF Skip(s, i, Separators) > Len(s) THEN 1
  ELSE IF s[Skip(s, i, Separators)] \in Digits THEN 2 ELSE 3
\* Where the segment at i begins and ends.
Begin(s, i)  == Skip(s, i, Separators)
After(s, i)  == SegmentEnd(s, Begin(s, i))
SegmentAt(s, i) == SubSeq(s, Begin(s, i), After(s, i) - 1)
DigitsAt(s, i)  == SubSeq(s, Significant(s, Begin(s, i)), After(s, i) - 1)

\* What stands at a place, by its kind.
LEMMA Kinds ==
  ASSUME NEW s \in Seq(Bytes), NEW i \in 1..Len(s) + 1
  PROVE  /\ Len(s) \in Nat /\ Kind(s, i) \in 0..3
         /\ Kind(s, i) = 0 <=> AtTilde(s, i)
         /\ Kind(s, i) = 0 => i + 1 \in 1..Len(s) + 1
         /\ Kind(s, i) = 1 <=> ~AtTilde(s, i) /\ Begin(s, i) = Len(s) + 1
         /\ Kind(s, i) >= 1 /\ Begin(s, i) > Len(s) => Kind(s, i) = 1
         /\ Kind(s, i) >= 2 => /\ ~AtTilde(s, i) /\ Begin(s, i) \in 1..Len(s)
                               /\ After(s, i) \in i + 1..Len(s) + 1
         /\ Kind(s, i) = 2 => /\ s[Begin(s, i)] \in Digits /\ s[Begin(s, i)] \notin Letters
                              /\ SegmentAt(s, i) \in Seq(Digits)
                              /\ DigitsAt(s, i) \in Seq(Digits) /\ Len(DigitsAt(s, i)) >= 1
                              /\ Len(DigitsAt(s, i)) > 1 => DigitsAt(s, i)[1] # Zero
                              /\ Number(SegmentAt(s, i)) = Number(DigitsAt(s, i))
         /\ Kind(s, i) = 3 => /\ s[Begin(s, i)] \in Letters /\ s[Begin(s, i)] \notin Digits
                              /\ SegmentAt(s, i) \in Seq(Letters)
<1> DEFINE m == Begin(s, i)
           e == After(s, i)
<1>0. Len(s) \in Nat /\ i \in Nat /\ i >= 1
  BY LenProperties
<1>1. m \in i..Len(s) + 1 /\ (m = Len(s) + 1 \/ s[m] \notin Separators)
  BY Skips DEF Begin
<1>2. Kind(s, i) = IF AtTilde(s, i) THEN 0 ELSE IF m > Len(s) THEN 1 ELSE IF s[m] \in Digits THEN 2 ELSE 3
  BY DEF Kind, Begin
<1>3. /\ Kind(s, i) \in 0..3 /\ (Kind(s, i) = 0 <=> AtTilde(s, i))
      /\ Kind(s, i) >= 2 => ~AtTilde(s, i) /\ ~(m > Len(s))
      /\ Kind(s, i) = 2 => s[m] \in Digits
      /\ Kind(s, i) = 3 => s[m] \notin Digits
      /\ Kind(s, i) = 1 <=> ~AtTilde(s, i) /\ m > Len(s)
      /\ Kind(s, i) >= 1 /\ m > Len(s) => Kind(s, i) = 1
  <2> HIDE DEF m
  <2> QED BY <1>2
<1>4. m > Len(s) <=> m = Len(s) + 1
  BY <1>0, <1>1
<1>5. Kind(s, i) = 0 => i + 1 \in 1..Len(s) + 1
  BY <1>0, <1>3 DEF AtTilde
<1>6. ASSUME Kind(s, i) >= 2 PROVE m \in 1..Len(s) /\ s[m] \in Bytes /\ (s[m] \in Digits \/ s[m] \in Letters)
  <2>1. m \in 1..Len(s) /\ m # Len(s) + 1
    BY <1>0, <1>1, <1>3, <1>6
  <2>2. s[m] \in Bytes
    BY <2>1, ElementOfSeq
  <2> QED BY <1>1, <2>1, <2>2 DEF Separators
<1>7. ASSUME Kind(s, i) = 2
      PROVE  /\ s[m] \notin Letters /\ e \in m + 1..Len(s) + 1 /\ SegmentAt(s, i) \in Seq(Digits)
             /\ DigitsAt(s, i) \in Seq(Digits) /\ Len(DigitsAt(s, i)) >= 1
             /\ Len(DigitsAt(s, i)) > 1 => DigitsAt(s, i)[1] # Zero
             /\ Number(SegmentAt(s, i)) = Number(DigitsAt(s, i))
  <2>1. m \in 1..Len(s) /\ s[m] \in Digits
    BY <1>3, <1>6, <1>7
  <2>2. e = SegmentEnd(s, m) /\ SegmentAt(s, i) = SubSeq(s, m, e - 1)
        /\ DigitsAt(s, i) = SubSeq(s, Significant(s, m), e - 1)
    BY DEF After, SegmentAt, DigitsAt
  <2>3. s[m] \notin Letters
    BY <2>1, LettersAreNoDigits
  <2> DEFINE x == SubSeq(s, Significant(s, m), e - 1)
  <2>4. /\ e \in m + 1..Len(s) + 1 /\ SubSeq(s, m, e - 1) \in Seq(Digits)
        /\ x \in Seq(Digits) /\ Len(x) >= 1 /\ (Len(x) > 1 => x[1] # Zero)
        /\ Number(SubSeq(s, m, e - 1)) = Number(x)
    <3>1. x = SubSeq(s, Significant(s, m), e - 1)
      OBVIOUS
    <3> HIDE DEF m, e, x
    <3> QED BY <2>1, <2>2, <3>1, NumberSegment
  <2> HIDE DEF m, e
  <2> QED BY <2>2, <2>3, <2>4
<1>8. ASSUME Kind(s, i) = 3
      PROVE  /\ s[m] \in Letters /\ e \in m + 1..Len(s) + 1 /\ SegmentAt(s, i) \in Seq(Letters)
  <2>1. m \in 1..Len(s) /\ s[m] \in Letters
    BY <1>3, <1>6, <1>8
  <2>2. e = SegmentEnd(s, m) /\ SegmentAt(s, i) = SubSeq(s, m, e - 1)
    BY DEF After, SegmentAt
  <2> HIDE DEF m, e
  <2> QED BY <2>1, <2>2, WordSegment
<1>9. ASSUME Kind(s, i) >= 2 PROVE e \in i + 1..Len(s) + 1
  <2>1. e \in m + 1..Len(s) + 1
    BY <1>3, <1>7, <1>8, <1>9
  <2> HIDE DEF m, e
  <2> QED BY <1>0, <1>1, <2>1
<1> HIDE DEF m, e
<1>10. /\ Kind(s, i) = 1 <=> ~AtTilde(s, i) /\ m = Len(s) + 1
       /\ Kind(s, i) >= 1 /\ m > Len(s) => Kind(s, i) = 1
       /\ Kind(s, i) >= 2 => ~AtTilde(s, i) /\ m \in 1..Len(s) /\ e \in i + 1..Len(s) + 1
       /\ Kind(s, i) = 2 => /\ s[m] \in Digits /\ s[m] \notin Letters
                            /\ SegmentAt(s, i) \in Seq(Digits)
                            /\ DigitsAt(s, i) \in Seq(Digits) /\ Len(DigitsAt(s, i)) >= 1
                            /\ Len(DigitsAt(s, i)) > 1 => DigitsAt(s, i)[1] # Zero
                            /\ Number(SegmentAt(s, i)) = Number(DigitsAt(s, i))
       /\ Kind(s, i) = 3 => s[m] \in Letters /\ s[m] \notin Digits /\ SegmentAt(s, i) \in Seq(Letters)
  BY <1>3, <1>4, <1>6, <1>7, <1>8, <1>9
<1> QED BY <1>0, <1>3, <1>5, <1>10 DEF m, e

\* What the key takes from it,
LEMMA KeyAtKinds ==
  ASSUME NEW s \in Seq(Bytes), NEW i \in 1..Len(s) + 1, NEW key
  PROVE  /\ Kind(s, i) = 0 => KeyAt(s, i, key) = <<0>> \o key[i + 1]
         /\ Kind(s, i) = 1 => KeyAt(s, i, key) = <<1>>
         /\ Kind(s, i) = 2 => KeyAt(s, i, key) = <<2, Number(SegmentAt(s, i))>> \o key[After(s, i)]
         /\ Kind(s, i) = 3 => KeyAt(s, i, key) = (<<3>> \o SegmentAt(s, i) \o <<0>>) \o key[After(s, i)]
<1> DEFINE m == Begin(s, i)
           e == After(s, i)
           t == SegmentAt(s, i)
           end == m > Len(s)
<1>1. KeyAt(s, i, key) =
        CASE AtTilde(s, i)           -> <<0>> \o key[i + 1]
          [] ~AtTilde(s, i) /\ end   -> <<1>>
          [] OTHER -> (IF s[m] \in Digits THEN <<2, Number(t)>> ELSE <<3>> \o t \o <<0>>) \o key[e]
  BY DEF KeyAt, Begin, After, SegmentAt
<1>2. /\ Kind(s, i) = 0 <=> AtTilde(s, i)
      /\ Kind(s, i) = 1 => ~AtTilde(s, i) /\ end
      /\ Kind(s, i) = 2 => ~AtTilde(s, i) /\ ~end /\ s[m] \in Digits
      /\ Kind(s, i) = 3 => ~AtTilde(s, i) /\ ~end /\ s[m] \notin Digits
  BY Kinds
<1> HIDE DEF m, e, t, end
<1>3. Kind(s, i) = 0 => KeyAt(s, i, key) = <<0>> \o key[i + 1]
  BY <1>1, <1>2
<1>4. Kind(s, i) = 1 => KeyAt(s, i, key) = <<1>>
  BY <1>1, <1>2
<1>5. Kind(s, i) = 2 => KeyAt(s, i, key) = <<2, Number(t)>> \o key[e]
  BY <1>1, <1>2
<1>6. Kind(s, i) = 3 => KeyAt(s, i, key) = (<<3>> \o t \o <<0>>) \o key[e]
  BY <1>1, <1>2
<1> QED BY <1>3, <1>4, <1>5, <1>6 DEF t, e

Result(cmp, i, j) == cmp[<<i, j>>]

\* and what a turn makes of two of them.
LEMMA TurnKinds ==
  ASSUME NEW a \in Seq(Bytes), NEW b \in Seq(Bytes), NEW i \in 1..Len(a) + 1, NEW j \in 1..Len(b) + 1,
         NEW cmp
  PROVE  /\ Kind(a, i) # Kind(b, j) => Turn(a, b, i, j, cmp) = Sign(Kind(a, i) - Kind(b, j))
         /\ Kind(a, i) = 0 /\ Kind(b, j) = 0 => Turn(a, b, i, j, cmp) = Result(cmp, i + 1, j + 1)
         /\ Kind(a, i) = 1 /\ Kind(b, j) = 1 => Turn(a, b, i, j, cmp) = 0
         /\ Kind(a, i) = 2 /\ Kind(b, j) = 2 =>
              Turn(a, b, i, j, cmp) = Chained(NumCmp(DigitsAt(a, i), DigitsAt(b, j)), Result(cmp, After(a, i), After(b, j)))
         /\ Kind(a, i) = 3 /\ Kind(b, j) = 3 =>
              Turn(a, b, i, j, cmp) = Chained(BytesCmp(SegmentAt(a, i), SegmentAt(b, j)), Result(cmp, After(a, i), After(b, j)))
<1> DEFINE T == Turn(a, b, i, j, cmp)
           m == Begin(a, i)
           n == Begin(b, j)
           ended == i > Len(a) /\ j > Len(b)
           G == Segments(a, b, m, n, cmp)
           S == Sign((Len(a) - m) - (Len(b) - n))
           tildeA == AtTilde(a, i)
           tildeB == AtTilde(b, j)
<1>1. T = CASE ended                -> 0
            [] tildeA /\ tildeB     -> Result(cmp, i + 1, j + 1)
            [] tildeA /\ ~tildeB    -> -1
            [] ~tildeA /\ tildeB    -> 1
            [] OTHER -> IF m > Len(a) \/ n > Len(b) THEN S ELSE G
  BY DEF Turn, Begin, Result
<1> DEFINE Goal ==
         /\ Kind(a, i) # Kind(b, j) => T = Sign(Kind(a, i) - Kind(b, j))
         /\ Kind(a, i) = 0 /\ Kind(b, j) = 0 => T = Result(cmp, i + 1, j + 1)
         /\ Kind(a, i) = 1 /\ Kind(b, j) = 1 => T = 0
         /\ Kind(a, i) = 2 /\ Kind(b, j) = 2 =>
              T = Chained(NumCmp(DigitsAt(a, i), DigitsAt(b, j)), Result(cmp, After(a, i), After(b, j)))
         /\ Kind(a, i) = 3 /\ Kind(b, j) = 3 =>
              T = Chained(BytesCmp(SegmentAt(a, i), SegmentAt(b, j)), Result(cmp, After(a, i), After(b, j)))
<1> SUFFICES Goal
  OBVIOUS
<1> HIDE DEF T
<1>2. /\ Len(a) \in Nat /\ Kind(a, i) \in 0..3 /\ (Kind(a, i) = 0 <=> tildeA)
      /\ Kind(a, i) = 1 => m = Len(a) + 1
      /\ Kind(a, i) >= 2 => m \in 1..Len(a)
      /\ Kind(a, i) = 2 => a[m] \in Digits /\ a[m] \notin Letters
      /\ Kind(a, i) = 3 => a[m] \in Letters /\ a[m] \notin Digits
  BY Kinds
<1>3. /\ Len(b) \in Nat /\ Kind(b, j) \in 0..3 /\ (Kind(b, j) = 0 <=> tildeB)
      /\ Kind(b, j) = 1 => n = Len(b) + 1
      /\ Kind(b, j) >= 2 => n \in 1..Len(b)
      /\ Kind(b, j) = 2 => b[n] \in Digits /\ b[n] \notin Letters
      /\ Kind(b, j) = 3 => b[n] \in Letters /\ b[n] \notin Digits
  BY Kinds
<1>4. ended => Kind(a, i) = 1 /\ Kind(b, j) = 1
  <2> SUFFICES ASSUME ended PROVE Kind(a, i) = 1 /\ Kind(b, j) = 1
    OBVIOUS
  <2>1. m \in i..Len(a) + 1 /\ n \in j..Len(b) + 1
    BY Skips DEF Begin
  <2>2. ~tildeA /\ ~tildeB /\ m > Len(a) /\ n > Len(b)
    BY <1>2, <1>3, <2>1 DEF AtTilde
  <2>3. Kind(a, i) >= 1 /\ Kind(b, j) >= 1
    BY <1>2, <1>3, <2>2
  <2> QED BY <2>2, <2>3, Kinds
<1>5. ~tildeA /\ ~tildeB /\ ~ended => T = IF m > Len(a) \/ n > Len(b) THEN S ELSE G
  <2> HIDE DEF ended, tildeA, tildeB, G, S, m, n
  <2> QED BY <1>1
<1>6. CASE Kind(a, i) = 0 \/ Kind(b, j) = 0
  <2>1. Kind(a, i) = 0 /\ Kind(b, j) = 0 => T = Result(cmp, i + 1, j + 1)
    <3> HIDE DEF ended, tildeA, tildeB, G, S
    <3> QED BY <1>1, <1>2, <1>3, <1>4
  <2>2. Kind(a, i) = 0 /\ Kind(b, j) # 0 => T = -1
    <3> HIDE DEF ended, tildeA, tildeB, G, S
    <3> QED BY <1>1, <1>2, <1>3, <1>4
  <2>3. Kind(a, i) # 0 /\ Kind(b, j) = 0 => T = 1
    <3> HIDE DEF ended, tildeA, tildeB, G, S
    <3> QED BY <1>1, <1>2, <1>3, <1>4
  <2>4. /\ Kind(a, i) = 0 /\ Kind(b, j) # 0 => Sign(Kind(a, i) - Kind(b, j)) = -1
        /\ Kind(a, i) # 0 /\ Kind(b, j) = 0 => Sign(Kind(a, i) - Kind(b, j)) = 1
    BY <1>2, <1>3, SignCases
  <2> HIDE DEF ended, tildeA, tildeB, G, S
  <2> QED BY <1>6, <2>1, <2>2, <2>3, <2>4
<1>7. CASE Kind(a, i) # 0 /\ Kind(b, j) # 0 /\ (Kind(a, i) = 1 \/ Kind(b, j) = 1)
  <2>1. m \in 1..Len(a) + 1 /\ n \in 1..Len(b) + 1 /\ (m > Len(a) \/ n > Len(b))
    <3>1. m \in i..Len(a) + 1 /\ n \in j..Len(b) + 1
      BY Skips DEF Begin
    <3> QED BY <1>2, <1>3, <1>7, <3>1
  <2>2. /\ Kind(a, i) # Kind(b, j) => S = Sign(Kind(a, i) - Kind(b, j))
        /\ Kind(a, i) = Kind(b, j) => S = 0
    <3>1. CASE Kind(a, i) = 1 /\ Kind(b, j) = 1
      <4>1. (Len(a) - m) - (Len(b) - n) = 0
        BY <1>2, <1>3, <3>1
      <4> QED BY <3>1, <4>1, SignCases
    <3>2. CASE Kind(a, i) = 1 /\ Kind(b, j) # 1
      <4>1. (Len(a) - m) - (Len(b) - n) \in Int /\ (Len(a) - m) - (Len(b) - n) < 0
        BY <1>2, <1>3, <1>7, <3>2
      <4>2. Kind(a, i) - Kind(b, j) \in Int /\ Kind(a, i) - Kind(b, j) < 0
        BY <1>2, <1>3, <1>7, <3>2
      <4>3. S = -1 /\ Sign(Kind(a, i) - Kind(b, j)) = -1
        BY <4>1, <4>2, SignCases
      <4> QED BY <3>2, <4>3
    <3>3. CASE Kind(a, i) # 1 /\ Kind(b, j) = 1
      <4>1. (Len(a) - m) - (Len(b) - n) \in Int /\ (Len(a) - m) - (Len(b) - n) > 0
        BY <1>2, <1>3, <1>7, <3>3
      <4>2. Kind(a, i) - Kind(b, j) \in Int /\ Kind(a, i) - Kind(b, j) > 0
        BY <1>2, <1>3, <1>7, <3>3
      <4>3. S = 1 /\ Sign(Kind(a, i) - Kind(b, j)) = 1
        BY <4>1, <4>2, SignCases
      <4> QED BY <3>3, <4>3
    <3> QED BY <1>7, <3>1, <3>2, <3>3
  <2> HIDE DEF ended, tildeA, tildeB, G, S, m, n
  <2>3. ended => T = 0
    BY <1>1, <1>2, <1>3, <1>4
  <2>4. ~ended => T = S
    BY <1>2, <1>3, <1>5, <1>7, <2>1
  <2>5. /\ Kind(a, i) # Kind(b, j) => T = Sign(Kind(a, i) - Kind(b, j))
        /\ Kind(a, i) = Kind(b, j) => T = 0
    BY <1>4, <2>2, <2>3, <2>4
  <2>6. Kind(a, i) = Kind(b, j) => Kind(a, i) = 1 /\ Kind(b, j) = 1
    BY <1>7
  <2> QED BY <1>7, <2>5, <2>6
<1>8. CASE Kind(a, i) >= 2 /\ Kind(b, j) >= 2
  <2>1. ~(m > Len(a)) /\ ~(n > Len(b)) /\ ~tildeA /\ ~tildeB /\ ~ended
    BY <1>2, <1>3, <1>4, <1>8
  <2>2. T = G
    <3> HIDE DEF ended, tildeA, tildeB, G, S, m, n
    <3> QED BY <1>5, <2>1
  <2> DEFINE u == After(a, i)
             v == After(b, j)
             c == IF a[m] \in Digits THEN NumCmp(DigitsAt(a, i), DigitsAt(b, j))
                                     ELSE BytesCmp(SegmentAt(a, i), SegmentAt(b, j))
             rest == Chained(c, Result(cmp, u, v))
  <2>3. G = CASE a[m] \in Digits /\ b[n] \in Letters -> -1
              [] a[m] \in Letters /\ b[n] \in Digits -> 1
              [] OTHER -> rest
    BY DEF Segments, After, DigitsAt, SegmentAt, Chained, Result
  <2> HIDE DEF G, m, n, u, v, tildeA, tildeB, ended, S
  <2>4. Kind(a, i) = 2 /\ Kind(b, j) = 3 => T = -1 /\ Sign(Kind(a, i) - Kind(b, j)) = -1
    <3> HIDE DEF rest
    <3> QED BY <1>2, <1>3, <2>2, <2>3, SignCases
  <2>5. Kind(a, i) = 3 /\ Kind(b, j) = 2 => T = 1 /\ Sign(Kind(a, i) - Kind(b, j)) = 1
    <3> HIDE DEF rest
    <3> QED BY <1>2, <1>3, <2>2, <2>3, SignCases
  <2>6. Kind(a, i) = Kind(b, j) => T = rest
    <3> HIDE DEF rest
    <3> QED BY <1>2, <1>3, <1>8, <2>2, <2>3
  <2>7. /\ Kind(a, i) = 2 => c = NumCmp(DigitsAt(a, i), DigitsAt(b, j))
        /\ Kind(a, i) = 3 => c = BytesCmp(SegmentAt(a, i), SegmentAt(b, j))
    BY <1>2
  <2> HIDE DEF c
  <2>8. /\ Kind(a, i) = 2 /\ Kind(b, j) = 2 => T = Chained(NumCmp(DigitsAt(a, i), DigitsAt(b, j)), Result(cmp, u, v))
        /\ Kind(a, i) = 3 /\ Kind(b, j) = 3 => T = Chained(BytesCmp(SegmentAt(a, i), SegmentAt(b, j)), Result(cmp, u, v))
    BY <2>6, <2>7
  <2>9. Kind(a, i) # Kind(b, j) => T = Sign(Kind(a, i) - Kind(b, j))
    BY <1>2, <1>3, <1>8, <2>4, <2>5
  <2> QED BY <1>8, <2>8, <2>9 DEF u, v
<1> HIDE DEF ended, tildeA, tildeB, G, S
<1> QED BY <1>2, <1>3, <1>6, <1>7, <1>8

\* Keys is the function that its definition says.
LEMMA KeysDef ==
  ASSUME NEW s \in Seq(Bytes)
  PROVE  \A i \in 1..Len(s) + 1 : Keys(s)[i] = KeyAt(s, i, Keys(s)) /\ Keys(s)[i] \in Seq(Nat)
<1> DEFINE D == 1..Len(s) + 1
           V == Seq(Nat)
           F == [f \in [D -> V] |-> [i \in D |-> KeyAt(s, i, f)]]
           size == [i \in D |-> Len(s) + 1 - i]
<1>1. Len(s) \in Nat
  BY LenProperties
<1>2. ASSUME NEW i \in D, NEW key, \A k \in i + 1..Len(s) + 1 : key[k] \in V PROVE KeyAt(s, i, key) \in V
  <2>1. Kind(s, i) \in 0..3
    BY Kinds
  <2>2. CASE Kind(s, i) = 0
    <3>1. key[i + 1] \in V /\ <<0>> \in V
      BY <1>1, <1>2, <2>2, Kinds, Singleton
    <3>2. <<0>> \o key[i + 1] \in V
      BY <3>1, ConcatProperties
    <3> QED BY <2>2, <3>2, KeyAtKinds
  <2>3. CASE Kind(s, i) = 1
    BY <2>3, KeyAtKinds, Singleton
  <2>4. ASSUME Kind(s, i) >= 2 PROVE key[After(s, i)] \in V
    BY <1>2, <2>4, Kinds
  <2>5. CASE Kind(s, i) = 2
    <3>1. key[After(s, i)] \in V
      BY <2>4, <2>5
    <3>2. SegmentAt(s, i) \in Seq(Digits)
      BY <2>5, Kinds
    <3> DEFINE n == Number(SegmentAt(s, i))
    <3>3. n \in Nat
      BY <3>2, ValuesOf
    <3> HIDE DEF n
    <3>4. <<2, n>> \in V
      BY <3>3
    <3>5. <<2, n>> \o key[After(s, i)] \in V
      BY <3>1, <3>4, ConcatProperties
    <3> QED BY <2>5, <3>5, KeyAtKinds DEF n
  <2>6. CASE Kind(s, i) = 3
    <3>1. key[After(s, i)] \in V
      BY <2>4, <2>6
    <3>2. SegmentAt(s, i) \in Seq(Letters)
      BY <2>6, Kinds
    <3>3. <<3>> \o SegmentAt(s, i) \o <<0>> \in V
      BY <3>2, WordsOrdered
    <3>4. (<<3>> \o SegmentAt(s, i) \o <<0>>) \o key[After(s, i)] \in V
      BY <3>1, <3>3, ConcatProperties
    <3> QED BY <2>6, <3>4, KeyAtKinds
  <2> QED BY <2>1, <2>2, <2>3, <2>5, <2>6
<1>3. ASSUME NEW i \in D, NEW h, NEW k, \A l \in i + 1..Len(s) + 1 : h[l] = k[l]
      PROVE  KeyAt(s, i, h) = KeyAt(s, i, k)
  <2>1. Kind(s, i) \in 0..3
    BY Kinds
  <2>2. Kind(s, i) = 0 => h[i + 1] = k[i + 1]
    BY <1>1, <1>3, Kinds
  <2>3. Kind(s, i) >= 2 => h[After(s, i)] = k[After(s, i)]
    BY <1>3, Kinds
  <2>4. CASE Kind(s, i) = 0
    <3>1. KeyAt(s, i, h) = <<0>> \o h[i + 1]
      BY <2>4, KeyAtKinds
    <3>2. KeyAt(s, i, k) = <<0>> \o k[i + 1]
      BY <2>4, KeyAtKinds
    <3> QED BY <2>2, <2>4, <3>1, <3>2
  <2>5. CASE Kind(s, i) = 1
    BY <2>5, KeyAtKinds
  <2>6. CASE Kind(s, i) = 2
    <3>1. KeyAt(s, i, h) = <<2, Number(SegmentAt(s, i))>> \o h[After(s, i)]
      BY <2>6, KeyAtKinds
    <3>2. KeyAt(s, i, k) = <<2, Number(SegmentAt(s, i))>> \o k[After(s, i)]
      BY <2>6, KeyAtKinds
    <3> QED BY <2>3, <2>6, <3>1, <3>2
  <2>7. CASE Kind(s, i) = 3
    <3>1. KeyAt(s, i, h) = (<<3>> \o SegmentAt(s, i) \o <<0>>) \o h[After(s, i)]
      BY <2>7, KeyAtKinds
    <3>2. KeyAt(s, i, k) = (<<3>> \o SegmentAt(s, i) \o <<0>>) \o k[After(s, i)]
      BY <2>7, KeyAtKinds
    <3>3. h[After(s, i)] = k[After(s, i)]
      BY <2>3, <2>7
    <3> QED BY <3>1, <3>2, <3>3, Zenon
  <2> QED BY <2>1, <2>4, <2>5, <2>6, <2>7
<1>4. F \in [[D -> V] -> [D -> V]]
  <2> SUFFICES ASSUME NEW f \in [D -> V], NEW i \in D PROVE KeyAt(s, i, f) \in V
    OBVIOUS
  <2>1. \A k \in i + 1..Len(s) + 1 : f[k] \in V
    <3>1. i + 1..Len(s) + 1 \subseteq D
      BY <1>1
    <3> HIDE DEF D, V
    <3> QED BY <3>1
  <2> HIDE DEF D, V, F
  <2> QED BY <1>2, <2>1
<1>5. \A h, k \in [D -> V], x \in D :
        (\A y \in D : size[y] < size[x] => h[y] = k[y]) => F[h][x] = F[k][x]
  <2> SUFFICES ASSUME NEW h \in [D -> V], NEW k \in [D -> V], NEW x \in D,
                      \A y \in D : size[y] < size[x] => h[y] = k[y]
               PROVE  F[h][x] = F[k][x]
    OBVIOUS
  <2>1. F[h][x] = KeyAt(s, x, h) /\ F[k][x] = KeyAt(s, x, k)
    <3> HIDE DEF V
    <3> QED OBVIOUS
  <2>2. ASSUME NEW l \in x + 1..Len(s) + 1 PROVE h[l] = k[l]
    <3>1. l \in D /\ Len(s) + 1 - l < Len(s) + 1 - x
      BY <1>1
    <3>2. size[l] < size[x]
      BY <3>1
    <3> HIDE DEF size, D, V, F
    <3> QED BY <3>1, <3>2
  <2> HIDE DEF D, V, F
  <2> QED BY <1>3, <2>1, <2>2
<1>6. \E f \in [D -> V] : f = F[f]
  <2>1. V # {} /\ size \in [D -> Nat] /\ Len(s) + 1 \in Nat /\ \A x \in D : size[x] < Len(s) + 1
    <3>1. V # {}
      BY Singleton
    <3>2. \A x \in D : Len(s) + 1 - x \in Nat /\ Len(s) + 1 - x < Len(s) + 1
      BY <1>1
    <3> HIDE DEF V
    <3> QED BY <1>1, <3>1, <3>2
  <2> HIDE DEF D, V, F, size
  <2>2. Recursion(D, V, size, Len(s) + 1, F)
    BY <2>1, <1>4, <1>5 DEF Recursion
  <2> QED BY <2>2, RecursionDefines
<1>7. PICK f \in [D -> V] : f = [i \in D |-> KeyAt(s, i, f)]
  <2>1. PICK f \in [D -> V] : f = F[f]
    BY <1>6
  <2>2. F[f] = [i \in D |-> KeyAt(s, i, f)]
    <3> HIDE DEF D, V
    <3> QED BY <2>1
  <2> HIDE DEF F, D, V
  <2> QED BY <2>1, <2>2
<1> DEFINE key == Keys(s)
<1>8. key = [i \in D |-> KeyAt(s, i, key)]
  <2> HIDE DEF V, F, size
  <2> QED BY <1>7 DEF Keys
<1> HIDE DEF key, V
<1>9. \A i \in D : key[i] = KeyAt(s, i, key)
  <2> HIDE DEF D
  <2> QED BY <1>8
<1>10. \A i \in D : key[i] \in V
  <2> DEFINE T == {n \in Nat : \E i \in D : n = Len(s) + 1 - i /\ key[i] \notin V}
  <2>1. T = {}
    <3> SUFFICES ASSUME T # {} PROVE FALSE
      OBVIOUS
    <3>1. PICK n \in T : \A x \in T : n <= x
      <4>1. T \in SUBSET Nat
        OBVIOUS
      <4> HIDE DEF T
      <4> QED BY <4>1, Least
    <3>2. PICK i \in D : n = Len(s) + 1 - i /\ key[i] \notin V
      BY <3>1
    <3>3. ASSUME NEW k \in i + 1..Len(s) + 1 PROVE key[k] \in V
      <4>1. k \in D /\ Len(s) + 1 - k \in Nat /\ ~(n <= Len(s) + 1 - k)
        BY <1>1, <3>2
      <4>2. Len(s) + 1 - k \notin T
        BY <3>1, <4>1
      <4> QED BY <4>1, <4>2
    <3>4. KeyAt(s, i, key) \in V
      BY <1>2, <3>2, <3>3
    <3> QED BY <1>9, <3>2, <3>4
  <2>2. ASSUME NEW i \in D, key[i] \notin V PROVE FALSE
    <3>1. Len(s) + 1 - i \in Nat
      BY <1>1
    <3>2. Len(s) + 1 - i \in T
      BY <2>2, <3>1
    <3> QED BY <2>1, <3>2
  <2> QED BY <2>2
<1> QED BY <1>9, <1>10 DEF key, V

\* A turn gives one of three results, and looks at later turns only.
LEMMA TurnRange ==
  ASSUME NEW a \in Seq(Bytes), NEW b \in Seq(Bytes), NEW i \in 1..Len(a) + 1, NEW j \in 1..Len(b) + 1,
         NEW cmp, \A k \in i + 1..Len(a) + 1, l \in j + 1..Len(b) + 1 : Result(cmp, k, l) \in {-1, 0, 1}
  PROVE  Turn(a, b, i, j, cmp) \in {-1, 0, 1}
<1> DEFINE T == Turn(a, b, i, j, cmp)
           rest == Result(cmp, After(a, i), After(b, j))
<1>1. Kind(a, i) \in 0..3 /\ Kind(b, j) \in 0..3
  BY Kinds
<1>2. CASE Kind(a, i) # Kind(b, j)
  <2>1. T = Sign(Kind(a, i) - Kind(b, j))
    BY <1>2, TurnKinds
  <2>2. Kind(a, i) - Kind(b, j) \in Int
    BY <1>1
  <2> QED BY <2>1, <2>2, SignCases
<1>3. CASE Kind(a, i) = 0 /\ Kind(b, j) = 0
  <2>1. T = Result(cmp, i + 1, j + 1)
    BY <1>3, TurnKinds
  <2>2. i + 1 \in i + 1..Len(a) + 1 /\ j + 1 \in j + 1..Len(b) + 1
    <3>1. i + 1 \in 1..Len(a) + 1 /\ j + 1 \in 1..Len(b) + 1 /\ Len(a) \in Nat /\ Len(b) \in Nat
      BY <1>3, Kinds
    <3> QED BY <3>1
  <2> QED BY <2>1, <2>2
<1>4. CASE Kind(a, i) = 1 /\ Kind(b, j) = 1
  BY <1>4, TurnKinds
<1>5. Kind(a, i) >= 2 /\ Kind(b, j) >= 2 => rest \in {-1, 0, 1}
  BY Kinds
<1>6. CASE Kind(a, i) = 2 /\ Kind(b, j) = 2
  <2> DEFINE x == DigitsAt(a, i)
             y == DigitsAt(b, j)
             c == NumCmp(x, y)
  <2>1. T = Chained(c, rest)
    BY <1>6, TurnKinds
  <2>2. /\ x \in Seq(Digits) /\ Len(x) >= 1 /\ (Len(x) > 1 => x[1] # Zero)
        /\ y \in Seq(Digits) /\ Len(y) >= 1 /\ (Len(y) > 1 => y[1] # Zero)
    BY <1>6, Kinds
  <2>3. c \in {-1, 0, 1}
    <3> HIDE DEF x, y
    <3> QED BY <2>2, NumbersOrdered DEF Orders
  <2>4. rest \in {-1, 0, 1}
    BY <1>5, <1>6
  <2> HIDE DEF c, rest
  <2> QED BY <2>1, <2>3, <2>4 DEF Chained
<1>7. CASE Kind(a, i) = 3 /\ Kind(b, j) = 3
  <2> DEFINE x == SegmentAt(a, i)
             y == SegmentAt(b, j)
             c == BytesCmp(x, y)
  <2>1. T = Chained(c, rest)
    BY <1>7, TurnKinds
  <2>2. x \in Seq(Letters) /\ y \in Seq(Letters)
    BY <1>7, Kinds
  <2>3. c \in {-1, 0, 1}
    <3> HIDE DEF x, y
    <3> QED BY <2>2, WordsOrdered DEF Orders
  <2>4. rest \in {-1, 0, 1}
    BY <1>5, <1>7
  <2> HIDE DEF c, rest
  <2> QED BY <2>1, <2>3, <2>4 DEF Chained
<1> QED BY <1>1, <1>2, <1>3, <1>4, <1>6, <1>7

\* For a turn only the later ones count,
LEMMA TurnLocal ==
  ASSUME NEW a \in Seq(Bytes), NEW b \in Seq(Bytes), NEW i \in 1..Len(a) + 1, NEW j \in 1..Len(b) + 1,
         NEW g, NEW h, \A k \in i + 1..Len(a) + 1, l \in j + 1..Len(b) + 1 : Result(g, k, l) = Result(h, k, l)
  PROVE  Turn(a, b, i, j, g) = Turn(a, b, i, j, h)
<1> DEFINE G == Turn(a, b, i, j, g)
           H == Turn(a, b, i, j, h)
           e == After(a, i)
           f == After(b, j)
<1>1. Kind(a, i) \in 0..3 /\ Kind(b, j) \in 0..3 /\ Len(a) \in Nat /\ Len(b) \in Nat
  BY Kinds
<1>2. CASE Kind(a, i) # Kind(b, j)
  <2>1. G = Sign(Kind(a, i) - Kind(b, j)) /\ H = Sign(Kind(a, i) - Kind(b, j))
    BY <1>2, TurnKinds
  <2> QED BY <2>1
<1>3. CASE Kind(a, i) = 0 /\ Kind(b, j) = 0
  <2>1. G = Result(g, i + 1, j + 1) /\ H = Result(h, i + 1, j + 1)
    BY <1>3, TurnKinds
  <2>2. i + 1 \in i + 1..Len(a) + 1 /\ j + 1 \in j + 1..Len(b) + 1
    <3>1. i + 1 \in 1..Len(a) + 1 /\ j + 1 \in 1..Len(b) + 1
      BY <1>3, Kinds
    <3> QED BY <1>1, <3>1
  <2> QED BY <2>1, <2>2
<1>4. CASE Kind(a, i) = 1 /\ Kind(b, j) = 1
  <2>1. G = 0 /\ H = 0
    BY <1>4, TurnKinds
  <2> QED BY <2>1
<1>5. Kind(a, i) >= 2 /\ Kind(b, j) >= 2 => Result(g, e, f) = Result(h, e, f)
  BY Kinds
<1>6. CASE Kind(a, i) = 2 /\ Kind(b, j) = 2
  <2> DEFINE c == NumCmp(DigitsAt(a, i), DigitsAt(b, j))
  <2>1. G = Chained(c, Result(g, e, f)) /\ H = Chained(c, Result(h, e, f))
    BY <1>6, TurnKinds
  <2>2. Result(g, e, f) = Result(h, e, f)
    BY <1>5, <1>6
  <2> HIDE DEF c, e, f
  <2> QED BY <2>1, <2>2
<1>7. CASE Kind(a, i) = 3 /\ Kind(b, j) = 3
  <2> DEFINE c == BytesCmp(SegmentAt(a, i), SegmentAt(b, j))
  <2>1. G = Chained(c, Result(g, e, f)) /\ H = Chained(c, Result(h, e, f))
    BY <1>7, TurnKinds
  <2>2. Result(g, e, f) = Result(h, e, f)
    BY <1>5, <1>7
  <2> HIDE DEF c, e, f
  <2> QED BY <2>1, <2>2
<1> QED BY <1>1, <1>2, <1>3, <1>4, <1>6, <1>7

\* so that there is a function whose values are turns with itself for those after them.
LEMMA TurnsDef ==
  ASSUME NEW a \in Seq(Bytes), NEW b \in Seq(Bytes)
  PROVE  \A i \in 1..Len(a) + 1, j \in 1..Len(b) + 1 :
           Result(Turns(a, b), i, j) = Turn(a, b, i, j, Turns(a, b))
<1> DEFINE I == 1..Len(a) + 1
           J == 1..Len(b) + 1
           D == I \X J
           V == {-1, 0, 1}
           F == [f \in [D -> V] |-> [p \in D |-> Turn(a, b, p[1], p[2], f)]]
           size == [p \in D |-> (Len(a) + 1 - p[1]) + (Len(b) + 1 - p[2])]
           bound == Len(a) + Len(b) + 1
<1>1. Len(a) \in Nat /\ Len(b) \in Nat
  BY LenProperties
<1>2. \A p \in D : p[1] \in I /\ p[2] \in J /\ p = <<p[1], p[2]>>
  <2> HIDE DEF I, J
  <2> QED OBVIOUS
<1>3. \A i \in I, j \in J : <<i, j>> \in D /\ <<i, j>>[1] = i /\ <<i, j>>[2] = j
  <2> HIDE DEF I, J
  <2> QED OBVIOUS
<1>4. ASSUME NEW i \in I, NEW j \in J, NEW k \in i + 1..Len(a) + 1, NEW l \in j + 1..Len(b) + 1
      PROVE  k \in I /\ l \in J /\ (Len(a) + 1 - k) + (Len(b) + 1 - l) < (Len(a) + 1 - i) + (Len(b) + 1 - j)
  BY <1>1
<1>5. ASSUME NEW f \in [D -> V], NEW p \in D PROVE Turn(a, b, p[1], p[2], f) \in V
  <2>1. ASSUME NEW k \in p[1] + 1..Len(a) + 1, NEW l \in p[2] + 1..Len(b) + 1 PROVE Result(f, k, l) \in V
    <3>1. <<k, l>> \in D
      BY <1>2, <1>3, <1>4
    <3> HIDE DEF D, V
    <3> QED BY <3>1 DEF Result
  <2> HIDE DEF D
  <2> QED BY <1>2, <2>1, TurnRange
<1>6. ASSUME NEW h \in [D -> V], NEW k \in [D -> V], NEW p \in D,
             \A q \in D : size[q] < size[p] => h[q] = k[q]
      PROVE  Turn(a, b, p[1], p[2], h) = Turn(a, b, p[1], p[2], k)
  <2>1. ASSUME NEW x \in p[1] + 1..Len(a) + 1, NEW y \in p[2] + 1..Len(b) + 1 PROVE Result(h, x, y) = Result(k, x, y)
    <3>1. <<x, y>> \in D /\ p[1] \in I /\ p[2] \in J
          /\ (Len(a) + 1 - x) + (Len(b) + 1 - y) < (Len(a) + 1 - p[1]) + (Len(b) + 1 - p[2])
      BY <1>2, <1>3, <1>4
    <3>2. size[<<x, y>>] = (Len(a) + 1 - x) + (Len(b) + 1 - y)
          /\ size[p] = (Len(a) + 1 - p[1]) + (Len(b) + 1 - p[2])
      <4>1. <<x, y>>[1] = x /\ <<x, y>>[2] = y
        OBVIOUS
      <4> HIDE DEF D
      <4> QED BY <3>1, <4>1
    <3>3. size[<<x, y>>] < size[p]
      BY <3>1, <3>2
    <3> HIDE DEF size, D
    <3> QED BY <1>6, <3>1, <3>3 DEF Result
  <2> HIDE DEF D
  <2> QED BY <1>2, <2>1, TurnLocal
<1>7. F \in [[D -> V] -> [D -> V]]
  <2> HIDE DEF D, V
  <2> QED BY <1>5
<1>8. \A h, k \in [D -> V], x \in D :
        (\A y \in D : size[y] < size[x] => h[y] = k[y]) => F[h][x] = F[k][x]
  <2> SUFFICES ASSUME NEW h \in [D -> V], NEW k \in [D -> V], NEW x \in D,
                      \A y \in D : size[y] < size[x] => h[y] = k[y]
               PROVE  F[h][x] = F[k][x]
    OBVIOUS
  <2>1. F[h][x] = Turn(a, b, x[1], x[2], h) /\ F[k][x] = Turn(a, b, x[1], x[2], k)
    <3> HIDE DEF V, D
    <3> QED OBVIOUS
  <2> HIDE DEF D, V, F, size
  <2> QED BY <1>6, <2>1
<1>9. \E f \in [D -> V] : f = F[f]
  <2>1. V # {} /\ bound \in Nat
    BY <1>1
  <2>2. ASSUME NEW p \in D
        PROVE  /\ (Len(a) + 1 - p[1]) + (Len(b) + 1 - p[2]) \in Nat
               /\ (Len(a) + 1 - p[1]) + (Len(b) + 1 - p[2]) < bound
    <3>1. p[1] \in I /\ p[2] \in J
      BY <1>2
    <3> DEFINE x == p[1]
               y == p[2]
    <3>2. x \in 1..Len(a) + 1 /\ y \in 1..Len(b) + 1
      BY <3>1
    <3> HIDE DEF x, y
    <3>3. (Len(a) + 1 - x) + (Len(b) + 1 - y) \in Nat /\ (Len(a) + 1 - x) + (Len(b) + 1 - y) < bound
      BY <1>1, <3>2
    <3> QED BY <3>3 DEF x, y
  <2>3. size \in [D -> Nat] /\ \A p \in D : size[p] < bound
    <3> HIDE DEF D, bound
    <3> QED BY <2>2
  <2> HIDE DEF D, V, F, size, bound
  <2>4. Recursion(D, V, size, bound, F)
    BY <2>1, <2>3, <1>7, <1>8 DEF Recursion
  <2> QED BY <2>4, RecursionDefines
<1>10. PICK f \in [D -> V] : f = [p \in D |-> Turn(a, b, p[1], p[2], f)]
  <2>1. PICK f \in [D -> V] : f = F[f]
    BY <1>9
  <2>2. F[f] = [p \in D |-> Turn(a, b, p[1], p[2], f)]
    <3> HIDE DEF D, V
    <3> QED BY <2>1
  <2> HIDE DEF F, D, V
  <2> QED BY <2>1, <2>2
<1> DEFINE cmp == Turns(a, b)
<1>11. cmp = [p \in D |-> Turn(a, b, p[1], p[2], cmp)]
  <2> HIDE DEF V, F, size
  <2> QED BY <1>10 DEF Turns
<1> HIDE DEF cmp
<1>12. ASSUME NEW i \in I, NEW j \in J PROVE Result(cmp, i, j) = Turn(a, b, i, j, cmp)
  <2>1. <<i, j>> \in D /\ <<i, j>>[1] = i /\ <<i, j>>[2] = j
    BY <1>3
  <2> HIDE DEF D, I, J
  <2> QED BY <1>11, <2>1 DEF Result
<1> QED BY <1>12 DEF cmp

\* The first element of a key is the kind of what stands there.
LEMMA FirstOfKey ==
  ASSUME NEW s \in Seq(Bytes), NEW i \in 1..Len(s) + 1, NEW key,
         \A k \in i + 1..Len(s) + 1 : key[k] \in Seq(Nat)
  PROVE  Len(KeyAt(s, i, key)) >= 1 /\ KeyAt(s, i, key)[1] = Kind(s, i)
<1>1. ASSUME NEW u \in Seq(Nat), NEW v \in Seq(Nat), Len(u) >= 1
      PROVE  Len(u \o v) >= 1 /\ (u \o v)[1] = u[1]
  <2>1. Len(u) \in Nat /\ Len(v) \in Nat
    BY LenProperties
  <2>2. 1 \in 1..Len(u) + Len(v) /\ 1 <= Len(u)
    BY <1>1, <2>1
  <2> QED BY <1>1, <2>1, <2>2, ConcatProperties
<1>2. Kind(s, i) \in 0..3 /\ Len(s) \in Nat
  BY Kinds
<1>3. Kind(s, i) = 0 => key[i + 1] \in Seq(Nat)
  BY <1>2, Kinds
<1>4. Kind(s, i) >= 2 => key[After(s, i)] \in Seq(Nat)
  BY Kinds
<1>5. CASE Kind(s, i) = 0
  <2>1. <<0>> \in Seq(Nat) /\ Len(<<0>>) >= 1 /\ <<0>>[1] = 0
    BY Singleton
  <2>2. Len(<<0>> \o key[i + 1]) >= 1 /\ (<<0>> \o key[i + 1])[1] = 0
    BY <1>1, <1>3, <1>5, <2>1
  <2> QED BY <1>5, <2>2, KeyAtKinds
<1>6. CASE Kind(s, i) = 1
  <2>1. Len(<<1>>) >= 1 /\ <<1>>[1] = 1
    BY Singleton
  <2> QED BY <1>6, <2>1, KeyAtKinds
<1>7. CASE Kind(s, i) = 2
  <2> DEFINE n == Number(SegmentAt(s, i))
             u == <<2, n>>
  <2>1. n \in Nat
    BY <1>7, Kinds, ValuesOf
  <2>2. u \in Seq(Nat) /\ Len(u) >= 1 /\ u[1] = 2
    <3> HIDE DEF n
    <3> QED BY <2>1
  <2>3. KeyAt(s, i, key) = u \o key[After(s, i)]
    BY <1>7, KeyAtKinds
  <2> HIDE DEF u
  <2> QED BY <1>1, <1>4, <1>7, <2>2, <2>3
<1>8. CASE Kind(s, i) = 3
  <2> DEFINE t == SegmentAt(s, i)
             u == <<3>> \o t \o <<0>>
  <2>1. t \in Seq(Letters)
    BY <1>8, Kinds
  <2>2. t \in Seq(Nat)
    <3>1. Letters \subseteq Nat
      BY LettersAreNoDigits
    <3> HIDE DEF t
    <3> QED BY <2>1, <3>1, SeqMonotonic
  <2>3. KeyAt(s, i, key) = u \o key[After(s, i)]
    BY <1>8, KeyAtKinds
  <2> HIDE DEF t
  <2>4. /\ <<3>> \in Seq(Nat) /\ Len(<<3>>) >= 1 /\ <<3>>[1] = 3 /\ <<0>> \in Seq(Nat)
        /\ <<3>> \o t \in Seq(Nat)
    BY <2>2, Singleton, ConcatProperties
  <2>5. Len(<<3>> \o t) >= 1 /\ (<<3>> \o t)[1] = 3
    BY <1>1, <2>2, <2>4
  <2>6. u \in Seq(Nat) /\ Len(u) >= 1 /\ u[1] = 3
    BY <1>1, <2>4, <2>5, ConcatProperties
  <2> HIDE DEF u
  <2> QED BY <1>1, <1>4, <1>8, <2>3, <2>6
<1> QED BY <1>2, <1>5, <1>6, <1>7, <1>8

\* rpmvercmp goes through two strings together and the keys are read off each alone: from every two
\* positions the result is that of the keys.
LEMMA TurnsOrder ==
  ASSUME NEW a \in Seq(Bytes), NEW b \in Seq(Bytes)
  PROVE  \A i \in 1..Len(a) + 1, j \in 1..Len(b) + 1 : Orders(Result(Turns(a, b), i, j), Keys(a)[i], Keys(b)[j])
<1> DEFINE cmp == Turns(a, b)
           x == Keys(a)
           y == Keys(b)
           Right(i, j) == Orders(Result(cmp, i, j), x[i], y[j])
           T == {n \in Nat : \E i \in 1..Len(a) + 1, j \in 1..Len(b) + 1 :
                   n = (Len(a) + 1 - i) + (Len(b) + 1 - j) /\ ~Right(i, j)}
<1>0. Len(a) \in Nat /\ Len(b) \in Nat
  BY LenProperties
<1>1. ASSUME NEW i \in 1..Len(a) + 1, NEW j \in 1..Len(b) + 1,
             \A k \in i + 1..Len(a) + 1, l \in j + 1..Len(b) + 1 : Right(k, l)
      PROVE  Right(i, j)
  <2> DEFINE e == After(a, i)
             f == After(b, j)
  <2>1. /\ Kind(a, i) \in 0..3 /\ x[i] = KeyAt(a, i, x) /\ x[i] \in Seq(Nat)
        /\ Kind(a, i) = 0 => i + 1 \in i + 1..Len(a) + 1
        /\ Kind(a, i) >= 2 => e \in i + 1..Len(a) + 1
    <3>1. Kind(a, i) = 0 => i + 1 \in 1..Len(a) + 1
      BY Kinds
    <3> QED BY <1>0, <3>1, Kinds, KeysDef
  <2>2. /\ Kind(b, j) \in 0..3 /\ y[j] = KeyAt(b, j, y) /\ y[j] \in Seq(Nat)
        /\ Kind(b, j) = 0 => j + 1 \in j + 1..Len(b) + 1
        /\ Kind(b, j) >= 2 => f \in j + 1..Len(b) + 1
    <3>1. Kind(b, j) = 0 => j + 1 \in 1..Len(b) + 1
      BY Kinds
    <3> QED BY <1>0, <3>1, Kinds, KeysDef
  <2>3. Result(cmp, i, j) = Turn(a, b, i, j, cmp)
    BY TurnsDef
  <2>4. \A k \in i + 1..Len(a) + 1 : x[k] \in Seq(Nat)
    BY <1>0, KeysDef
  <2>5. \A l \in j + 1..Len(b) + 1 : y[l] \in Seq(Nat)
    BY <1>0, KeysDef
  <2> HIDE DEF cmp, x, y
  <2>6. CASE Kind(a, i) # Kind(b, j)
    <3>1. Len(x[i]) >= 1 /\ x[i][1] = Kind(a, i)
      BY <2>1, <2>4, FirstOfKey
    <3>2. Len(y[j]) >= 1 /\ y[j][1] = Kind(b, j)
      BY <2>2, <2>5, FirstOfKey
    <3>3. Result(cmp, i, j) = Sign(Kind(a, i) - Kind(b, j))
      BY <2>3, <2>6, TurnKinds
    <3>4. CASE Kind(a, i) < Kind(b, j)
      <4>1. Sign(Kind(a, i) - Kind(b, j)) = -1
        BY <2>1, <2>2, <3>4, SignCases
      <4>2. Lesser(x[i], y[j])
        BY <2>1, <2>2, <3>1, <3>2, <3>4, FirstDecides
      <4> QED BY <3>3, <4>1, <4>2 DEF Orders
    <3>5. CASE Kind(b, j) < Kind(a, i)
      <4>1. Sign(Kind(a, i) - Kind(b, j)) = 1
        BY <2>1, <2>2, <3>5, SignCases
      <4>2. Lesser(y[j], x[i])
        BY <2>1, <2>2, <3>1, <3>2, <3>5, FirstDecides
      <4> QED BY <3>3, <4>1, <4>2 DEF Orders
    <3> QED BY <2>1, <2>2, <2>6, <3>4, <3>5
  <2>7. CASE Kind(a, i) = 0 /\ Kind(b, j) = 0
    <3>1. Orders(Result(cmp, i + 1, j + 1), x[i + 1], y[j + 1]) /\ x[i + 1] \in Seq(Nat) /\ y[j + 1] \in Seq(Nat)
      BY <1>1, <2>1, <2>2, <2>4, <2>5, <2>7
    <3>2. x[i] = <<0>> \o x[i + 1] /\ y[j] = <<0>> \o y[j + 1]
      BY <2>1, <2>2, <2>7, KeyAtKinds
    <3>3. Result(cmp, i, j) = Result(cmp, i + 1, j + 1)
      BY <2>3, <2>7, TurnKinds
    <3>4. <<0>> \in Seq(Nat) /\ Orders(0, <<0>>, <<0>>)
      BY Singleton DEF Orders
    <3>5. Orders(Chained(0, Result(cmp, i + 1, j + 1)), <<0>> \o x[i + 1], <<0>> \o y[j + 1])
      BY <3>1, <3>4, OrdersChain
    <3> QED BY <3>2, <3>3, <3>5 DEF Chained
  <2>8. CASE Kind(a, i) = 1 /\ Kind(b, j) = 1
    <3>1. x[i] = <<1>> /\ y[j] = <<1>>
      BY <2>1, <2>2, <2>8, KeyAtKinds
    <3>2. Result(cmp, i, j) = 0
      BY <2>3, <2>8, TurnKinds
    <3> QED BY <3>1, <3>2 DEF Orders
  <2>9. Kind(a, i) >= 2 /\ Kind(b, j) >= 2 =>
          Orders(Result(cmp, e, f), x[e], y[f]) /\ x[e] \in Seq(Nat) /\ y[f] \in Seq(Nat)
    BY <1>1, <2>1, <2>2, <2>4, <2>5
  <2>10. CASE Kind(a, i) = 2 /\ Kind(b, j) = 2
    <3> DEFINE u == DigitsAt(a, i)
               v == DigitsAt(b, j)
               c == NumCmp(u, v)
    <3>1. /\ u \in Seq(Digits) /\ Len(u) >= 1 /\ (Len(u) > 1 => u[1] # Zero)
          /\ v \in Seq(Digits) /\ Len(v) >= 1 /\ (Len(v) > 1 => v[1] # Zero)
          /\ Number(SegmentAt(a, i)) = Number(u) /\ Number(SegmentAt(b, j)) = Number(v)
      BY <2>10, Kinds
    <3>2. Result(cmp, i, j) = Chained(c, Result(cmp, e, f))
      BY <2>3, <2>10, TurnKinds
    <3>3. /\ x[i] = <<2, Number(SegmentAt(a, i))>> \o x[e]
          /\ y[j] = <<2, Number(SegmentAt(b, j))>> \o y[f]
      BY <2>1, <2>2, <2>10, KeyAtKinds
    <3> HIDE DEF u, v
    <3>4. Orders(c, <<2, Number(u)>>, <<2, Number(v)>>)
      BY <3>1, NumbersOrdered
    <3> DEFINE p == <<2, Number(u)>>
               q == <<2, Number(v)>>
    <3>5. p \in Seq(Nat) /\ q \in Seq(Nat)
      <4>1. Number(u) \in Nat /\ Number(v) \in Nat
        BY <3>1, ValuesOf
      <4> QED BY <4>1
    <3>6. x[i] = p \o x[e] /\ y[j] = q \o y[f]
      BY <3>1, <3>3, Zenon
    <3>7. Orders(Result(cmp, e, f), x[e], y[f]) /\ x[e] \in Seq(Nat) /\ y[f] \in Seq(Nat)
      BY <2>9, <2>10
    <3>8. Orders(c, p, q)
      BY <3>4
    <3> HIDE DEF p, q, c, e, f
    <3>9. Orders(Chained(c, Result(cmp, e, f)), p \o x[e], q \o y[f])
      BY <3>5, <3>7, <3>8, OrdersChain
    <3> QED BY <3>2, <3>6, <3>9
  <2>11. CASE Kind(a, i) = 3 /\ Kind(b, j) = 3
    <3> DEFINE u == SegmentAt(a, i)
               v == SegmentAt(b, j)
               c == BytesCmp(u, v)
               p == <<3>> \o u \o <<0>>
               q == <<3>> \o v \o <<0>>
    <3>1. u \in Seq(Letters) /\ v \in Seq(Letters)
      BY <2>11, Kinds
    <3>2. Result(cmp, i, j) = Chained(c, Result(cmp, e, f))
      BY <2>3, <2>11, TurnKinds
    <3>3. x[i] = p \o x[e] /\ y[j] = q \o y[f]
      BY <2>1, <2>2, <2>11, KeyAtKinds
    <3> HIDE DEF u, v
    <3>4. Orders(c, p, q) /\ p \in Seq(Nat) /\ q \in Seq(Nat)
      BY <3>1, WordsOrdered
    <3>5. Orders(Result(cmp, e, f), x[e], y[f]) /\ x[e] \in Seq(Nat) /\ y[f] \in Seq(Nat)
      BY <2>9, <2>11
    <3> HIDE DEF p, q, c, e, f
    <3>6. Orders(Chained(c, Result(cmp, e, f)), p \o x[e], q \o y[f])
      BY <3>4, <3>5, OrdersChain
    <3> QED BY <3>2, <3>3, <3>6
  <2> QED BY <2>1, <2>2, <2>6, <2>7, <2>8, <2>10, <2>11
<1> HIDE DEF Right
<1>2. T = {}
  <2> SUFFICES ASSUME T # {} PROVE FALSE
    OBVIOUS
  <2>1. PICK n \in T : \A k \in T : n <= k
    <3>1. T \in SUBSET Nat
      OBVIOUS
    <3> HIDE DEF T
    <3> QED BY <3>1, Least
  <2>2. PICK i \in 1..Len(a) + 1, j \in 1..Len(b) + 1 :
          n = (Len(a) + 1 - i) + (Len(b) + 1 - j) /\ ~Right(i, j)
    BY <2>1
  <2>3. ASSUME NEW k \in i + 1..Len(a) + 1, NEW l \in j + 1..Len(b) + 1 PROVE Right(k, l)
    <3> DEFINE o == (Len(a) + 1 - k) + (Len(b) + 1 - l)
    <3>1. k \in 1..Len(a) + 1 /\ l \in 1..Len(b) + 1 /\ o \in Nat /\ ~(n <= o)
      BY <1>0, <2>2
    <3>2. o \notin T
      <4> HIDE DEF o, T
      <4> QED BY <2>1, <3>1
    <3> QED BY <3>1, <3>2
  <2> QED BY <1>1, <2>2, <2>3
<1>3. ASSUME NEW i \in 1..Len(a) + 1, NEW j \in 1..Len(b) + 1 PROVE Right(i, j)
  <2> DEFINE n == (Len(a) + 1 - i) + (Len(b) + 1 - j)
  <2>1. n \in Nat
    BY <1>0
  <2>2. ~Right(i, j) => n \in T
    BY <2>1
  <2> QED BY <1>2, <2>2
<1> QED BY <1>3 DEF Right, cmp, x, y

\* From the first two positions it is that of the whole strings.
LEMMA RpmvercmpOrders ==
  ASSUME NEW a \in Seq(Bytes), NEW b \in Seq(Bytes)
  PROVE  Orders(rpmvercmp(a, b), SegmentsKey(a), SegmentsKey(b))
<1>1. 1 \in 1..Len(a) + 1 /\ 1 \in 1..Len(b) + 1
  BY LenProperties
<1>2. Orders(Result(Turns(a, b), 1, 1), Keys(a)[1], Keys(b)[1])
  BY <1>1, TurnsOrder
<1>3. CASE a = b
  BY <1>3 DEF rpmvercmp, Orders
<1>4. CASE a # b
  <2>1. rpmvercmp(a, b) = Result(Turns(a, b), 1, 1)
    BY <1>4 DEF rpmvercmp, Result
  <2> QED BY <1>2, <2>1 DEF SegmentsKey
<1> QED BY <1>3, <1>4

-----------------------------------------------------------------------------
(* Version::parse and the order of versions. *)

LEMMA SegmentsKeyNumbers == ASSUME NEW s \in Seq(Bytes) PROVE SegmentsKey(s) \in Seq(Nat)
<1>1. 1 \in 1..Len(s) + 1
  BY LenProperties
<1> QED BY <1>1, KeysDef DEF SegmentsKey

\* An epoch is a number, whatever is in front of the colon.
LEMMA EpochNumber == ASSUME NEW s \in Seq(Bytes) PROVE Epoch(s) \in Nat
<1> DEFINE digits == IF s # <<>> /\ s[1] = Plus THEN SubSeq(s, 2, Len(s)) ELSE s
           fits == digits # <<>> /\ (\A i \in DOMAIN digits : digits[i] \in Digits) /\ Number(digits) \div 65536 < 65536
<1>1. Epoch(s) = IF fits THEN Number(digits) ELSE 0
  BY DEF Epoch
<1>2. digits \in Seq(Bytes)
  <2>1. CASE s # <<>> /\ s[1] = Plus
    <3>1. Len(s) \in Nat /\ Len(s) >= 1 /\ \A k \in 1..Len(s) : s[k] \in Bytes
      BY <2>1, LenProperties, EmptySeq, ElementOfSeq
    <3>2. SubSeq(s, 2, (Len(s) + 1) - 1) \in Seq(Bytes)
      <4> DEFINE e == Len(s) + 1
      <4>1. e \in Nat /\ 2 <= e /\ e - 1 = Len(s) /\ \A k \in 2..e - 1 : s[k] \in Bytes
        BY <3>1
      <4> HIDE DEF e
      <4>2. SubSeq(s, 2, e - 1) \in Seq(Bytes)
        BY <4>1, Slice
      <4> QED BY <4>2 DEF e
    <3>3. (Len(s) + 1) - 1 = Len(s)
      BY <3>1
    <3>4. SubSeq(s, 2, Len(s)) \in Seq(Bytes)
      BY <3>2, <3>3
    <3> QED BY <2>1, <3>4
  <2>2. CASE ~(s # <<>> /\ s[1] = Plus)
    BY <2>2
  <2> QED BY <2>1, <2>2
<1> HIDE DEF digits
<1>3. CASE fits
  <2>1. digits \in Seq(Digits)
    <3>1. Len(digits) \in Nat /\ digits \in [1..Len(digits) -> Bytes] /\ DOMAIN digits = 1..Len(digits)
      BY <1>2, LenProperties
    <3>2. digits \in [1..Len(digits) -> Digits]
      BY <1>3, <3>1
    <3> QED BY <3>1, <3>2, SeqDef
  <2>2. Number(digits) \in Nat
    BY <2>1, ValuesOf
  <2> QED BY <1>1, <1>3, <2>2
<1>4. CASE ~fits
  BY <1>1, <1>4
<1> QED BY <1>3, <1>4

\* A place of a string after which something does not come again, if there is one.
LEMMA LastPlace ==
  ASSUME NEW n \in Nat, NEW T \in SUBSET (1..n), T # {}
  PROVE  \E i \in T : \A j \in i + 1..n : j \notin T
<1> DEFINE M == {n - i : i \in T}
<1>1. M \in SUBSET Nat
  OBVIOUS
<1>2. PICK t \in T : TRUE
  OBVIOUS
<1>3. n - t \in M
  OBVIOUS
<1> HIDE DEF M
<1>4. PICK m \in M : \A k \in M : m <= k
  BY <1>1, <1>3, Least
<1>5. PICK i \in T : m = n - i
  BY DEF M
<1>6. ASSUME NEW j \in i + 1..n, j \in T PROVE FALSE
  <2>1. n - j \in M
    BY <1>6 DEF M
  <2>2. n - i <= n - j
    BY <1>4, <1>5, <2>1
  <2>3. i \in 1..n /\ j > i
    OBVIOUS
  <2> QED BY <2>2, <2>3
<1> QED BY <1>6

\* Version::parse makes a number and two strings of every string.
LEMMA Parsed ==
  ASSUME NEW s \in Seq(Bytes)
  PROVE  Parse(s).epoch \in Nat /\ Parse(s).version \in Seq(Bytes) /\ Parse(s).release \in Seq(Bytes)
<1> DEFINE colon == Skip(s, 1, Bytes \ {Colon})
           front == SubSeq(s, 1, colon - 1)
           rest == IF colon > Len(s) THEN s ELSE SubSeq(s, colon + 1, Len(s))
           Split(i) == /\ i = Len(rest) + 1 => \A j \in 1..Len(rest) : rest[j] # Hyphen
                       /\ i <= Len(rest) => rest[i] = Hyphen /\ \A j \in i + 1..Len(rest) : rest[j] # Hyphen
           hyphen == CHOOSE i \in 1..Len(rest) + 1 : Split(i)
<1>1. /\ Parse(s).epoch = IF colon > Len(s) THEN 0 ELSE Epoch(front)
      /\ Parse(s).version = SubSeq(rest, 1, hyphen - 1)
      /\ Parse(s).release = SubSeq(rest, hyphen + 1, Len(rest))
  BY DEF Parse
<1>2. Len(s) \in Nat /\ colon \in 1..Len(s) + 1 /\ \A k \in 1..Len(s) : s[k] \in Bytes
  <2>1. 1 \in 1..Len(s) + 1
    BY LenProperties
  <2> QED BY <2>1, Skips, ElementOfSeq
<1> HIDE DEF colon
<1>3. front \in Seq(Bytes)
  BY <1>2, Slice
<1>4. ASSUME NEW t \in Seq(Bytes), NEW m \in 1..Len(t) + 1 PROVE SubSeq(t, m + 1, Len(t)) \in Seq(Bytes)
  <2>1. Len(t) \in Nat /\ \A k \in 1..Len(t) : t[k] \in Bytes
    BY LenProperties, ElementOfSeq
  <2> DEFINE n == Len(t)
             l == m + 1
  <2>2. n \in Int /\ l \in Int /\ \A k \in l..n : t[k] \in Bytes
    BY <2>1
  <2> HIDE DEF n, l
  <2>3. SubSeq(t, l, n) \in Seq(Bytes)
    BY <2>2, SubSeqProperties
  <2> QED BY <2>3 DEF n, l
<1>5. rest \in Seq(Bytes)
  <2>1. CASE colon > Len(s)
    BY <2>1
  <2>2. CASE ~(colon > Len(s))
    <3>1. SubSeq(s, colon + 1, Len(s)) \in Seq(Bytes)
      BY <1>2, <1>4
    <3> QED BY <2>2, <3>1
  <2> QED BY <2>1, <2>2
<1> HIDE DEF rest
<1>6. hyphen \in 1..Len(rest) + 1
  <2> DEFINE T == {i \in 1..Len(rest) : rest[i] = Hyphen}
             n == Len(rest)
  <2>1. n \in Nat
    BY <1>5, LenProperties
  <2>2. \E i \in 1..n + 1 : Split(i)
    <3>1. CASE T = {}
      <4>1. Split(n + 1) /\ n + 1 \in 1..n + 1
        BY <2>1, <3>1
      <4> QED BY <4>1
    <3>2. CASE T # {}
      <4>1. T \in SUBSET (1..n)
        OBVIOUS
      <4>2. PICK i \in T : \A j \in i + 1..n : j \notin T
        <5> HIDE DEF T, n
        <5> QED BY <2>1, <3>2, <4>1, LastPlace
      <4>3. i \in 1..n /\ rest[i] = Hyphen /\ \A j \in i + 1..n : rest[j] # Hyphen
        BY <2>1, <4>2
      <4>4. Split(i) /\ i \in 1..n + 1
        BY <2>1, <4>3
      <4> QED BY <4>4
    <3> QED BY <3>1, <3>2
  <2> HIDE DEF Split
  <2> QED BY <2>2
<1> HIDE DEF hyphen
<1>7. SubSeq(rest, 1, hyphen - 1) \in Seq(Bytes)
  <2>1. Len(rest) \in Nat /\ \A k \in 1..Len(rest) : rest[k] \in Bytes
    BY <1>5, LenProperties, ElementOfSeq
  <2>2. hyphen \in Nat /\ 1 <= hyphen /\ \A k \in 1..hyphen - 1 : rest[k] \in Bytes
    BY <1>6, <2>1
  <2> QED BY <2>2, Slice
<1>8. SubSeq(rest, hyphen + 1, Len(rest)) \in Seq(Bytes)
  BY <1>4, <1>5, <1>6
<1>9. Parse(s).epoch \in Nat
  <2>1. Epoch(front) \in Nat
    BY <1>3, EpochNumber
  <2> HIDE DEF front
  <2> QED BY <1>1, <2>1
<1> QED BY <1>1, <1>7, <1>8, <1>9

\* KeyOf puts three keys one after another.
LEMMA KeyOfVersion ==
  ASSUME NEW s \in Seq(Bytes)
  PROVE  /\ KeyOf(s) = (<<Parse(s).epoch>> \o SegmentsKey(Parse(s).version)) \o SegmentsKey(Parse(s).release)
         /\ <<Parse(s).epoch>> \in Seq(Nat)
         /\ SegmentsKey(Parse(s).version) \in Seq(Nat) /\ SegmentsKey(Parse(s).release) \in Seq(Nat)
         /\ KeyOf(s) \in Seq(Nat)
<1>1. Parse(s).epoch \in Nat /\ Parse(s).version \in Seq(Bytes) /\ Parse(s).release \in Seq(Bytes)
  BY Parsed
<1> DEFINE k == SegmentsKey(Parse(s).version)
           l == SegmentsKey(Parse(s).release)
           e == Parse(s).epoch
<1>2. k \in Seq(Nat) /\ l \in Seq(Nat)
  BY <1>1, SegmentsKeyNumbers
<1>3. KeyOf(s) = (<<e>> \o k) \o l
  BY DEF KeyOf
<1> HIDE DEF k, l
<1>4. e \in Nat
  BY <1>1
<1> HIDE DEF e
<1>5. <<e>> \in Seq(Nat)
  BY <1>4, Singleton
<1>6. (<<e>> \o k) \o l \in Seq(Nat)
  BY <1>2, <1>5, ConcatProperties
<1> QED BY <1>2, <1>3, <1>5, <1>6 DEF e, k, l

\* impl Ord for Version with rpmvercmp and Version::parse: versions are ordered as their keys are,
\* whatever their strings are, so that the order is total, and equal are those of equal keys.
THEOREM VersionsOrdered ==
  \A s, t \in Seq(Bytes) : Orders(Cmp(Parse(s), Parse(t)), KeyOf(s), KeyOf(t))
<1> SUFFICES ASSUME NEW s \in Seq(Bytes), NEW t \in Seq(Bytes)
             PROVE  Orders(Cmp(Parse(s), Parse(t)), KeyOf(s), KeyOf(t))
  OBVIOUS
<1> DEFINE v == Parse(s)
           w == Parse(t)
           a == Sign(v.epoch - w.epoch)
           b == rpmvercmp(v.version, w.version)
           c == rpmvercmp(v.release, w.release)
<1>1. Cmp(v, w) = Chained(Chained(a, b), c)
  BY DEF Cmp, Chained
<1>2. Orders(a, <<v.epoch>>, <<w.epoch>>)
  BY Parsed, NatOrders
<1>3. Orders(b, SegmentsKey(v.version), SegmentsKey(w.version))
  BY Parsed, RpmvercmpOrders
<1>4. Orders(c, SegmentsKey(v.release), SegmentsKey(w.release))
  BY Parsed, RpmvercmpOrders
<1> DEFINE p == <<v.epoch>>
           q == SegmentsKey(v.version)
           r == SegmentsKey(v.release)
           x == <<w.epoch>>
           y == SegmentsKey(w.version)
           z == SegmentsKey(w.release)
<1>5. /\ KeyOf(s) = (p \o q) \o r /\ p \in Seq(Nat) /\ q \in Seq(Nat) /\ r \in Seq(Nat)
      /\ KeyOf(t) = (x \o y) \o z /\ x \in Seq(Nat) /\ y \in Seq(Nat) /\ z \in Seq(Nat)
  BY KeyOfVersion
<1>6. Orders(a, p, x) /\ Orders(b, q, y) /\ Orders(c, r, z)
  BY <1>2, <1>3, <1>4
<1> HIDE DEF a, b, c, p, q, r, x, y, z
<1>7. Orders(Chained(a, b), p \o q, x \o y) /\ p \o q \in Seq(Nat) /\ x \o y \in Seq(Nat)
  BY <1>5, <1>6, OrdersChain, ConcatProperties
<1>8. Orders(Chained(Chained(a, b), c), (p \o q) \o r, (x \o y) \o z)
  BY <1>5, <1>6, <1>7, OrdersChain
<1> QED BY <1>1, <1>5, <1>8

\* The three results, by the order of keys.
LEMMA CmpIsBefore ==
  ASSUME NEW s \in Seq(Bytes), NEW t \in Seq(Bytes)
  PROVE  /\ Cmp(Parse(s), Parse(t)) \in {-1, 0, 1}
         /\ Cmp(Parse(s), Parse(t)) = -1 <=> Before(s, t)
         /\ Cmp(Parse(s), Parse(t)) = 0 <=> KeyOf(s) = KeyOf(t)
         /\ Cmp(Parse(s), Parse(t)) = 1 <=> Before(t, s)
<1>1. Orders(Cmp(Parse(s), Parse(t)), KeyOf(s), KeyOf(t))
  BY VersionsOrdered
<1>2. KeyOf(s) \in Seq(Nat) /\ KeyOf(t) \in Seq(Nat)
  BY KeyOfVersion
<1>3. (Before(s, t) <=> Lesser(KeyOf(s), KeyOf(t))) /\ (Before(t, s) <=> Lesser(KeyOf(t), KeyOf(s)))
  BY DEF Before
<1>4. /\ Lesser(KeyOf(s), KeyOf(t)) => ~Lesser(KeyOf(t), KeyOf(s)) /\ KeyOf(s) # KeyOf(t)
      /\ Lesser(KeyOf(t), KeyOf(s)) => ~Lesser(KeyOf(s), KeyOf(t)) /\ KeyOf(s) # KeyOf(t)
  BY <1>2, LesserAsymmetric
<1> QED BY <1>1, <1>3, <1>4 DEF Orders

\* It goes over a third version, and equal keys are in one place of it.
LEMMA BeforeTransitive ==
  ASSUME NEW s \in Seq(Bytes), NEW t \in Seq(Bytes), NEW u \in Seq(Bytes)
  PROVE  /\ Before(s, t) /\ Before(t, u) => Before(s, u)
         /\ KeyOf(s) = KeyOf(t) => (Before(s, u) <=> Before(t, u)) /\ (Before(u, s) <=> Before(u, t))
<1>1. KeyOf(s) \in Seq(Nat) /\ KeyOf(t) \in Seq(Nat) /\ KeyOf(u) \in Seq(Nat)
  BY KeyOfVersion
<1>2. Lesser(KeyOf(s), KeyOf(t)) /\ Lesser(KeyOf(t), KeyOf(u)) => Lesser(KeyOf(s), KeyOf(u))
  BY <1>1, LesserTransitive
<1> QED BY <1>2 DEF Before

\* impl Ord for Version keeps the law that sort, max_by_key and min_by_key rely on: whatever the
\* strings are, the order is total, turned around when its sides are, and goes over a third version.
THEOREM VersionsTotal ==
  \A s, t, u \in Seq(Bytes) :
    /\ Cmp(Parse(s), Parse(t)) \in {-1, 0, 1}
    /\ Cmp(Parse(t), Parse(s)) = -Cmp(Parse(s), Parse(t))
    /\ Cmp(Parse(s), Parse(t)) <= 0 /\ Cmp(Parse(t), Parse(u)) <= 0 => Cmp(Parse(s), Parse(u)) <= 0
<1> SUFFICES ASSUME NEW s \in Seq(Bytes), NEW t \in Seq(Bytes), NEW u \in Seq(Bytes)
             PROVE  /\ Cmp(Parse(s), Parse(t)) \in {-1, 0, 1}
                    /\ Cmp(Parse(t), Parse(s)) = -Cmp(Parse(s), Parse(t))
                    /\ Cmp(Parse(s), Parse(t)) <= 0 /\ Cmp(Parse(t), Parse(u)) <= 0 => Cmp(Parse(s), Parse(u)) <= 0
  OBVIOUS
<1> DEFINE c(x, y) == Cmp(Parse(x), Parse(y))
<1>1. \A x, y \in {s, t, u} :
        /\ c(x, y) \in {-1, 0, 1} /\ (c(x, y) = -1 <=> Before(x, y))
        /\ (c(x, y) = 0 <=> KeyOf(x) = KeyOf(y)) /\ (c(x, y) = 1 <=> Before(y, x))
  BY CmpIsBefore
<1>2. /\ Before(s, t) /\ Before(t, u) => Before(s, u)
      /\ KeyOf(s) = KeyOf(t) => (Before(s, u) <=> Before(t, u))
      /\ KeyOf(t) = KeyOf(u) => (Before(s, t) <=> Before(s, u))
  BY BeforeTransitive
<1> HIDE DEF c
<1>3. c(s, t) \in {-1, 0, 1} /\ c(t, s) = -c(s, t)
  BY <1>1
<1>4. ASSUME c(s, t) <= 0, c(t, u) <= 0 PROVE c(s, u) <= 0
  <2>1. c(s, t) \in {-1, 0} /\ c(t, u) \in {-1, 0}
    BY <1>1, <1>4
  <2>2. Before(s, u) \/ KeyOf(s) = KeyOf(u)
    BY <1>1, <1>2, <2>1
  <2>3. c(s, u) \in {-1, 0}
    BY <1>1, <2>2
  <2> QED BY <2>3
<1> QED BY <1>3, <1>4 DEF c

-----------------------------------------------------------------------------
(* The provider that is chosen *)

\* Of finitely many places there is one after all others, however they are ordered.
LEMMA Greatest ==
  ASSUME NEW n \in Nat, NEW I \in SUBSET (1..n), I # {}, NEW R,
         \A i, j \in I : <<i, j>> \in R \/ <<j, i>> \in R,
         \A i, j, k \in I : <<i, j>> \in R /\ <<j, k>> \in R => <<i, k>> \in R
  PROVE  \E i \in I : \A j \in I : <<i, j>> \in R
<1> DEFINE Upto(k) == {i \in I : i <= k}
           Found(k) == \E i \in Upto(k) : \A j \in Upto(k) : <<i, j>> \in R
           T == {k \in 0..n : Upto(k) # {} /\ ~Found(k)}
<1>1. Upto(n) = I /\ n \in 0..n /\ Upto(0) = {}
  <2>1. \A i \in I : i \in 1..n /\ i <= n /\ ~(i <= 0)
    OBVIOUS
  <2>2. n \in 0..n
    OBVIOUS
  <2> QED BY <2>1, <2>2
<1>0. T \in SUBSET Nat
  <2> HIDE DEF Upto, Found
  <2> QED OBVIOUS
<1>2. CASE T # {}
  <2> HIDE DEF T
  <2>1. PICK k \in T : \A l \in T : k <= l
    BY <1>0, <1>2, Least
  <2>2. k \in 0..n /\ Upto(k) # {} /\ ~Found(k)
    BY DEF T
  <2> HIDE DEF Found, Upto
  <2>3. k # 0
    BY <1>1, <2>2
  <2>4. k - 1 \in 0..n /\ k - 1 < k
    BY <2>2, <2>3
  <2>5. Upto(k - 1) # {} => Found(k - 1)
    <3>1. k - 1 \notin T
      BY <2>1, <2>2, <2>4
    <3> QED BY <2>4, <3>1 DEF T
  <2>6. Upto(k) = Upto(k - 1) \cup (I \cap {k}) /\ Upto(k) \subseteq I /\ Upto(k - 1) \subseteq I
    <3>1. \A i \in I : i \in Nat /\ (i <= k <=> i <= k - 1 \/ i = k)
      BY <2>2
    <3> QED BY <3>1 DEF Upto
  <2>7. k \in I
    BY <2>2, <2>5, <2>6 DEF Found
  <2>8. Upto(k - 1) # {}
    BY <2>2, <2>6, <2>7 DEF Found
  <2>9. PICK i \in Upto(k - 1) : \A j \in Upto(k - 1) : <<i, j>> \in R
    BY <2>5, <2>8 DEF Found
  <2>10. CASE <<i, k>> \in R
    BY <2>2, <2>6, <2>7, <2>9, <2>10 DEF Found
  <2>11. CASE <<k, i>> \in R
    BY <2>2, <2>6, <2>7, <2>9, <2>11 DEF Found
  <2> QED BY <2>6, <2>7, <2>9, <2>10, <2>11
<1>3. CASE T = {}
  <2>1. Found(n)
    <3> HIDE DEF Found, Upto
    <3> QED BY <1>1, <1>3
  <2> QED BY <1>1, <2>1
<1> QED BY <1>2, <1>3

\* There is a latest of the places of a set, so that max_by_key finds one.
LEMMA LastOfMember ==
  ASSUME NEW ps, ps \in Seq(ToSet(ps)), \A p \in ToSet(ps) : IsProvider(p),
         NEW I \in SUBSET DOMAIN ps, I # {}
  PROVE  LastOf(ps, I) \in I /\ \A j \in I : ~Before(ps[LastOf(ps, I)].version, ps[j].version)
<1> DEFINE v(i) == ps[i].version
           c(j, i) == Cmp(VersionOf(ps[j]), VersionOf(ps[i]))
           Later(i, j) == c(j, i) <= IF j <= i THEN 0 ELSE -1
           R == {p \in I \X I : Later(p[1], p[2])}
<1>1. DOMAIN ps = 1..Len(ps) /\ Len(ps) \in Nat /\ \A i \in I : i \in Nat /\ v(i) \in Seq(Bytes)
  BY LenProperties DEF IsProvider, ToSet
<1>2. ASSUME NEW i \in I, NEW j \in I
      PROVE  /\ c(j, i) \in {-1, 0, 1} /\ (c(j, i) = -1 <=> Before(v(j), v(i)))
             /\ (c(j, i) = 0 <=> KeyOf(v(j)) = KeyOf(v(i))) /\ (c(j, i) = 1 <=> Before(v(i), v(j)))
  BY <1>1, CmpIsBefore DEF VersionOf
<1> HIDE DEF c
<1>3. ASSUME NEW i \in I, NEW j \in I
      PROVE  Later(i, j) <=> Before(v(j), v(i)) \/ (KeyOf(v(j)) = KeyOf(v(i)) /\ j <= i)
  BY <1>1, <1>2
<1>4. ASSUME NEW i \in I, NEW j \in I
      PROVE  /\ Before(v(j), v(i)) \/ KeyOf(v(j)) = KeyOf(v(i)) \/ Before(v(i), v(j))
             /\ Later(i, j) => ~Before(v(i), v(j))
  BY <1>2
<1>5. ASSUME NEW i \in I, NEW j \in I, NEW k \in I, Later(i, j), Later(j, k) PROVE Later(i, k)
  <2>1. /\ Before(v(j), v(i)) \/ (KeyOf(v(j)) = KeyOf(v(i)) /\ j <= i)
        /\ Before(v(k), v(j)) \/ (KeyOf(v(k)) = KeyOf(v(j)) /\ k <= j)
    BY <1>3, <1>5
  <2>2. v(i) \in Seq(Bytes) /\ v(j) \in Seq(Bytes) /\ v(k) \in Seq(Bytes) /\ i \in Nat /\ j \in Nat /\ k \in Nat
    BY <1>1
  <2>3. /\ Before(v(k), v(j)) /\ Before(v(j), v(i)) => Before(v(k), v(i))
        /\ KeyOf(v(k)) = KeyOf(v(j)) => (Before(v(k), v(i)) <=> Before(v(j), v(i)))
        /\ KeyOf(v(j)) = KeyOf(v(i)) => (Before(v(k), v(j)) <=> Before(v(k), v(i)))
    BY <2>2, BeforeTransitive
  <2> HIDE DEF v, Later
  <2>4. CASE Before(v(k), v(i))
    BY <1>3, <2>4
  <2>5. CASE KeyOf(v(k)) = KeyOf(v(j)) /\ KeyOf(v(j)) = KeyOf(v(i)) /\ k <= j /\ j <= i
    <3>1. k <= i
      BY <2>2, <2>5
    <3> QED BY <1>3, <2>5, <3>1
  <2> QED BY <2>1, <2>3, <2>4, <2>5
<1>6. ASSUME NEW i \in I, NEW j \in I PROVE Later(i, j) \/ Later(j, i)
  <2>1. (Later(i, j) <=> Before(v(j), v(i)) \/ (KeyOf(v(j)) = KeyOf(v(i)) /\ j <= i))
        /\ (Later(j, i) <=> Before(v(i), v(j)) \/ (KeyOf(v(i)) = KeyOf(v(j)) /\ i <= j))
    BY <1>3
  <2>2. i <= j \/ j <= i
    BY <1>1
  <2> HIDE DEF v, Later
  <2> QED BY <1>4, <2>1, <2>2
<1>7. \A i, j \in I : <<i, j>> \in R <=> Later(i, j)
  <2> HIDE DEF Later
  <2> QED OBVIOUS
<1> HIDE DEF R
<1>8. PICK i \in I : \A j \in I : <<i, j>> \in R
  <2> DEFINE n == Len(ps)
  <2>1. n \in Nat /\ I \in SUBSET (1..n)
    BY <1>1
  <2>2. /\ \A i, j \in I : <<i, j>> \in R \/ <<j, i>> \in R
        /\ \A i, j, k \in I : <<i, j>> \in R /\ <<j, k>> \in R => <<i, k>> \in R
    <3> HIDE DEF Later
    <3> QED BY <1>5, <1>6, <1>7
  <2> HIDE DEF n
  <2> QED BY <2>1, <2>2, Greatest
<1>9. \A j \in I : Later(i, j)
  BY <1>7, <1>8
<1>10. LastOf(ps, I) = CHOOSE x \in I : \A j \in I : Later(x, j)
  BY DEF LastOf, c
<1>11. LastOf(ps, I) \in I /\ \A j \in I : Later(LastOf(ps, I), j)
  <2> HIDE DEF Later
  <2> QED BY <1>9, <1>10
<1>12. ASSUME NEW j \in I PROVE ~Before(ps[LastOf(ps, I)].version, ps[j].version)
  BY <1>4, <1>11
<1> QED BY <1>11, <1>12

\* What the order of versions is asked for below.
LEMMA BeforeOrders ==
  ASSUME NEW s \in Seq(Bytes), NEW t \in Seq(Bytes), NEW u \in Seq(Bytes)
  PROVE  /\ Before(s, t) => ~Before(t, s)
         /\ Before(s, t) => Before(s, u) \/ Before(u, t)
  BY CmpIsBefore, BeforeTransitive

\* The newest strategy: no provider is later, and no preferred one is equal to one that is not.
LEMMA NewestChosen ==
  ASSUME IsIndex(index), NEW n \in Names, Providers(n) # <<>>
  PROVE  /\ Newest(n) \in DOMAIN Providers(n)
         /\ \A i \in DOMAIN Providers(n) :
              /\ ~Before(Providers(n)[Newest(n)].version, Providers(n)[i].version)
              /\ i \in Ours(n) /\ Newest(n) \notin Ours(n) =>
                   Before(Providers(n)[i].version, Providers(n)[Newest(n)].version)
<1> DEFINE ps == Providers(n)
           a == LastOf(ps, Ours(n))
           b == LastOf(ps, Others(n))
           v(i) == ps[i].version
<1>1. ps \in Seq(ToSet(ps)) /\ \A p \in ToSet(ps) : IsProvider(p)
  BY DEF IsIndex, Providers
<1>2. DOMAIN ps # {} /\ \A i \in DOMAIN ps : v(i) \in Seq(Bytes)
  <2>1. 1 \in DOMAIN ps
    BY <1>1, EmptySeq, LenProperties
  <2> QED BY <1>1, <2>1 DEF IsProvider, ToSet
<1>3. /\ Ours(n) \in SUBSET DOMAIN ps /\ Others(n) \in SUBSET DOMAIN ps
      /\ \A i \in DOMAIN ps : i \in Others(n) <=> i \notin Ours(n)
  BY DEF Ours, Others
<1>4. Newest(n) = IF Ours(n) = {} THEN b
                  ELSE IF Others(n) = {} \/ Cmp(VersionOf(ps[a]), VersionOf(ps[b])) >= 0 THEN a ELSE b
  BY DEF Newest
<1> HIDE DEF ps
<1>5. Ours(n) # {} => a \in Ours(n) /\ \A j \in Ours(n) : ~Before(v(a), v(j))
  BY <1>1, <1>3, LastOfMember
<1>6. Others(n) # {} => b \in Others(n) /\ \A j \in Others(n) : ~Before(v(b), v(j))
  BY <1>1, <1>3, LastOfMember
<1> HIDE DEF a, b
<1>7. Ours(n) # {} /\ Others(n) # {} => (Cmp(VersionOf(ps[a]), VersionOf(ps[b])) >= 0 <=> ~Before(v(a), v(b)))
  <2> SUFFICES ASSUME Ours(n) # {}, Others(n) # {}
               PROVE  Cmp(VersionOf(ps[a]), VersionOf(ps[b])) >= 0 <=> ~Before(v(a), v(b))
    OBVIOUS
  <2>1. v(a) \in Seq(Bytes) /\ v(b) \in Seq(Bytes)
    BY <1>2, <1>3, <1>5, <1>6
  <2>2. Cmp(Parse(v(a)), Parse(v(b))) \in {-1, 0, 1} /\ (Cmp(Parse(v(a)), Parse(v(b))) = -1 <=> Before(v(a), v(b)))
    BY <2>1, CmpIsBefore
  <2>3. VersionOf(ps[a]) = Parse(v(a)) /\ VersionOf(ps[b]) = Parse(v(b))
    BY DEF VersionOf
  <2> QED BY <2>2, <2>3
<1>8. \A i, j, k \in DOMAIN ps : /\ Before(v(i), v(j)) => ~Before(v(j), v(i))
                                 /\ Before(v(i), v(j)) => Before(v(i), v(k)) \/ Before(v(k), v(j))
  BY <1>2, BeforeOrders
<1> HIDE DEF v
<1> DEFINE Right(x) == /\ x \in DOMAIN ps
                       /\ \A i \in DOMAIN ps : /\ ~Before(v(x), v(i))
                                               /\ i \in Ours(n) /\ x \notin Ours(n) => Before(v(i), v(x))
<1>9. CASE Ours(n) = {}
  <2>1. Right(b)
    BY <1>2, <1>3, <1>6, <1>9
  <2> QED BY <1>4, <1>9, <2>1 DEF ps, v
<1>10. CASE Others(n) = {}
  <2>1. Right(a) /\ Ours(n) # {}
    BY <1>2, <1>3, <1>5, <1>10
  <2> QED BY <1>4, <1>10, <2>1 DEF ps, v
<1>11. CASE Ours(n) # {} /\ Others(n) # {} /\ ~Before(v(a), v(b))
  <2>1. a \in Ours(n) /\ a \in DOMAIN ps /\ b \in Others(n) /\ b \in DOMAIN ps
    BY <1>3, <1>5, <1>6, <1>11
  <2>2. ASSUME NEW i \in DOMAIN ps PROVE ~Before(v(a), v(i))
    <3>1. CASE i \in Ours(n)
      BY <1>5, <1>11, <3>1
    <3>2. CASE i \in Others(n)
      BY <1>6, <1>8, <1>11, <2>1, <3>2
    <3> QED BY <1>3, <3>1, <3>2
  <2>3. Right(a)
    BY <2>1, <2>2
  <2> HIDE DEF Right
  <2>4. Newest(n) = a
    BY <1>4, <1>7, <1>11
  <2> QED BY <2>3, <2>4 DEF Right, ps, v
<1>12. CASE Ours(n) # {} /\ Others(n) # {} /\ Before(v(a), v(b))
  <2>1. a \in Ours(n) /\ a \in DOMAIN ps /\ b \in Others(n) /\ b \in DOMAIN ps /\ b \notin Ours(n)
    BY <1>3, <1>5, <1>6, <1>12
  <2>2. ASSUME NEW i \in Ours(n) PROVE Before(v(i), v(b))
    <3>1. ~Before(v(a), v(i)) /\ i \in DOMAIN ps
      BY <1>3, <1>5, <1>12
    <3> QED BY <1>8, <1>12, <2>1, <3>1
  <2>3. ASSUME NEW i \in DOMAIN ps PROVE ~Before(v(b), v(i))
    <3>1. CASE i \in Ours(n)
      BY <1>8, <2>1, <2>2, <3>1
    <3>2. CASE i \in Others(n)
      BY <1>6, <1>12, <3>2
    <3> QED BY <1>3, <3>1, <3>2
  <2>4. Right(b)
    BY <2>1, <2>2, <2>3
  <2> HIDE DEF Right
  <2>5. Newest(n) = b
    BY <1>4, <1>7, <1>12
  <2> QED BY <2>4, <2>5 DEF Right, ps, v
<1> QED BY <1>9, <1>10, <1>11, <1>12

\* The stable strategy: the preferred source if it has any, and of it a first repository.
LEMMA StableChosen ==
  ASSUME IsIndex(index), NEW n \in Names, Providers(n) # <<>>
  PROVE  /\ Stable(n) \in DOMAIN Providers(n)
         /\ Ours(n) # {} => Stable(n) \in Ours(n)
         /\ \A i \in DOMAIN Providers(n) :
              /\ Providers(n)[i].priority \in Nat
              /\ (i \in Ours(n) <=> Stable(n) \in Ours(n)) =>
                   Providers(n)[Stable(n)].priority <= Providers(n)[i].priority
<1> DEFINE ps == Providers(n)
           I == IF Ours(n) # {} THEN Ours(n) ELSE Others(n)
<1>1. ps \in Seq(ToSet(ps)) /\ \A p \in ToSet(ps) : IsProvider(p)
  BY DEF IsIndex, Providers
<1>2. 1 \in DOMAIN ps /\ \A i \in DOMAIN ps : ps[i].priority \in Nat
  BY <1>1, EmptySeq, LenProperties DEF IsProvider, ToSet
<1>3. I \in SUBSET DOMAIN ps /\ I # {} /\ \A i \in DOMAIN ps : i \in Others(n) <=> i \notin Ours(n)
  BY <1>2 DEF Ours, Others
<1>4. Stable(n) = FirstOf(ps, I)
  BY DEF Stable
<1> HIDE DEF ps
<1>5. Stable(n) \in I /\ \A j \in I : ps[Stable(n)].priority <= ps[j].priority
  <2> HIDE DEF I
  <2> QED BY <1>1, <1>3, <1>4, FirstOfMember
<1> QED BY <1>2, <1>3, <1>5 DEF ps

\* best_version, best_version_from_sources: whatever the providers of a name, their versions and
\* priorities, the one that is taken is not before another one by the strategy.
THEOREM BestChosen == Spec => []ChosenIsBest
<1>1. ASSUME IsIndex(index) PROVE ChosenIsBest
  <2> SUFFICES ASSUME NEW n \in Names, Providers(n) # <<>>
               PROVE  \E best \in {Best(n)} :
                        LET rival(p) == IF strategy = "newest"
                                        THEN \/ Before(best.version, p.version)
                                             \/ /\ ~Before(p.version, best.version)
                                                /\ p.source \in preferred /\ best.source \notin preferred
                                        ELSE IF (p.source \in preferred) = (best.source \in preferred)
                                             THEN p.priority < best.priority ELSE p.source \in preferred
                        IN  \A i \in DOMAIN Providers(n) : ~rival(Providers(n)[i])
    BY DEF ChosenIsBest
  <2> DEFINE ps == Providers(n)
  <2>1. \A i \in DOMAIN ps : i \in Ours(n) <=> ps[i].source \in preferred
    BY DEF Ours
  <2>2. CASE strategy = "newest"
    <3>1. Best(n) = ps[Newest(n)]
      BY <2>2 DEF Best
    <3>2. ASSUME NEW i \in DOMAIN ps
          PROVE  /\ ~Before(Best(n).version, ps[i].version)
                 /\ ps[i].source \in preferred /\ Best(n).source \notin preferred =>
                      Before(ps[i].version, Best(n).version)
      BY <1>1, <2>1, <3>1, NewestChosen
    <3> HIDE DEF ps
    <3> QED BY <2>2, <3>2 DEF ps
  <2>3. CASE strategy # "newest"
    <3>1. Best(n) = ps[Stable(n)]
      BY <2>3 DEF Best
    <3>2. ASSUME NEW i \in DOMAIN ps
          PROVE  /\ (ps[i].source \in preferred <=> Best(n).source \in preferred) => ~(ps[i].priority < Best(n).priority)
                 /\ ~(ps[i].source \in preferred <=> Best(n).source \in preferred) => ps[i].source \notin preferred
      <4>1. Ours(n) # {} => Stable(n) \in Ours(n)
        BY <1>1, StableChosen
      <4>2. Stable(n) \in DOMAIN ps /\ ps[i].priority \in Nat /\ ps[Stable(n)].priority \in Nat
            /\ ((i \in Ours(n) <=> Stable(n) \in Ours(n)) => ps[Stable(n)].priority <= ps[i].priority)
        BY <1>1, StableChosen
      <4> HIDE DEF ps
      <4> QED BY <2>1, <3>1, <4>1, <4>2
    <3> QED BY <2>3, <3>2
  <2> QED BY <2>2, <2>3
<1>2. Spec => []IsIndex(index)
  <2>1. Init => IsIndex(index)
    BY AsksAssumption DEF Init, IsAsk
  <2>2. IsIndex(index) /\ [Next]_vars => IsIndex(index)'
    <3> SUFFICES ASSUME IsIndex(index), [Next]_vars PROVE index' = index
      OBVIOUS
    <3> QED BY DEF Next, Collect, Solve, NextRoot, Edge, Return, Finish, vars, ask
  <2> QED BY <2>1, <2>2, PTL DEF Spec
<1> QED BY <1>1, <1>2, PTL
=============================================================================
