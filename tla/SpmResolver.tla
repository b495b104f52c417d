------------------------------ MODULE SpmResolver ------------------------------
(***************************************************************************)
(* The resolver (src/src/package/resolver/, src/src/package/solver.rs):    *)
(* from a package that is asked for and the soname index to the packages   *)
(* that are installed, and the cycles among them.                          *)
(*                                                                         *)
(* A name of the index is a package or a capability: a soname or a path.   *)
(* It has providers, each a package in a version of a repository, and      *)
(* requirements, each a name with an operator and a version.  PubGrub is a *)
(* library: what it finds is defined, how it searches is not, because      *)
(* choose_version offers it one version of each name.                      *)
(***************************************************************************)
EXTENDS SpmVersions, FiniteSets, SequencesExt

CONSTANTS Names,
          Capabilities, \* the names with ".so" in them or a slash in front
          Root,         \* the package that is asked for
          Sources,      \* of repositories
          Asks          \* what is asked, and of which soname index: see IsAsk

Strategies == {"stable", "newest"}
Operators  == {">=", ">>", ">", "<=", "<<", "<", "=", ""}

ASSUME NamesAssumption ==
  IsFiniteSet(Names) /\ Capabilities \subseteq Names /\ Root \in Names \ Capabilities
IsRequirement(d) == d.name \in Names /\ d.op \in Operators
IsProvider(p)    == p.pkg \in Names /\ p.priority \in Nat /\ p.version \in Seq(Bytes)
IsIndex(x) ==
  \A n \in Names :
    /\ x.requires[n] \in Seq(ToSet(x.requires[n])) /\ \A d \in ToSet(x.requires[n]) : IsRequirement(d)
    /\ x.providers[n] \in Seq(ToSet(x.providers[n])) /\ \A p \in ToSet(x.providers[n]) : IsProvider(p)
IsAsk(a) == /\ IsIndex(a.index) /\ a.strategy \in Strategies
            /\ a.preferred \subseteq Sources /\ Cardinality(a.preferred) <= 1
ASSUME AsksAssumption == \A a \in Asks : IsAsk(a)

VARIABLES
  index, strategy, preferred, \* what is asked: preferred is a set of at most one source
  pc,
  seen, queue,  \* phase 1
  plan,         \* phase 2: the packages, in the order in which they will be installed
  disc, low,    \* phase 3, per place of the plan: discovery time or 0, and the lowest one reached
  stack,        \* places not yet in a component
  calls,        \* activations of strongconnect: the place and the requirements left, innermost first
  time, sccs

vars == <<index, strategy, preferred, pc, seen, queue, plan, disc, low, stack, calls, time, sccs>>
ask  == <<index, strategy, preferred>>

Init ==
  /\ \E a \in Asks : index = a.index /\ strategy = a.strategy /\ preferred = a.preferred
  /\ pc = "collect" /\ seen = {} /\ queue = <<Root>> /\ plan = <<>>
  /\ disc = <<>> /\ low = <<>> /\ stack = <<>> /\ calls = <<>> /\ time = 0 /\ sccs = {}

Requires(n)  == index.requires[n]
Providers(n) == index.providers[n]

-----------------------------------------------------------------------------
(* Phase 1: everything that the root leads to.  Nobody uses it. *)

Collect ==
  /\ pc = "collect" /\ queue # <<>>
  /\ seen' = seen \cup {Head(queue)}
  /\ LET new == SelectSeq(Requires(Head(queue)), LAMBDA d : d.name \notin seen')
     IN  queue' = Tail(queue) \o (IF Head(queue) \in seen THEN <<>>
                                  ELSE [i \in DOMAIN new |-> new[i].name])
  /\ UNCHANGED <<ask, pc, plan, disc, low, stack, calls, time, sccs>>

-----------------------------------------------------------------------------
(* Phase 2 *)

\* The places of the preferred source's providers and of the others.
Ours(n)      == {i \in DOMAIN Providers(n) : Providers(n)[i].source \in preferred}
Others(n)    == DOMAIN Providers(n) \ Ours(n)
VersionOf(p) == Parse(p.version)

\* sort_by_key is stable, min_by_key takes the first of equals and max_by_key the last.
FirstOf(ps, I) ==
  CHOOSE i \in I : \A j \in I : /\ ps[i].priority <= ps[j].priority
                                /\ j < i => ps[i].priority < ps[j].priority
LastOf(ps, I) ==
  CHOOSE i \in I : \A j \in I : Cmp(VersionOf(ps[j]), VersionOf(ps[i])) <= IF j <= i THEN 0 ELSE -1

\* The latest of the preferred ones unless the latest of the others is later.
Newest(n) ==
  LET ps == Providers(n)
      a  == LastOf(ps, Ours(n))
      b  == LastOf(ps, Others(n))
  IN  IF Ours(n) = {} THEN b
      ELSE IF Others(n) = {} \/ Cmp(VersionOf(ps[a]), VersionOf(ps[b])) >= 0 THEN a ELSE b
Stable(n) == FirstOf(Providers(n), IF Ours(n) # {} THEN Ours(n) ELSE Others(n))

\* best_version: the provider whose version it is.
Best(n) == Providers(n)[IF strategy = "newest" THEN Newest(n) ELSE Stable(n)]

\* op_str_to_range: >> and << include their version.
InRange(op, ver, v) ==
  Cmp(v, Parse(ver)) \in CASE op \in {">=", ">>"} -> {0, 1}
                           [] op = ">"            -> {1}
                           [] op \in {"<=", "<<"} -> {-1, 0}
                           [] op = "<"            -> {-1}
                           [] op = "="            -> {0}
                           [] OTHER               -> {-1, 0, 1}

\* get_dependencies makes a map of them: of two requirements of one name the last one counts.
Constraints(n) == {i \in DOMAIN Requires(n) :
                     \A j \in i + 1..Len(Requires(n)) : Requires(n)[j].name # Requires(n)[i].name}
Satisfied(d)   == Providers(d.name) # <<>> /\ InRange(d.op, d.ver, VersionOf(Best(d.name)))

Leads(x, y) == \E d \in ToSet(Requires(x)) : d.name = y

\* What x leads to without leaving the names of S: the smallest set of them with x that no
\* requirement leads out of.
Below(x, S) ==
  {y \in S : \A T \in SUBSET S :
     x \in T /\ (\A u \in T, v \in S : Leads(u, v) => v \in T) => y \in T}
Closure == Below(Root, Names)

\* pubgrub::resolve is asked for version 0-0 of the root, and there must be one.
Solvable == /\ Providers(Root) # <<>>
            /\ Cmp(VersionOf(Best(Root)), [epoch |-> 0, version |-> <<Zero>>, release |-> <<Zero>>]) = 0
            /\ \A n \in Closure : \A i \in Constraints(n) : Satisfied(Requires(n)[i])

\* solution_to_packages: the provider of a capability, by its priority whatever the strategy.
RealName(n) ==
  IF n \in Capabilities THEN Providers(n)[FirstOf(Providers(n), DOMAIN Providers(n))].pkg ELSE n

\* fallback_to_native_resolver: the root and the names that it requires, capabilities as they are,
\* each where it comes first.  This is one sequence.
Direct ==
  LET all == <<Root>> \o [i \in DOMAIN Requires(Root) |-> Requires(Root)[i].name]
  IN  {names \in SetToSeqs(ToSet(all)) :
         \A i, j \in DOMAIN names : i < j =>
           \E k \in DOMAIN all : all[k] = names[i] /\ \A l \in 1..k : all[l] # names[j]}

\* A solution is a hash map, which has any order.
Solve ==
  /\ pc = "collect" /\ queue = <<>> /\ pc' = "cycles"
  /\ plan' \in IF Solvable THEN SetToSeqs({RealName(n) : n \in Closure}) ELSE Direct
  /\ disc' = [i \in DOMAIN plan' |-> 0] /\ low' = disc'
  /\ UNCHANGED <<ask, seen, queue, stack, calls, time, sccs>>

-----------------------------------------------------------------------------
(* Phase 3: tarjan_scc.  The places of the plan are the nodes. *)

PlaceOf(n) == CHOOSE i \in DOMAIN plan : plan[i] = n
Top        == Head(calls)

Enter(v, above) ==
  /\ time' = time + 1
  /\ disc' = [disc EXCEPT ![v] = time + 1] /\ low' = [low EXCEPT ![v] = time + 1]
  /\ stack' = <<v>> \o stack
  /\ calls' = <<[place |-> v, left |-> Requires(plan[v])]>> \o above

NextRoot ==
  /\ pc = "cycles" /\ calls = <<>> /\ \E v \in DOMAIN plan : disc[v] = 0
  /\ Enter(CHOOSE v \in DOMAIN plan : disc[v] = 0 /\ \A u \in 1..v - 1 : disc[u] # 0, <<>>)
  /\ UNCHANGED <<ask, pc, seen, queue, plan, sccs>>

Lower(v, t) == low' = [low EXCEPT ![v] = IF t < @ THEN t ELSE @]

\* Mutation: a place that has its component already counts as well.
EdgeToAny ==
  /\ pc = "cycles" /\ calls # <<>> /\ Top.left # <<>>
  /\ LET v == Top.place
         n == Head(Top.left).name
         w == PlaceOf(n)
         here == [Top EXCEPT !.left = Tail(@)]
     IN  IF n \in ToSet(plan) /\ disc[w] = 0 THEN Enter(w, <<here>> \o Tail(calls))
         ELSE /\ calls' = <<here>> \o Tail(calls) /\ UNCHANGED <<disc, stack, time>>
              /\ IF n \in ToSet(plan) THEN Lower(v, disc[w]) ELSE UNCHANGED low
  /\ UNCHANGED <<ask, pc, seen, queue, plan, sccs>>

Edge ==
  /\ pc = "cycles" /\ calls # <<>> /\ Top.left # <<>>
  /\ LET v == Top.place
         n == Head(Top.left).name
         w == PlaceOf(n)
         here == [Top EXCEPT !.left = Tail(@)]
     IN  IF n \in ToSet(plan) /\ disc[w] = 0 THEN Enter(w, <<here>> \o Tail(calls))
         ELSE /\ calls' = <<here>> \o Tail(calls) /\ UNCHANGED <<disc, stack, time>>
              /\ IF n \in ToSet(plan) /\ w \in ToSet(stack) THEN Lower(v, disc[w]) ELSE UNCHANGED low
  /\ UNCHANGED <<ask, pc, seen, queue, plan, sccs>>

\* The component of a place that nothing below it leads out of; one of a single package is no cycle.
Return ==
  /\ pc = "cycles" /\ calls # <<>> /\ Top.left = <<>>
  /\ LET v    == Top.place
         at   == CHOOSE i \in DOMAIN stack : stack[i] = v
         scc  == ToSet(SubSeq(stack, 1, at))
     IN  IF low[v] = disc[v]
         THEN /\ stack' = SubSeq(stack, at + 1, Len(stack))
              /\ sccs' = IF Cardinality(scc) > 1 THEN sccs \cup {{plan[w] : w \in scc}} ELSE sccs
         ELSE UNCHANGED <<stack, sccs>>
  /\ calls' = Tail(calls)
  /\ IF Tail(calls) # <<>> THEN Lower(calls[2].place, low[Top.place]) ELSE UNCHANGED low
  /\ UNCHANGED <<ask, pc, seen, queue, plan, disc, time>>

\* Phase 4 compares the versions of packages of one name, of which a plan has one, and phase 5
\* returns what it is given; the cache that is filled goes with the resolver.
Finish ==
  /\ pc = "cycles" /\ calls = <<>> /\ \A v \in DOMAIN plan : disc[v] # 0
  /\ pc' = "done"
  /\ UNCHANGED <<ask, seen, queue, plan, disc, low, stack, calls, time, sccs>>

Next == Collect \/ Solve \/ NextRoot \/ Edge \/ Return \/ Finish
Spec == Init /\ [][Next]_vars

-----------------------------------------------------------------------------
(* Properties *)

\* tarjan_scc: the cycles that are reported are the largest sets of two or more planned packages
\* that all lead to each other through planned packages.
CyclesAreMutual ==
  pc = "done" =>
    LET P      == ToSet(plan)
        mutual == {{y \in Below(x, P) : x \in Below(y, P)} : x \in P}
    IN  sccs = {C \in mutual : Cardinality(C) > 1}

\* best_version with rpmvercmp: by the order of keys, no provider has a later version than the one
\* that the newest strategy takes, and among equals the preferred source has it; the stable strategy
\* takes the preferred source and in it no repository after another.
ChosenIsBest ==
  pc = "collect" /\ seen = {} => \A n \in Names : Providers(n) # <<>> =>
    \E best \in {Best(n)} :
      LET rival(p) == IF strategy = "newest"
                      THEN \/ Before(best.version, p.version)
                           \/ /\ ~Before(p.version, best.version)
                              /\ p.source \in preferred /\ best.source \notin preferred
                      ELSE IF (p.source \in preferred) = (best.source \in preferred)
                           THEN p.priority < best.priority ELSE p.source \in preferred
      IN  \A i \in DOMAIN Providers(n) : ~rival(Providers(n)[i])
=============================================================================
