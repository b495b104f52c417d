---------------------------- MODULE MCSpmResolver ----------------------------
(* Every graph of four packages below the root, solved and not, and every pair of short versions. *)
EXTENDS SpmResolver

CONSTANTS R, A, B, C, Cap, Deb, Rpm

ZeroZero == <<Zero, Hyphen, Zero>>
One      == <<Zero + 1>>
Offer(p, v, s, n) == [pkg |-> p, version |-> v, source |-> s, priority |-> n]
Need(n)  == [name |-> n, op |-> "", ver |-> One]
InOrder(S) == SelectSeq(<<R, A, B, C, Cap>>, LAMBDA n : n \in S)

\* Who requires whom; the root is offered in version 0-0, which is solved, or in 1, which is not.
Graph(g, v) ==
  [requires  |-> [n \in Names |-> LET to == InOrder(g[n]) IN [i \in DOMAIN to |-> Need(to[i])]],
   providers |-> [n \in Names |-> IF n = Cap THEN <<Offer(C, One, Deb, 2), Offer(B, One, Rpm, 1)>>
                                  ELSE <<Offer(n, IF n = R THEN v ELSE One, Deb, 1)>>]]
Graphs4 == {g \in [Names -> SUBSET {R, A, B, C}] :
              R \notin g[R] /\ A \notin g[A] /\ C \notin g[C] /\ g[Cap] = {} /\ Cardinality(g[R]) >= 1}
CapGraphs == {g \in [Names -> SUBSET {A, B, Cap}] :
                g[R] = {A, Cap} /\ g[C] = {} /\ \A n \in {A, B, Cap} : n \notin g[n]}

\* One requirement with a constraint, or two of one name, of which the last one counts.
Constrained ==
  {[Graph([n \in Names |-> {}], ZeroZero) EXCEPT
      !.requires[R] = <<[name |-> A, op |-> o, ver |-> One]>> \o t,
      !.providers[A] = <<Offer(A, w, Deb, 1)>>] :
     o \in Operators, t \in {<<>>, <<Need(A)>>}, w \in {<<Zero>>, One, <<Zero + 2>>}}

\* Versions of up to three bytes, with a release and an epoch among them.
Sample == {Zero, Zero + 1, 97, Dot, Tilde}
Texts  == UNION {[1..n -> Sample] : n \in 0..2}
          \cup {<<x, Dot, y>> : x, y \in {Zero, Zero + 1}} \cup {<<x, Zero + 1, Zero>> : x \in Sample}
          \cup {<<Zero + 1, Zero, Zero>>}
          \cup {<<x, Hyphen, y>> : x, y \in {Zero, Zero + 1}}
          \cup {<<x, Colon, y>> : x, y \in {Zero + 1, 97}}
Offered(v, w, s, n) ==
  [requires |-> [x \in Names |-> <<>>],
   providers |-> [x \in Names |-> IF x = R THEN <<Offer(R, v, Deb, 1), Offer(R, w, s, n)>> ELSE <<>>]]

Asked(X, S, P) == [index : X, strategy : S, preferred : P]
Preferences    == {{}} \cup {{s} : s \in Sources}

\* How a version is chosen matters where there are two providers: the newest strategy looks at
\* versions and not at priorities, the stable one the other way round.
MCAsks ==
  Asked({Graph(g, One) : g \in Graphs4} \cup {Graph(g, ZeroZero) : g \in CapGraphs} \cup Constrained,
        {"stable"}, {{}})
  \cup Asked({Offered(v, w, s, 1) : v, w \in Texts, s \in Sources}, {"newest"}, Preferences)
  \cup Asked({Offered(v, w, s, n) : v, w \in {<<Zero>>, One}, s \in Sources, n \in {0, 1}},
             {"stable"}, Preferences)
=============================================================================
