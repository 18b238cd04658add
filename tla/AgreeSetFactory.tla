-------------------------- MODULE AgreeSetFactory --------------------------
(***************************************************************************)
(* util::AgreeSetFactory: the sets of columns on which two rows agree, from *)
(* the clusters of the columns.  Here are the four ways to generate the    *)
(* sets, and one way to generate the clusters they look at, the maximal    *)
(* representation; the other two are in DifferenceSets.                    *)
(***************************************************************************)
EXTENDS RelationData

EqvClasses == UNION Range(plis)

-----------------------------------------------------------------------------
(* The maximal representation. *)

SizeLess(X, Y) ==
  \/ Cardinality(X) < Cardinality(Y)
  \/ Cardinality(X) = Cardinality(Y) /\ X # Y /\ Min((X \ Y) \cup (Y \ X)) \in X

\* What the representation is: the clusters that are in no other.
MaximalOf(sets) == {X \in sets : ~\E Y \in sets : X \subseteq Y /\ X # Y}

\* Mutant of McUsingHandlePartition: a class is left out when each of its rows is in some class.
McUsingHandlePartitionRows ==
  FoldLeft(LAMBDA mc, g : IF g \subseteq UNION mc THEN mc ELSE mc \cup {g}, {},
           Reverse(Ordered(EqvClasses, SizeLess)))

\* HandlePartition: from the largest class down, unless IsSubset finds a class
\* that all its rows are in.
McUsingHandlePartition ==
  FoldLeft(LAMBDA mc, g : IF \E h \in mc : g \subseteq h THEN mc ELSE mc \cup {g}, {},
           Reverse(Ordered(EqvClasses, SizeLess)))

-----------------------------------------------------------------------------
(* Agree sets. *)

\* The columns in whose indexes row r is not alone, with its cluster.
IdentifierSet(r) == {id \in Cols \X EqvClasses : id[2] \in plis[id[1]] /\ r \in id[2]}
IntersectIds(p, q) == {id[1] : id \in p \cap q}

GetAgreeSet(i, j) ==
  LET t == Tuple(i)
      u == Tuple(j)
  IN  {c \in Cols : t[c] # Singleton /\ t[c] = u[c]}

PairsIn(clusters) == {p \in Rows \X Rows : p[1] < p[2] /\ \E g \in clusters : {p[1], p[2]} \subseteq g}

AsUsingVectorOfIdSets(mc) ==
  LET ids == [r \in UNION mc |-> IdentifierSet(r)]
  IN  {IntersectIds(ids[p[1]], ids[p[2]]) : p \in {q \in (UNION mc) \X (UNION mc) : q[1] # q[2]}}
AsUsingMapOfIdSets(mc) ==
  LET ids == [r \in UNION mc |-> IdentifierSet(r)]
  IN  {IntersectIds(ids[p[1]], ids[p[2]]) : p \in PairsIn(mc)}
AsUsingMcAndGetAgreeSets(mc) == {GetAgreeSet(p[1], p[2]) : p \in PairsIn(mc)}
AsUsingGetAgreeSets == {GetAgreeSet(p[1], p[2]) : p \in PairsIn(EqvClasses)}

\* The empty set is always one of them.
GenAgreeSets(generated) == generated \cup {{}}

-----------------------------------------------------------------------------

\* HandlePartition's representation has the maximal clusters, and from it, or from all
\* clusters, each of the four ways gives the agree sets of all pairs of rows, and the
\* empty set: pairs of rows that are in no cluster together agree on nothing
\* (AgreeSetFactory::GenAgreeSets, GenMcUsingHandlePartition).
AgreeSetsComplete ==
  Built =>
    LET mc == McUsingHandlePartition
    IN  /\ mc = MaximalOf(EqvClasses)
        /\ \A generated \in {AsUsingVectorOfIdSets(mc), AsUsingMapOfIdSets(mc), AsUsingMcAndGetAgreeSets(mc), AsUsingGetAgreeSets} :
             GenAgreeSets(generated) = AgreeSets \cup {{}}
=============================================================================
