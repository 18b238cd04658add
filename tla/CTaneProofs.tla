----------------------------- MODULE CTaneProofs -----------------------------
(* Proofs about CTane: of every table, and whatever the bounds, all            *)
(* dependencies that are due are found, and no others while the vertices are   *)
(* in order; out of order, none that those of fewer columns imply.             *)
EXTENDS CTane, FiniteSetTheorems, FunctionTheorems, WellFoundedInduction, TLAPS

CTaneSpec == CTaneInit /\ [][CTaneNext]_ctaneVars

-----------------------------------------------------------------------------
(* The invariant. *)

\* A pattern of values that are met in its columns.
IsPattern(p) ==
  /\ p = [c \in DOMAIN p |-> p[c]] /\ DOMAIN p \subseteq Columns
  /\ \A c \in DOMAIN p : p[c] \in {Unnamed} \cup Known(c)

\* What AtLeastAsGeneral says of a pattern.
General(q, p) ==
  /\ q = [c \in DOMAIN q |-> q[c]] /\ DOMAIN q \subseteq DOMAIN p
  /\ \A c \in DOMAIN q : q[c] \in {p[c], Unnamed}

Agree(X, r, s) == \A c \in X : table[s][c] = table[r][c]

\* The index of a pattern.
Same(p, r) == {s \in Matching(p) : Agree(DOMAIN p, r, s)}
Part(p) == {Same(p, r) : r \in Matching(p)}

Frequent(p) == Cardinality(Matching(p)) >= minSup

\* The dependency holds exactly.
Follows(q, c, v) ==
  \A r \in Matching(q) :
    /\ table[r][c] # Null /\ v \in {Unnamed, table[r][c]}
    /\ \A s \in Matching(q) : Agree(DOMAIN q, r, s) => table[r][c] = table[s][c]

Singles ==
  {a \in Columns \X Nat : a[2] \in {Unnamed} \cup Known(a[1]) /\ Frequent(Only(a[1], a[2]))}
Fits(p, a) == a[1] \in DOMAIN p => a[2] = p[a[1]]

\* Some column of the pattern follows exactly from others, the candidate not one of
\* them.
Gone(p, a) ==
  \E c \in DOMAIN p : \E q \in AtLeastAsGeneral(Without(p, c)) :
    Follows(q, c, p[c]) /\ a[1] \notin DOMAIN q

\* The candidates of a pattern after its level, and before it.
Rest(p) == {a \in Singles : Fits(p, a) /\ ~Gone(p, a)}
Start(p) == {a \in Singles : Fits(p, a) /\ \A d \in DOMAIN p : a \in Rest(Without(p, d))}

\* No more general left-hand side will do.
Least(q, c, v) ==
  Follows(q, c, v) /\ \A other \in AtLeastAsGeneral(q) \ {q} : ~Follows(other, c, v)

\* The more general left-hand sides, all of them or only those of fewer columns.
Generals(all, p) ==
  IF all THEN AtLeastAsGeneral(p) \ {p} ELSE {q \in AtLeastAsGeneral(p) : DOMAIN q # DOMAIN p}

\* The dependency of a pattern on one of its columns is due beside these.
Implied(all, x, c) ==
  \/ \E q \in Generals(all, Without(x, c)) : Follows(q, c, x[c])
  \/ \E d \in DOMAIN x \ {c} : \E q \in AtLeastAsGeneral(Without(Without(x, c), d)) : Follows(q, d, x[d])
DueAt(all, x, c) ==
  /\ Frequent(x) /\ ~Implied(all, x, c)
  /\ EnoughConfidence(<<MostKept(Without(x, c), <<c, x[c]>>), Cardinality(Matching(Without(x, c)))>>)
Emitted(all, x) == {[lhs |-> Without(x, c), rhs |-> <<c, x[c]>>] : c \in {d \in DOMAIN x : DueAt(all, x, d)}}

AllPatterns == {p \in UNION {Patterns(X) : X \in SUBSET Columns} : IsPattern(p)}
OfArity(sizes) == {p \in AllPatterns : Cardinality(DOMAIN p) \in sizes}

TableInv ==
  /\ table \in Seq([Columns -> {Null} \cup (Nat \ {0})])
  /\ minSup \in Nat \ {0} /\ minConf \in Nat \X (Nat \ {0}) /\ maxLhs \in Nat
  /\ phase \in {"read", "check", "join", "done", "undefined"} /\ inOrder \in BOOLEAN
  /\ phase = "read" => cfds = {}
  /\ phase \in {"check", "join"} => arity \in 1..MaxLevel
  /\ phase = "join" => arity < MaxLevel

\* The level while it is checked: its vertices have the candidates of the start but
\* for those that a checked vertex took away, and what a checked vertex has to take
\* away is gone.
VertexInv ==
  \A p \in DOMAIN vertices :
    /\ p \in OfArity({arity}) /\ vertices[p].pli = Part(p)
    /\ \A c \in DOMAIN p : Without(p, c) \in DOMAIN below /\ below[Without(p, c)] = Part(Without(p, c))
    /\ vertices[p].rhs \subseteq Start(p)
LevelInv ==
  /\ vertices = [p \in DOMAIN vertices |-> [pli |-> vertices[p].pli, rhs |-> vertices[p].rhs]]
  /\ unchecked \subseteq DOMAIN vertices
  /\ \A p \in OfArity({arity}) : Frequent(p) /\ Start(p) # {} => p \in DOMAIN vertices

Checked == DOMAIN vertices \ unchecked
TakenAway ==
  \A p \in DOMAIN vertices : \A a \in Start(p) \ vertices[p].rhs :
    \E c \in DOMAIN p : \E x \in Checked :
      /\ DOMAIN x = DOMAIN p /\ General(x, p) /\ x[c] = p[c]
      /\ Follows(Without(x, c), c, p[c]) /\ a[1] \notin DOMAIN x \ {c}
AllTaken ==
  \A x \in Checked : \A c \in DOMAIN x : Frequent(x) /\ Least(Without(x, c), c, x[c]) =>
    \A p \in Told(x, c) : \A a \in vertices[p].rhs : a[1] \in DOMAIN x \ {c}

\* The level when it was pruned.
PrunedInv ==
  /\ DOMAIN vertices = {p \in OfArity({arity}) : Frequent(p) /\ Rest(p) # {}}
  /\ \A p \in DOMAIN vertices : vertices[p].rhs = Rest(p) /\ vertices[p].pli = Part(p)

\* What is due of these patterns is found; what is found is due at least beside those
\* of fewer columns, and beside all of them as long as the vertices are in order.
AllOf(all, patterns) == UNION {Emitted(all, x) : x \in patterns}
CfdsOf(patterns) ==
  /\ AllOf(TRUE, patterns) \subseteq cfds /\ cfds \subseteq AllOf(FALSE, patterns)
  /\ inOrder => cfds \subseteq AllOf(TRUE, patterns)

CTaneInv ==
  /\ TableInv
  /\ phase = "check" => /\ LevelInv /\ VertexInv /\ TakenAway /\ AllTaken
                        /\ CfdsOf(OfArity(1..arity) \ unchecked)
  /\ phase = "join" => PrunedInv /\ CfdsOf(OfArity(1..arity))
  /\ phase = "done" => CfdsOf(OfArity(1..MaxLevel))

-----------------------------------------------------------------------------
(* Patterns. *)

LEMMA SmallestNumber ==
  ASSUME NEW S, S \subseteq Nat, S # {}
  PROVE  \E x \in S : \A y \in S : x <= y
<1>1. PICK x \in S : \A y \in S : <<y, x>> \notin OpToRel(<, Nat)
  BY NatLessThanWellFounded, WFMin
<1>2. ASSUME NEW y \in S PROVE x <= y
  <2>1. x \in Nat /\ y \in Nat /\ <<y, x>> \notin OpToRel(<, Nat)
    BY <1>1
  <2> QED BY <2>1 DEF OpToRel
<1> QED BY <1>2

LEMMA WithoutIs ==
  ASSUME NEW p, NEW c
  PROVE  /\ Without(p, c) = [d \in DOMAIN Without(p, c) |-> Without(p, c)[d]]
         /\ DOMAIN Without(p, c) = DOMAIN p \ {c}
         /\ \A d \in DOMAIN p \ {c} : Without(p, c)[d] = p[d]
BY DEF Without

LEMMA WithIs ==
  ASSUME NEW p, NEW c, NEW v, c \notin DOMAIN p
  PROVE  /\ With(p, <<c, v>>) = [d \in DOMAIN With(p, <<c, v>>) |-> With(p, <<c, v>>)[d]]
         /\ DOMAIN With(p, <<c, v>>) = DOMAIN p \cup {c}
         /\ \A d \in DOMAIN p : With(p, <<c, v>>)[d] = p[d]
         /\ With(p, <<c, v>>)[c] = v
BY DEF With

LEMMA SamePattern ==
  ASSUME NEW p, NEW q, p = [c \in DOMAIN p |-> p[c]], q = [c \in DOMAIN q |-> q[c]],
         DOMAIN p = DOMAIN q, \A c \in DOMAIN p : p[c] = q[c]
  PROVE  p = q
OBVIOUS

LEMMA WithoutWith ==
  ASSUME NEW p, NEW c, NEW v, p = [d \in DOMAIN p |-> p[d]], c \notin DOMAIN p
  PROVE  Without(With(p, <<c, v>>), c) = p
<1> DEFINE x == With(p, <<c, v>>)
<1>1. /\ DOMAIN x = DOMAIN p \cup {c}
      /\ \A d \in DOMAIN p : x[d] = p[d]
  BY DEF With
<1> HIDE DEF x
<1>2. /\ Without(x, c) = [d \in DOMAIN Without(x, c) |-> Without(x, c)[d]]
      /\ DOMAIN Without(x, c) = DOMAIN x \ {c}
      /\ \A d \in DOMAIN x \ {c} : Without(x, c)[d] = x[d]
  BY WithoutIs
<1>3. Without(x, c) = p
  <2> DEFINE w == Without(x, c)
  <2>1. DOMAIN w = DOMAIN p /\ \A d \in DOMAIN p : w[d] = p[d]
    BY <1>1, <1>2
  <2>2. w = [d \in DOMAIN w |-> w[d]]
    BY <1>2
  <2> HIDE DEF w
  <2>3. w = p
    BY <2>1, <2>2, SamePattern
  <2> QED BY <2>3 DEF w
<1> QED BY <1>3 DEF x

LEMMA WithWithout ==
  ASSUME NEW x, NEW c \in DOMAIN x, x = [d \in DOMAIN x |-> x[d]]
  PROVE  With(Without(x, c), <<c, x[c]>>) = x
<1> DEFINE p == Without(x, c)
           y == With(p, <<c, x[c]>>)
<1>1. DOMAIN p = DOMAIN x \ {c} /\ \A d \in DOMAIN x \ {c} : p[d] = x[d]
  BY WithoutIs
<1> HIDE DEF p
<1>2. /\ y = [d \in DOMAIN y |-> y[d]] /\ DOMAIN y = DOMAIN p \cup {c}
      /\ (\A d \in DOMAIN p : y[d] = p[d]) /\ y[c] = x[c]
  BY <1>1 DEF With
<1> HIDE DEF y
<1>3. y = x
  BY <1>1, <1>2, SamePattern
<1> QED BY <1>3 DEF y, p

LEMMA GeneralIs ==
  ASSUME NEW p, IsPattern(p), NEW q
  PROVE  q \in AtLeastAsGeneral(p) <=> General(q, p)
<1>1. ASSUME q \in AtLeastAsGeneral(p) PROVE General(q, p)
  <2>1. PICK X \in SUBSET DOMAIN p : q \in Patterns(X)
    BY <1>1 DEF AtLeastAsGeneral
  <2>2. \A c \in DOMAIN q : q[c] \in {p[c], Unnamed}
    BY <1>1 DEF AtLeastAsGeneral
  <2> QED BY <2>1, <2>2 DEF Patterns, General
<1>2. ASSUME General(q, p) PROVE q \in AtLeastAsGeneral(p)
  <2>1. \A c \in DOMAIN q : q[c] \in {Unnamed} \cup UNION {Known(d) : d \in DOMAIN q}
    BY <1>2 DEF General, IsPattern
  <2>2. q \in Patterns(DOMAIN q)
    BY <1>2, <2>1 DEF General, Patterns
  <2> QED BY <1>2, <2>2 DEF General, AtLeastAsGeneral
<1> QED BY <1>1, <1>2

LEMMA GeneralPattern ==
  ASSUME NEW p, IsPattern(p), NEW q, General(q, p)
  PROVE  IsPattern(q)
BY DEF IsPattern, General

LEMMA GeneralTransitive ==
  ASSUME NEW p, NEW q, NEW r, General(p, q), General(q, r)
  PROVE  General(p, r)
BY DEF General

LEMMA GeneralBoth ==
  ASSUME NEW p, NEW q, General(p, q), General(q, p)
  PROVE  p = q
<1>1. DOMAIN p = DOMAIN q /\ \A c \in DOMAIN p : p[c] = q[c]
  BY DEF General
<1> QED BY <1>1, SamePattern DEF General

LEMMA GeneralSelf ==
  ASSUME NEW p, p = [c \in DOMAIN p |-> p[c]]
  PROVE  General(p, p)
BY DEF General

\* A column is left out on either side.
LEMMA WithoutGeneral ==
  ASSUME NEW p, NEW q, General(q, p), NEW c
  PROVE  /\ General(Without(q, c), p)
         /\ c \notin DOMAIN q => General(q, Without(p, c))
         /\ General(Without(q, c), Without(p, c))
<1>1. /\ Without(q, c) = [d \in DOMAIN Without(q, c) |-> Without(q, c)[d]]
      /\ DOMAIN Without(q, c) = DOMAIN q \ {c}
      /\ \A d \in DOMAIN q \ {c} : Without(q, c)[d] = q[d]
  BY WithoutIs
<1>2. /\ DOMAIN Without(p, c) = DOMAIN p \ {c}
      /\ \A d \in DOMAIN p \ {c} : Without(p, c)[d] = p[d]
  BY WithoutIs
<1> QED BY <1>1, <1>2 DEF General

LEMMA WithoutPattern ==
  ASSUME NEW p, IsPattern(p), NEW c
  PROVE  IsPattern(Without(p, c))
<1>1. General(Without(p, c), p)
  BY GeneralSelf, WithoutGeneral DEF IsPattern
<1> QED BY <1>1, GeneralPattern

LEMMA WithoutTwo ==
  ASSUME NEW p, NEW c, NEW d
  PROVE  Without(Without(p, c), d) = Without(Without(p, d), c)
<1>1. DOMAIN Without(p, c) = DOMAIN p \ {c} /\ DOMAIN Without(p, d) = DOMAIN p \ {d}
  BY WithoutIs
<1>2. (DOMAIN p \ {c}) \ {d} = (DOMAIN p \ {d}) \ {c}
  OBVIOUS
<1>3. /\ Without(Without(p, c), d) = [e \in (DOMAIN p \ {c}) \ {d} |-> p[e]]
      /\ Without(Without(p, d), c) = [e \in (DOMAIN p \ {c}) \ {d} |-> p[e]]
  BY <1>1, <1>2 DEF Without
<1> QED BY <1>3

-----------------------------------------------------------------------------
(* The rows that match. *)

LEMMA RowsFinite ==
  ASSUME TableInv, NEW S \in SUBSET Tuples
  PROVE  IsFiniteSet(S) /\ Cardinality(S) \in Nat /\ S \subseteq Nat
<1>1. Tuples = 1..Len(table) /\ Len(table) \in Nat
  BY DEF TableInv, Tuples
<1>2. IsFiniteSet(Tuples)
  BY <1>1, FS_Interval
<1>3. IsFiniteSet(S)
  BY <1>2, FS_Subset
<1> QED BY <1>1, <1>3, FS_CardinalityType

LEMMA RowTyped ==
  ASSUME TableInv, NEW r \in Tuples, NEW c \in Columns
  PROVE  table[r][c] \in {Null} \cup (Nat \ {0})
BY DEF TableInv, Tuples

LEMMA KnownTyped ==
  ASSUME TableInv, NEW c \in Columns
  PROVE  /\ Known(c) \subseteq Nat \ {0} /\ Null \notin Known(c)
         /\ IsFiniteSet(Known(c)) /\ Cardinality(Known(c)) \in Nat
<1> DEFINE values == {table[r][c] : r \in Tuples}
<1>1. Known(c) \subseteq Nat \ {0}
  BY RowTyped DEF Known
<1>2. IsFiniteSet(Tuples)
  BY RowsFinite
<1>3. IsFiniteSet(values)
  <2> DEFINE f == [r \in Tuples |-> table[r][c]]
  <2>1. f \in Surjection(Tuples, values)
    BY Fun_IsSurj
  <2> QED BY <1>2, <2>1, FS_Surjection
<1>4. Known(c) \subseteq values
  BY DEF Known
<1>5. IsFiniteSet(Known(c))
  BY <1>3, <1>4, FS_Subset
<1> QED BY <1>1, <1>5, FS_CardinalityType DEF Known, Null

LEMMA MatchMonotone ==
  ASSUME NEW p, NEW q, General(q, p)
  PROVE  Matching(p) \subseteq Matching(q)
BY DEF General, Matching, Matches

LEMMA FrequentGeneral ==
  ASSUME TableInv, NEW p, NEW q, General(q, p), Frequent(p)
  PROVE  Frequent(q)
<1>1. Matching(p) \subseteq Matching(q) /\ Matching(q) \subseteq Tuples /\ Matching(p) \subseteq Tuples
  BY MatchMonotone DEF Matching
<1>2. Cardinality(Matching(p)) <= Cardinality(Matching(q))
  BY <1>1, RowsFinite, FS_Subset
<1>3. Cardinality(Matching(p)) \in Nat /\ Cardinality(Matching(q)) \in Nat /\ minSup \in Nat
  BY <1>1, RowsFinite DEF TableInv
<1> QED BY <1>2, <1>3 DEF Frequent

LEMMA FrequentMatched ==
  ASSUME TableInv, NEW p, Frequent(p)
  PROVE  Matching(p) # {}
<1>1. Cardinality({}) = 0 /\ minSup \in Nat \ {0}
  BY FS_EmptySet DEF TableInv
<1> QED BY <1>1 DEF Frequent

\* A row matches a pattern when it matches it in one column and in the others.
LEMMA MatchColumn ==
  ASSUME NEW x, NEW c \in DOMAIN x
  PROVE  Matching(x) = {r \in Matching(Without(x, c)) :
                          table[r][c] # Null /\ x[c] \in {Unnamed, table[r][c]}}
<1>1. DOMAIN Without(x, c) = DOMAIN x \ {c} /\ \A d \in DOMAIN x \ {c} : Without(x, c)[d] = x[d]
  BY WithoutIs
<1> QED BY <1>1 DEF Matching, Matches

-----------------------------------------------------------------------------
(* What follows from what. *)

\* A column that follows from others is not needed beside them.
LEMMA FollowsWithout ==
  ASSUME NEW q, DOMAIN q \subseteq Columns, NEW c, NEW v, Follows(q, c, v),
         NEW d \in DOMAIN q, NEW other, General(other, Without(q, d)), Follows(other, d, q[d])
  PROVE  Follows(Without(q, d), c, v)
<1> DEFINE w == Without(q, d)
<1>1. DOMAIN w = DOMAIN q \ {d} /\ \A e \in DOMAIN q \ {d} : w[e] = q[e]
  BY WithoutIs
<1>2. Matching(w) \subseteq Matching(other) /\ DOMAIN other \subseteq DOMAIN w
  BY MatchMonotone DEF General
<1>3. Matching(w) \subseteq Matching(q)
  <2>1. ASSUME NEW r \in Matching(w) PROVE table[r][d] # Null /\ q[d] \in {Unnamed, table[r][d]}
    BY <1>2 DEF Follows
  <2> QED BY <2>1, MatchColumn
<1> HIDE DEF w
<1>4. ASSUME NEW r \in Matching(w), NEW s \in Matching(w), Agree(DOMAIN w, r, s)
      PROVE  Agree(DOMAIN q, r, s)
  <2>1. Agree(DOMAIN other, r, s)
    BY <1>2, <1>4 DEF Agree
  <2>2. table[r][d] = table[s][d]
    BY <1>2, <2>1 DEF Follows
  <2> QED BY <1>1, <1>4, <2>2 DEF Agree
<1>5. Follows(w, c, v)
  BY <1>3, <1>4 DEF Follows
<1> QED BY <1>5 DEF w

\* The more general a pattern, the fewer its columns and values.
Weight(p) == Cardinality(DOMAIN p) + Cardinality({c \in DOMAIN p : p[c] # Unnamed})

LEMMA ColumnsFinite ==
  ASSUME NEW X \in SUBSET Columns
  PROVE  IsFiniteSet(X) /\ Cardinality(X) \in Nat
<1>1. IsFiniteSet(Columns)
  BY CTaneAssumption, FS_Interval DEF Columns
<1> QED BY <1>1, FS_Subset, FS_CardinalityType

LEMMA WeightFalls ==
  ASSUME NEW p, DOMAIN p \subseteq Columns, NEW q, General(q, p), p = [c \in DOMAIN p |-> p[c]]
  PROVE  /\ Weight(p) \in Nat /\ Weight(q) \in Nat
         /\ q # p => Weight(q) < Weight(p)
<1> DEFINE Named(x) == {c \in DOMAIN x : x[c] # Unnamed}
<1>1. DOMAIN q \subseteq DOMAIN p /\ Named(q) \subseteq Named(p)
  BY DEF General
<1>2. /\ IsFiniteSet(DOMAIN p) /\ IsFiniteSet(Named(p))
      /\ Cardinality(DOMAIN p) \in Nat /\ Cardinality(Named(p)) \in Nat
      /\ Cardinality(DOMAIN q) \in Nat /\ Cardinality(Named(q)) \in Nat
  BY <1>1, ColumnsFinite
<1>3. Cardinality(DOMAIN q) <= Cardinality(DOMAIN p) /\ Cardinality(Named(q)) <= Cardinality(Named(p))
  BY <1>1, <1>2, FS_Subset
<1>4. ASSUME DOMAIN q = DOMAIN p, Named(q) = Named(p) PROVE q = p
  <2>1. ASSUME NEW c \in DOMAIN p PROVE q[c] = p[c]
    BY <1>4 DEF General
  <2> QED BY <1>4, <2>1, SamePattern DEF General
<1>5. ASSUME q # p PROVE \/ Cardinality(DOMAIN q) # Cardinality(DOMAIN p)
                         \/ Cardinality(Named(q)) # Cardinality(Named(p))
  BY <1>1, <1>2, <1>4, <1>5, FS_Subset
<1> HIDE DEF Named
<1>6. Weight(p) = Cardinality(DOMAIN p) + Cardinality(Named(p)) /\ Weight(q) = Cardinality(DOMAIN q) + Cardinality(Named(q))
  BY DEF Weight, Named
<1> QED BY <1>2, <1>3, <1>5, <1>6

LEMMA LeastExists ==
  ASSUME NEW p, IsPattern(p), NEW c, NEW v, Follows(p, c, v)
  PROVE  \E q : General(q, p) /\ IsPattern(q) /\ Least(q, c, v)
<1> DEFINE good == {q \in AtLeastAsGeneral(p) : Follows(q, c, v)}
           weights == {Weight(q) : q \in good}
<1>1. ASSUME NEW q \in good PROVE General(q, p) /\ IsPattern(q) /\ Weight(q) \in Nat
  <2>1. General(q, p)
    BY GeneralIs
  <2> QED BY <2>1, GeneralPattern, WeightFalls DEF IsPattern
<1>2. p \in good
  BY GeneralIs, GeneralSelf DEF IsPattern
<1>3. PICK q \in good : \A o \in good : Weight(q) <= Weight(o)
  <2>1. weights \subseteq Nat /\ weights # {}
    BY <1>1, <1>2
  <2>2. PICK w \in weights : \A x \in weights : w <= x
    <3> HIDE DEF weights
    <3> QED BY <2>1, SmallestNumber
  <2> QED BY <2>2
<1>4. ASSUME NEW o \in AtLeastAsGeneral(q) \ {q}, Follows(o, c, v) PROVE FALSE
  <2>1. General(o, q)
    BY <1>1, <1>3, GeneralIs
  <2>2. o \in good
    BY <1>1, <1>3, <1>4, <2>1, GeneralIs, GeneralTransitive
  <2>3. Weight(o) < Weight(q) /\ Weight(o) \in Nat /\ Weight(q) \in Nat
    BY <1>1, <1>3, <2>1, WeightFalls DEF IsPattern
  <2>4. Weight(q) <= Weight(o)
    BY <1>3, <2>2
  <2> QED BY <2>3, <2>4
<1> QED BY <1>1, <1>3, <1>4 DEF Least

-----------------------------------------------------------------------------
(* Candidates. *)

LEMMA GoneBy ==
  ASSUME NEW p, IsPattern(p), NEW a
  PROVE  Gone(p, a) <=> \E c \in DOMAIN p : \E q : /\ General(q, Without(p, c)) /\ Follows(q, c, p[c])
                                                   /\ a[1] \notin DOMAIN q
<1>1. ASSUME NEW c \in DOMAIN p, NEW q
      PROVE  q \in AtLeastAsGeneral(Without(p, c)) <=> General(q, Without(p, c))
  BY WithoutPattern, GeneralIs
<1> QED BY <1>1 DEF Gone

LEMMA GeneralsAre ==
  ASSUME NEW p, IsPattern(p), NEW q, NEW all \in BOOLEAN
  PROVE  q \in Generals(all, p) <=> General(q, p) /\ q # p /\ (all \/ DOMAIN q # DOMAIN p)
<1>1. q \in AtLeastAsGeneral(p) <=> General(q, p)
  BY GeneralIs
<1>2. CASE all
  BY <1>1, <1>2 DEF Generals
<1>3. CASE ~all
  <2>1. q \in Generals(all, p) <=> General(q, p) /\ DOMAIN q # DOMAIN p
    BY <1>1, <1>3 DEF Generals
  <2> QED BY <1>3, <2>1
<1> QED BY <1>2, <1>3

LEMMA ImpliedBy ==
  ASSUME NEW x, IsPattern(x), NEW c \in DOMAIN x, NEW all \in BOOLEAN
  PROVE  Implied(all, x, c) <=>
           \/ \E q : /\ General(q, Without(x, c)) /\ q # Without(x, c) /\ Follows(q, c, x[c])
                    /\ (all \/ DOMAIN q # DOMAIN Without(x, c))
           \/ \E d \in DOMAIN x \ {c} : \E q : General(q, Without(Without(x, c), d)) /\ Follows(q, d, x[d])
<1>1. ASSUME NEW q
      PROVE  q \in Generals(all, Without(x, c)) <=>
               General(q, Without(x, c)) /\ q # Without(x, c) /\ (all \/ DOMAIN q # DOMAIN Without(x, c))
  BY WithoutPattern, GeneralsAre
<1>2. ASSUME NEW d, NEW q
      PROVE  q \in AtLeastAsGeneral(Without(Without(x, c), d)) <=> General(q, Without(Without(x, c), d))
  BY WithoutPattern, GeneralIs
<1> QED BY <1>1, <1>2 DEF Implied

\* What is implied by those of fewer columns is implied.
LEMMA ImpliedByFewer ==
  ASSUME NEW x, IsPattern(x), NEW c \in DOMAIN x, NEW all \in BOOLEAN, ~Implied(all, x, c)
  PROVE  ~Implied(FALSE, x, c)
BY ImpliedBy

\* What takes a candidate away below takes it away above.
LEMMA GoneRises ==
  ASSUME NEW p, IsPattern(p), NEW d, NEW a, Gone(Without(p, d), a)
  PROVE  Gone(p, a)
<1> DEFINE w == Without(p, d)
<1>0. IsPattern(w) /\ DOMAIN w = DOMAIN p \ {d} /\ \A e \in DOMAIN p \ {d} : w[e] = p[e]
  BY WithoutPattern, WithoutIs
<1>1. General(w, p)
  BY GeneralSelf, WithoutGeneral DEF IsPattern
<1> HIDE DEF w
<1>2. PICK c \in DOMAIN w : \E q : General(q, Without(w, c)) /\ Follows(q, c, w[c]) /\ a[1] \notin DOMAIN q
  BY <1>0, GoneBy DEF w
<1>3. PICK q : General(q, Without(w, c)) /\ Follows(q, c, w[c]) /\ a[1] \notin DOMAIN q
  BY <1>2
<1>4. General(q, Without(p, c))
  <2>1. General(Without(w, c), Without(p, c))
    BY <1>1, WithoutGeneral
  <2> QED BY <1>3, <2>1, GeneralTransitive
<1> QED BY <1>0, <1>3, <1>4, GoneBy

LEMMA RestStarts ==
  ASSUME NEW p, IsPattern(p)
  PROVE  Rest(p) \subseteq Start(p)
<1> SUFFICES ASSUME NEW a \in Rest(p), NEW d \in DOMAIN p PROVE a \in Rest(Without(p, d))
  BY DEF Start, Rest
<1>1. ~Gone(Without(p, d), a)
  BY GoneRises DEF Rest
<1>2. Fits(Without(p, d), a)
  <2>1. DOMAIN Without(p, d) = DOMAIN p \ {d} /\ \A e \in DOMAIN p \ {d} : Without(p, d)[e] = p[e]
    BY WithoutIs
  <2> QED BY <2>1 DEF Fits, Rest
<1> QED BY <1>1, <1>2 DEF Rest

LEMMA SinglesHas ==
  ASSUME TableInv, NEW x, IsPattern(x), Frequent(x), NEW c \in DOMAIN x
  PROVE  <<c, x[c]>> \in Singles /\ Fits(x, <<c, x[c]>>)
<1>1. c \in Columns /\ x[c] \in {Unnamed} \cup Known(c) /\ x[c] \in Nat
  BY KnownTyped DEF IsPattern, Unnamed
<1>2. General(Only(c, x[c]), x)
  BY DEF General, Only
<1>3. Frequent(Only(c, x[c]))
  BY <1>2, FrequentGeneral
<1> QED BY <1>1, <1>3 DEF Singles, Fits

\* A dependency that nothing implies is a candidate at the start of its level.
LEMMA NotImpliedStarts ==
  ASSUME TableInv, NEW x, IsPattern(x), Frequent(x), NEW c \in DOMAIN x, ~Implied(FALSE, x, c)
  PROVE  <<c, x[c]>> \in Start(x)
<1> DEFINE a == <<c, x[c]>>
<1>0. a \in Singles /\ Fits(x, a)
  BY SinglesHas
<1>1. ASSUME NEW d \in DOMAIN x PROVE a \in Rest(Without(x, d))
  <2> DEFINE w == Without(x, d)
  <2>1. IsPattern(w) /\ DOMAIN w = DOMAIN x \ {d} /\ (\A e \in DOMAIN x \ {d} : w[e] = x[e])
    BY WithoutPattern, WithoutIs
  <2> HIDE DEF w
  <2>2. Fits(w, a)
    BY <2>1 DEF Fits
  <2>3. ASSUME Gone(w, a) PROVE FALSE
    <3>1. PICK e \in DOMAIN w : \E q : General(q, Without(w, e)) /\ Follows(q, e, w[e]) /\ a[1] \notin DOMAIN q
      BY <2>1, <2>3, GoneBy
    <3>2. PICK q : General(q, Without(w, e)) /\ Follows(q, e, w[e]) /\ c \notin DOMAIN q
      BY <3>1
    <3>3. General(q, w)
      <4>1. General(Without(w, e), w)
        BY <2>1, GeneralSelf, WithoutGeneral DEF IsPattern
      <4> QED BY <3>2, <4>1, GeneralTransitive
    <3>4. General(q, x) /\ d \notin DOMAIN q /\ e \notin DOMAIN q /\ e \in DOMAIN x /\ w[e] = x[e] /\ e # d
      <4>1. General(w, x)
        BY GeneralSelf, WithoutGeneral DEF IsPattern, w
      <4>0. DOMAIN Without(w, e) = DOMAIN w \ {e}
        BY WithoutIs
      <4>2. DOMAIN q \subseteq DOMAIN w \ {e}
        BY <3>2, <4>0 DEF General
      <4> QED BY <2>1, <3>3, <4>1, <4>2, GeneralTransitive
    <3>5. General(q, Without(x, c)) /\ General(q, Without(Without(x, c), e))
      BY <3>2, <3>4, WithoutGeneral
    <3>6. CASE e = c
      <4>1. DOMAIN q # DOMAIN Without(x, c) /\ q # Without(x, c)
        <5>1. DOMAIN Without(x, c) = DOMAIN x \ {c}
          BY WithoutIs
        <5> QED BY <3>4, <3>6, <5>1
      <4> QED BY <3>2, <3>4, <3>5, <3>6, <4>1, ImpliedBy
    <3>7. CASE e # c
      BY <3>2, <3>4, <3>5, <3>7, ImpliedBy
    <3> QED BY <3>6, <3>7
  <2> QED BY <1>0, <2>2, <2>3 DEF Rest, w
<1> QED BY <1>0, <1>1 DEF Start

\* Nothing implies a dependency with a least left-hand side.
LEMMA LeastNotImplied ==
  ASSUME NEW x, IsPattern(x), NEW c \in DOMAIN x, Least(Without(x, c), c, x[c])
  PROVE  ~Implied(TRUE, x, c)
<1> DEFINE w == Without(x, c)
<1>1. IsPattern(w) /\ DOMAIN w = DOMAIN x \ {c} /\ (\A e \in DOMAIN x \ {c} : w[e] = x[e])
  BY WithoutPattern, WithoutIs
<1>2. Follows(w, c, x[c])
  BY DEF Least
<1>3. ASSUME NEW q, General(q, w), q # w, Follows(q, c, x[c]) PROVE FALSE
  <2>1. q \in AtLeastAsGeneral(w)
    BY <1>1, <1>3, GeneralIs
  <2> QED BY <1>3, <2>1 DEF Least
<1> HIDE DEF w
<1>4. ASSUME NEW d \in DOMAIN x \ {c}, NEW q, General(q, Without(w, d)), Follows(q, d, x[d])
      PROVE  FALSE
  <2>1. d \in DOMAIN w /\ w[d] = x[d] /\ DOMAIN w \subseteq Columns
    BY <1>1 DEF IsPattern
  <2>2. Follows(Without(w, d), c, x[c])
    BY <1>2, <1>4, <2>1, FollowsWithout
  <2>3. General(Without(w, d), w)
    BY <1>1, GeneralSelf, WithoutGeneral DEF IsPattern
  <2>4. Without(w, d) # w
    <3>1. DOMAIN Without(w, d) = DOMAIN w \ {d}
      BY WithoutIs
    <3> QED BY <2>1, <3>1
  <2> QED BY <1>3, <2>2, <2>3, <2>4
<1> QED BY <1>3, <1>4, ImpliedBy DEF w

-----------------------------------------------------------------------------
(* The order of a level. *)

LEMMA PatternTyped ==
  ASSUME TableInv, NEW p, IsPattern(p), NEW c \in DOMAIN p
  PROVE  c \in Columns /\ c \in Nat /\ p[c] \in Nat
BY KnownTyped DEF IsPattern, Columns, Unnamed

LEMMA MinOf ==
  ASSUME NEW S, S \subseteq Nat, S # {}
  PROVE  Min(S) \in S /\ \A x \in S : Min(S) <= x
BY SmallestNumber DEF Min

\* Of two patterns of the same columns the more general comes first.
LEMMA GeneralFirst ==
  ASSUME TableInv, NEW p, NEW q, IsPattern(p), IsPattern(q), DOMAIN p = DOMAIN q, General(q, p), q # p
  PROVE  Precedes(q, p)
<1> DEFINE diff == {c \in DOMAIN p : p[c] # q[c]}
<1>1. diff # {}
  BY SamePattern DEF IsPattern
<1>2. diff \subseteq Nat /\ \A c \in DOMAIN p : p[c] \in Nat /\ q[c] \in Nat /\ c \in Nat
  BY PatternTyped
<1>3. PICK m \in diff : \A x \in diff : m <= x
  BY <1>1, <1>2, SmallestNumber
<1>4. \A d \in DOMAIN q : d < m => q[d] = p[d]
  BY <1>2, <1>3
<1>5. q[m] < p[m]
  BY <1>2, <1>3 DEF General, Unnamed
<1> QED BY <1>3, <1>4, <1>5 DEF Precedes

-----------------------------------------------------------------------------
(* Indexes. *)

LEMMA SameOwn ==
  ASSUME NEW p, NEW r, NEW s \in Same(p, r)
  PROVE  Same(p, s) = Same(p, r)
BY DEF Same, Agree

LEMMA PartIs ==
  ASSUME TableInv, NEW p
  PROVE  /\ UNION Part(p) = Matching(p) /\ Matching(p) \in SUBSET Tuples
         /\ \A g \in Part(p) : /\ g \in SUBSET Matching(p) /\ g # {} /\ IsFiniteSet(g) /\ g \subseteq Nat
                               /\ \A s \in g : g = Same(p, s)
         /\ \A g, h \in Part(p) : g # h => g \cap h = {}
         /\ IsFiniteSet(Part(p)) /\ Size(Part(p)) = Cardinality(Matching(p))
<1>1. Matching(p) \in SUBSET Tuples
  BY DEF Matching
<1>2. ASSUME NEW r \in Matching(p) PROVE r \in Same(p, r)
  BY DEF Same, Agree
<1>3. UNION Part(p) = Matching(p)
  BY <1>2 DEF Part, Same
<1>4. ASSUME NEW g \in Part(p)
      PROVE  /\ g \in SUBSET Matching(p) /\ g # {} /\ IsFiniteSet(g) /\ g \subseteq Nat
             /\ \A s \in g : g = Same(p, s)
  <2>1. PICK r \in Matching(p) : g = Same(p, r)
    BY DEF Part
  <2>2. \A s \in g : g = Same(p, s)
    BY <2>1, SameOwn
  <2>3. g \in SUBSET Matching(p) /\ g # {}
    BY <1>2, <2>1 DEF Same
  <2> QED BY <1>1, <2>2, <2>3, RowsFinite
<1>5. ASSUME NEW g \in Part(p), NEW h \in Part(p), g # h PROVE g \cap h = {}
  BY <1>4, <1>5
<1>6. IsFiniteSet(Part(p))
  <2>1. IsFiniteSet(SUBSET Matching(p))
    BY <1>1, RowsFinite, FS_SUBSET
  <2>2. Part(p) \in SUBSET (SUBSET Matching(p))
    BY <1>4
  <2> QED BY <2>1, <2>2, FS_Subset
<1> QED BY <1>1, <1>3, <1>4, <1>5, <1>6 DEF Size

\* The indexes of two parents make that of the pattern.
LEMMA PartOfTwo ==
  ASSUME NEW x, NEW c \in DOMAIN x, NEW d \in DOMAIN x, c # d
  PROVE  Intersect(Part(Without(x, c)), Part(Without(x, d))) = Part(x)
<1> DEFINE u == Without(x, c)
           w == Without(x, d)
<1>1. /\ DOMAIN u = DOMAIN x \ {c} /\ (\A e \in DOMAIN x \ {c} : u[e] = x[e])
      /\ DOMAIN w = DOMAIN x \ {d} /\ (\A e \in DOMAIN x \ {d} : w[e] = x[e])
  BY WithoutIs
<1> HIDE DEF u, w
<1>2. Matching(u) \cap Matching(w) = Matching(x)
  BY <1>1 DEF Matching, Matches
<1>3. ASSUME NEW t \in Matching(x) PROVE Same(u, t) \cap Same(w, t) = Same(x, t)
  BY <1>1, <1>2 DEF Same, Agree
<1>4. ASSUME NEW g \in Part(x) PROVE g \in Intersect(Part(u), Part(w))
  <2>1. PICK t \in Matching(x) : g = Same(x, t)
    BY DEF Part
  <2>2. Same(u, t) \in Part(u) /\ Same(w, t) \in Part(w) /\ t \in g
    BY <1>2, <2>1 DEF Part, Same, Agree
  <2> QED BY <1>3, <2>1, <2>2 DEF Intersect
<1>5. ASSUME NEW g \in Intersect(Part(u), Part(w)) PROVE g \in Part(x)
  <2>1. PICK r \in Matching(u), s \in Matching(w) : g = Same(u, r) \cap Same(w, s) /\ g # {}
    BY DEF Intersect, Part
  <2>2. PICK t \in g : TRUE
    BY <2>1
  <2>3. t \in Matching(x) /\ Same(u, t) = Same(u, r) /\ Same(w, t) = Same(w, s)
    BY <1>2, <2>1, <2>2, SameOwn DEF Same
  <2> QED BY <1>3, <2>1, <2>3 DEF Part
<1> QED BY <1>4, <1>5 DEF u, w

LEMMA OnlyIs ==
  ASSUME NEW c, NEW v
  PROVE  Only(c, v) = [d \in DOMAIN Only(c, v) |-> Only(c, v)[d]] /\ DOMAIN Only(c, v) = {c} /\ Only(c, v)[c] = v
BY DEF Only

LEMMA OnlyPattern ==
  ASSUME NEW c \in Columns, NEW v \in {Unnamed} \cup Known(c)
  PROVE  IsPattern(Only(c, v))
<1> DEFINE p == Only(c, v)
<1>1. p = [d \in DOMAIN p |-> p[d]] /\ DOMAIN p = {c} /\ p[c] = v
  BY OnlyIs
<1> HIDE DEF p
<1>2. IsPattern(p)
  BY <1>1 DEF IsPattern
<1> QED BY <1>2 DEF p

LEMMA CreatedFor ==
  ASSUME TableInv, NEW c \in Columns
  PROVE  /\ DOMAIN CreateFor(c) = {v \in {Unnamed} \cup Known(c) : Frequent(Only(c, v))}
         /\ \A v \in DOMAIN CreateFor(c) : CreateFor(c)[v] = Part(Only(c, v))
<1> DEFINE all == {ValueCluster(c, v) : v \in Known(c)}
           enough == {v \in Known(c) : Cardinality(ValueCluster(c, v)) >= minSup}
           o(v) == Only(c, v)
<1>1. ASSUME NEW v PROVE Matching(o(v)) = {r \in Tuples : table[r][c] # Null /\ v \in {Unnamed, table[r][c]}}
  <2>1. DOMAIN o(v) = {c} /\ o(v)[c] = v
    BY OnlyIs
  <2> QED BY <2>1 DEF Matching, Matches
<1>2. ASSUME NEW v PROVE \A r \in Tuples : Same(o(v), r) = {s \in Matching(o(v)) : table[s][c] = table[r][c]}
  <2>1. DOMAIN o(v) = {c}
    BY OnlyIs
  <2> QED BY <2>1 DEF Same, Agree
<1> HIDE DEF o
<1>3. Null \notin Known(c) /\ Unnamed \notin Known(c)
  BY KnownTyped DEF Unnamed
<1>4. ASSUME NEW v \in Known(c) PROVE Matching(o(v)) = ValueCluster(c, v) /\ Part(o(v)) = {ValueCluster(c, v)}
  <2>1. Matching(o(v)) = ValueCluster(c, v)
    BY <1>1, <1>3, <1>4 DEF ValueCluster
  <2>2. \A r \in Matching(o(v)) : Same(o(v), r) = ValueCluster(c, v)
    BY <1>2, <2>1 DEF ValueCluster
  <2>3. ValueCluster(c, v) # {}
    BY <1>4 DEF ValueCluster, Known
  <2> QED BY <2>1, <2>2, <2>3 DEF Part
<1>5. UNION all = Matching(o(Unnamed)) /\ Part(o(Unnamed)) = all
  <2>1. Matching(o(Unnamed)) = {r \in Tuples : table[r][c] # Null}
    BY <1>1
  <2>2. UNION all = Matching(o(Unnamed))
    BY <2>1, <1>3 DEF ValueCluster, Known
  <2>3. ASSUME NEW r \in Matching(o(Unnamed))
        PROVE  table[r][c] \in Known(c) /\ Same(o(Unnamed), r) = ValueCluster(c, table[r][c])
    BY <1>2, <2>1 DEF ValueCluster, Known
  <2>4. ASSUME NEW v \in Known(c) PROVE \E r \in Matching(o(Unnamed)) : table[r][c] = v
    BY <2>1 DEF Known
  <2> QED BY <2>2, <2>3, <2>4 DEF Part
<1>6. ASSUME NEW v, Frequent(o(v)) PROVE Size(all) >= minSup
  <2>1. Matching(o(v)) \subseteq Matching(o(Unnamed)) /\ Matching(o(Unnamed)) \in SUBSET Tuples
    BY <1>1 DEF Unnamed
  <2>2. Cardinality(Matching(o(v))) <= Cardinality(Matching(o(Unnamed)))
    BY <2>1, RowsFinite, FS_Subset
  <2>3. Cardinality(Matching(o(v))) \in Nat /\ Cardinality(Matching(o(Unnamed))) \in Nat /\ minSup \in Nat
    BY <2>1, RowsFinite DEF TableInv
  <2>4. Size(all) = Cardinality(Matching(o(Unnamed))) /\ minSup <= Cardinality(Matching(o(v)))
    BY <1>5, <1>6, <2>3 DEF Frequent, Size
  <2> HIDE DEF all
  <2> QED BY <2>2, <2>3, <2>4
<1>7. CASE Size(all) < minSup
  <2>1. CreateFor(c) = <<>>
    BY <1>7 DEF CreateFor
  <2>2. Size(all) \in Nat /\ minSup \in Nat
    <3>1. Matching(o(Unnamed)) \in SUBSET Tuples
      BY <1>1
    <3> QED BY <1>5, <3>1, RowsFinite DEF Size, TableInv
  <2>3. \A v : ~Frequent(o(v))
    BY <1>6, <1>7, <2>2
  <2> QED BY <2>1, <2>3 DEF o
<1>8. CASE ~(Size(all) < minSup)
  <2>1. CreateFor(c) = [v \in enough \cup {Unnamed} |-> IF v = Unnamed THEN all ELSE {ValueCluster(c, v)}]
    BY <1>8 DEF CreateFor
  <2>2. Size(all) \in Nat /\ minSup \in Nat
    <3>1. Matching(o(Unnamed)) \in SUBSET Tuples
      BY <1>1
    <3> QED BY <1>5, <3>1, RowsFinite DEF Size, TableInv
  <2>3. Frequent(o(Unnamed))
    BY <1>5, <1>8, <2>2 DEF Frequent, Size
  <2>4. \A v \in Known(c) : v \in enough <=> Frequent(o(v))
    BY <1>4 DEF Frequent
  <2>5. DOMAIN CreateFor(c) = {v \in {Unnamed} \cup Known(c) : Frequent(o(v))}
    BY <2>1, <2>3, <2>4
  <2>6. \A v \in DOMAIN CreateFor(c) : CreateFor(c)[v] = Part(o(v))
    BY <1>3, <1>4, <1>5, <2>1
  <2> QED BY <2>5, <2>6 DEF o
<1> QED BY <1>7, <1>8

-----------------------------------------------------------------------------
(* Sums, as MapThenSumSet computes them: element by element. *)

SumStep(f, sum, T) ==
  IF T = {} THEN 0 ELSE f[CHOOSE x \in T : TRUE] + sum[T \ {CHOOSE x \in T : TRUE}]

IsSum(sum, f, S) == sum = [T \in SUBSET S |-> SumStep(f, sum, T)]

\* A function does compute the sums over all subsets: those of n elements come from
\* those of fewer.
LEMMA SumExists ==
  ASSUME NEW S, IsFiniteSet(S), NEW f
  PROVE  \E sum : IsSum(sum, f, S)
<1> DEFINE Upto(n) == {T \in SUBSET S : Cardinality(T) <= n}
           Computed(n) == \E sum : sum = [T \in Upto(n) |-> SumStep(f, sum, T)]
           lacking == {n \in Nat : ~Computed(n)}
<1>0. \A T \in SUBSET S : IsFiniteSet(T) /\ Cardinality(T) \in Nat /\ Cardinality(T) <= Cardinality(S)
  BY FS_Subset, FS_CardinalityType
<1>1. lacking = {}
  <2> SUFFICES ASSUME lacking # {} PROVE FALSE
    OBVIOUS
  <2>1. PICK n \in lacking : \A m \in lacking : n <= m
    BY SmallestNumber
  <2>2. n \in Nat /\ ~Computed(n)
    BY <2>1
  <2>3. CASE n = 0
    <3>1. \A T \in Upto(0) : T = {}
      BY <1>0, FS_EmptySet
    <3> DEFINE sum == [T \in Upto(0) |-> 0]
    <3>2. \A T \in Upto(0) : SumStep(f, sum, T) = 0
      BY <3>1 DEF SumStep
    <3>3. sum = [T \in Upto(0) |-> SumStep(f, sum, T)]
      BY <3>2
    <3> QED BY <2>2, <2>3, <3>3
  <2>4. CASE n # 0
    <3>1. n - 1 \in Nat /\ Computed(n - 1)
      <4> HIDE DEF Computed
      <4>1. n - 1 \in Nat /\ ~(n <= n - 1)
        BY <2>2, <2>4
      <4>2. n - 1 \notin lacking
        BY <2>1, <4>1
      <4> QED BY <4>1, <4>2
    <3>2. PICK less : less = [T \in Upto(n - 1) |-> SumStep(f, less, T)]
      BY <3>1
    <3> DEFINE sum == [T \in Upto(n) |-> SumStep(f, less, T)]
    <3>3. ASSUME NEW T \in Upto(n - 1) PROVE T \in Upto(n) /\ sum[T] = less[T]
      <4>1. T \in Upto(n)
        BY <1>0, <2>2, <3>3
      <4> QED BY <3>2, <3>3, <4>1
    <3>4. ASSUME NEW T \in Upto(n) PROVE SumStep(f, sum, T) = SumStep(f, less, T)
      <4>1. CASE T = {}
        BY <4>1 DEF SumStep
      <4>2. CASE T # {}
        <5> DEFINE x == CHOOSE x \in T : TRUE
        <5>1. x \in T
          BY <4>2
        <5>2. Cardinality(T \ {x}) = Cardinality(T) - 1
          BY <1>0, <5>1, FS_RemoveElement
        <5>3. T \ {x} \in Upto(n - 1)
          BY <1>0, <2>2, <5>2
        <5>4. sum[T \ {x}] = less[T \ {x}]
          BY <3>3, <5>3
        <5> HIDE DEF sum
        <5> QED BY <4>2, <5>4 DEF SumStep
      <4> QED BY <4>1, <4>2
    <3>5. sum = [T \in Upto(n) |-> SumStep(f, sum, T)]
      BY <3>4
    <3> QED BY <2>2, <3>5
  <2> QED BY <2>3, <2>4
<1>2. Cardinality(S) \in Nat
  BY FS_CardinalityType
<1>3. Computed(Cardinality(S))
  BY <1>1, <1>2
<1>4. Upto(Cardinality(S)) = SUBSET S
  BY <1>0
<1> QED BY <1>3, <1>4 DEF IsSum

Joint(part, S) == UNION {part[g] : g \in S}

\* The sum of the sizes of disjoint sets is the size of their union.
LEMMA SumOfParts ==
  ASSUME NEW S, IsFiniteSet(S), NEW part, NEW f, NEW sum, IsSum(sum, f, S),
         \A g \in S : IsFiniteSet(part[g]) /\ f[g] = Cardinality(part[g]),
         \A g, h \in S : g # h => part[g] \cap part[h] = {}
  PROVE  IsFiniteSet(Joint(part, S)) /\ sum[S] = Cardinality(Joint(part, S))
<1> DEFINE All(T) == Joint(part, T)
           Right(T) == IsFiniteSet(All(T)) /\ sum[T] = Cardinality(All(T))
           wrong == {n \in Nat : \E T \in SUBSET S : Cardinality(T) = n /\ ~Right(T)}
<1>0. \A T \in SUBSET S : IsFiniteSet(T) /\ Cardinality(T) \in Nat
  BY FS_Subset, FS_CardinalityType
<1>1. wrong = {}
  <2> SUFFICES ASSUME wrong # {} PROVE FALSE
    OBVIOUS
  <2>1. PICK n \in wrong : \A m \in wrong : n <= m
    BY SmallestNumber
  <2>2. PICK T \in SUBSET S : Cardinality(T) = n /\ ~Right(T)
    BY <2>1
  <2>3. CASE T = {}
    <3>1. All(T) = {} /\ sum[T] = 0
      BY <2>3 DEF IsSum, SumStep, Joint
    <3> QED BY <2>2, <3>1, FS_EmptySet
  <2>4. CASE T # {}
    <3> DEFINE x == CHOOSE x \in T : TRUE
               U == T \ {x}
    <3>1. x \in T /\ U \in SUBSET S
      BY <2>4
    <3>2. sum[T] = Cardinality(part[x]) + sum[U]
      BY <2>4, <3>1 DEF IsSum, SumStep
    <3> HIDE DEF x
    <3>3. Right(U)
      <4>1. Cardinality(U) = n - 1 /\ n \in Nat /\ n - 1 \in Nat
        <5>1. IsFiniteSet(T) /\ Cardinality(T) \in Nat /\ Cardinality(U) \in Nat
          BY <1>0, <3>1
        <5>2. Cardinality(T \ {x}) = Cardinality(T) - 1
          BY <3>1, <5>1, FS_RemoveElement
        <5> QED BY <2>2, <5>1, <5>2
      <4> HIDE DEF U, Right
      <4>2. n - 1 \notin wrong
        BY <2>1, <4>1
      <4> QED BY <3>1, <4>1, <4>2
    <3>4. All(T) = part[x] \cup All(U)
      BY <3>1 DEF Joint
    <3>5. part[x] \cap All(U) = {}
      BY <3>1 DEF Joint
    <3>6. IsFiniteSet(part[x]) /\ IsFiniteSet(All(U)) /\ sum[U] = Cardinality(All(U))
      BY <3>1, <3>3
    <3> HIDE DEF All, U
    <3>7. /\ IsFiniteSet(All(T))
          /\ Cardinality(All(T)) = Cardinality(part[x]) + Cardinality(All(U)) - Cardinality({})
      BY <3>4, <3>5, <3>6, FS_Union
    <3>8. Cardinality(part[x]) \in Nat /\ Cardinality(All(U)) \in Nat /\ Cardinality({}) = 0
      BY <3>6, FS_CardinalityType, FS_EmptySet
    <3> QED BY <2>2, <3>2, <3>6, <3>7, <3>8
  <2> QED BY <2>3, <2>4
<1>2. Cardinality(S) \in Nat /\ S \in SUBSET S
  BY <1>0
<1> QED BY <1>1, <1>2

LEMMA SumOfSizes ==
  ASSUME NEW f, IsFiniteSet(DOMAIN f), NEW part,
         \A g \in DOMAIN f : IsFiniteSet(part[g]) /\ f[g] = Cardinality(part[g]),
         \A g, h \in DOMAIN f : g # h => part[g] \cap part[h] = {}
  PROVE  SumFunction(f) = Cardinality(Joint(part, DOMAIN f))
<1> DEFINE S == DOMAIN f
           sum == CHOOSE sum : sum = [T \in SUBSET S |-> SumStep(f, sum, T)]
<1>1. SumFunction(f) = sum[S]
  BY DEF SumFunction, SumFunctionOnSet, FoldFunctionOnSet, MapThenFoldSet, SumStep
<1>2. \E i : i = [T \in SUBSET S |-> SumStep(f, i, T)]
  <2>1. PICK i : IsSum(i, f, S)
    BY SumExists
  <2> QED BY <2>1 DEF IsSum
<1>3. IsSum(sum, f, S)
  BY <1>2 DEF IsSum
<1> HIDE DEF sum
<1> QED BY <1>1, <1>3, SumOfParts

LEMMA MaxOf ==
  ASSUME NEW S, S \subseteq Nat, S # {}, NEW n \in Nat, \A x \in S : x <= n
  PROVE  Max(S) \in S /\ \A x \in S : x <= Max(S)
<1> DEFINE rest == {n - x : x \in S}
<1>0. \A x \in S : n - x \in Nat
  OBVIOUS
<1>1. rest \subseteq Nat /\ rest # {}
  BY <1>0
<1>2. PICK d \in rest : \A e \in rest : d <= e
  <2> HIDE DEF rest
  <2> QED BY <1>1, SmallestNumber
<1>3. PICK x \in S : d = n - x
  BY <1>2
<1>4. ASSUME NEW y \in S PROVE y <= x
  <2>1. n - y \in rest
    OBVIOUS
  <2>2. n - x <= n - y /\ x \in Nat /\ y \in Nat
    BY <1>2, <1>3, <2>1
  <2> QED BY <2>2
<1> QED BY <1>4 DEF Max

-----------------------------------------------------------------------------
(* Confidence. *)

\* Of a cluster, the rows with one value on the right-hand side.
Chosen(g, x, c, v) == {s \in g : Matches(s, x) /\ table[s][c] = v}
Counts(g, x, c) == {0} \cup {Cardinality(Chosen(g, x, c, v)) : v \in Known(c)}
Most(g, x, c) == Max(Counts(g, x, c))

LEMMA MostIs ==
  ASSUME TableInv, NEW p, NEW g \in Part(p), NEW x, NEW c
  PROVE  /\ Most(g, x, c) \in Counts(g, x, c) /\ \A n \in Counts(g, x, c) : n <= Most(g, x, c)
         /\ \E h \in SUBSET g : Cardinality(h) = Most(g, x, c)
<1>1. IsFiniteSet(g) /\ Cardinality(g) \in Nat
  BY PartIs, FS_CardinalityType
<1>2. ASSUME NEW v PROVE /\ Chosen(g, x, c, v) \in SUBSET g
                         /\ Cardinality(Chosen(g, x, c, v)) \in Nat
                         /\ Cardinality(Chosen(g, x, c, v)) <= Cardinality(g)
  <2>1. Chosen(g, x, c, v) \in SUBSET g
    BY DEF Chosen
  <2> QED BY <1>1, <2>1, FS_Subset, FS_CardinalityType
<1>3. Counts(g, x, c) \subseteq Nat /\ Counts(g, x, c) # {} /\ \A n \in Counts(g, x, c) : n <= Cardinality(g)
  BY <1>1, <1>2 DEF Counts
<1>4. Most(g, x, c) \in Counts(g, x, c) /\ \A n \in Counts(g, x, c) : n <= Most(g, x, c)
  BY <1>1, <1>3, MaxOf DEF Most
<1>5. \A n \in Counts(g, x, c) : \E h \in SUBSET g : Cardinality(h) = n
  <2>1. {} \in SUBSET g /\ Cardinality({}) = 0
    BY FS_EmptySet
  <2> QED BY <1>2, <2>1 DEF Counts
<1> QED BY <1>4, <1>5

\* The rows that are kept, cluster by cluster.
Kept(q, x, c) == [g \in Part(q) |-> CHOOSE h \in SUBSET g : Cardinality(h) = Most(g, x, c)]

LEMMA KeptIs ==
  ASSUME TableInv, NEW q, NEW x, NEW c, NEW g \in Part(q)
  PROVE  /\ Kept(q, x, c)[g] \in SUBSET g /\ Cardinality(Kept(q, x, c)[g]) = Most(g, x, c)
         /\ IsFiniteSet(Kept(q, x, c)[g])
<1>1. Kept(q, x, c)[g] \in SUBSET g /\ Cardinality(Kept(q, x, c)[g]) = Most(g, x, c)
  BY MostIs DEF Kept
<1>2. IsFiniteSet(g)
  BY PartIs
<1> QED BY <1>1, <1>2, FS_Subset

LEMMA MostKeptIs ==
  ASSUME TableInv, NEW q, NEW c
  PROVE  MostKept(q, <<c, Unnamed>>) = Cardinality(Joint(Kept(q, With(q, <<c, Unnamed>>), c), Part(q)))
<1> DEFINE x == With(q, <<c, Unnamed>>)
           part == Kept(q, x, c)
           f == [g \in Part(q) |-> Most(g, x, c)]
<1>1. MostKept(q, <<c, Unnamed>>) = SumFunction(f)
  BY DEF MostKept, Part, Same, Agree, Most, Counts, Chosen
<1> HIDE DEF x
<1>2. \A g \in Part(q) : IsFiniteSet(part[g]) /\ f[g] = Cardinality(part[g]) /\ part[g] \in SUBSET g
  BY KeptIs
<1> HIDE DEF part
<1>3. DOMAIN f = Part(q) /\ IsFiniteSet(Part(q)) /\ \A g, h \in Part(q) : g # h => part[g] \cap part[h] = {}
  BY <1>2, PartIs
<1> HIDE DEF f
<1>4. SumFunction(f) = Cardinality(Joint(part, DOMAIN f))
  BY <1>2, <1>3, SumOfSizes
<1> QED BY <1>1, <1>3, <1>4 DEF part, x

\* The clusters of a pattern in a cluster of its parent, each known by its last row.
LEMMA SizesAreCounts ==
  ASSUME TableInv, NEW x, NEW c \in DOMAIN x, x[c] = Unnamed, NEW g \in Part(Without(x, c))
  PROVE  {Cardinality(h) : h \in {k \in Part(x) : Max(k) \in g}} \cup {0} = Counts(g, x, c)
<1> DEFINE w == Without(x, c)
           inside == {k \in Part(x) : Max(k) \in g}
<1>0. DOMAIN w = DOMAIN x \ {c} /\ Matching(x) = {r \in Matching(w) : table[r][c] # Null}
  <2>1. Matching(x) = {r \in Matching(w) : table[r][c] # Null /\ x[c] \in {Unnamed, table[r][c]}}
    BY MatchColumn
  <2>2. DOMAIN w = DOMAIN x \ {c}
    BY WithoutIs
  <2> HIDE DEF w
  <2> QED BY <2>1, <2>2
<1>1. g \in SUBSET Matching(w) /\ \A s \in g : g = Same(w, s)
  BY PartIs
<1> HIDE DEF w
<1>2. ASSUME NEW r \in Matching(x) PROVE Same(x, r) = {s \in Same(w, r) : table[s][c] # Null /\ table[s][c] = table[r][c]}
  BY <1>0 DEF Same, Agree
<1>3. ASSUME NEW r \in g, NEW v PROVE r \in Chosen(g, x, c, v) <=> r \in Matching(x) /\ table[r][c] = v
  BY <1>1, <1>0 DEF Chosen, Matching
<1>4. ASSUME NEW k \in inside PROVE \E v \in Known(c) : k = Chosen(g, x, c, v)
  <2>1. Max(k) \in k
    <3>1. IsFiniteSet(k) /\ k # {} /\ k \subseteq Nat /\ k \in SUBSET Tuples
      BY PartIs
    <3>2. Len(table) \in Nat /\ \A r \in k : r <= Len(table)
      BY <3>1 DEF Tuples, TableInv
    <3> QED BY <3>1, <3>2, MaxOf
  <2>2. PICK r \in k : r \in g
    BY <2>1
  <2>3. r \in Matching(x) /\ k = Same(x, r) /\ g = Same(w, r) /\ r \in Tuples
    BY <1>1, <2>2, PartIs
  <2>4. table[r][c] \in Known(c)
    BY <1>0, <2>3 DEF Known
  <2>5. k = Chosen(g, x, c, table[r][c])
    BY <1>0, <1>2, <1>3, <2>3 DEF Same, Chosen
  <2> QED BY <2>4, <2>5
<1>5. ASSUME NEW v \in Known(c), Chosen(g, x, c, v) # {} PROVE Chosen(g, x, c, v) \in inside
  <2>1. PICK r \in Chosen(g, x, c, v) : TRUE
    BY <1>5
  <2>2. r \in g /\ r \in Matching(x) /\ table[r][c] = v /\ g = Same(w, r)
    BY <1>1, <1>3, <2>1 DEF Chosen
  <2>3. Chosen(g, x, c, v) = Same(x, r)
    BY <1>0, <1>2, <1>3, <2>2 DEF Same, Chosen
  <2> DEFINE k == Chosen(g, x, c, v)
  <2>4. k \in Part(x)
    BY <2>2, <2>3 DEF Part
  <2>5. Max(k) \in k
    <3>1. IsFiniteSet(k) /\ k # {} /\ k \subseteq Nat /\ k \in SUBSET Tuples
      BY <2>4, PartIs
    <3>2. Len(table) \in Nat /\ \A s \in k : s <= Len(table)
      BY <3>1 DEF Tuples, TableInv
    <3> HIDE DEF k
    <3> QED BY <3>1, <3>2, MaxOf
  <2>6. k \subseteq g
    BY DEF Chosen
  <2> QED BY <2>4, <2>5, <2>6
<1>6. Cardinality({}) = 0
  BY FS_EmptySet
<1>7. ASSUME NEW v \in Known(c) PROVE Cardinality(Chosen(g, x, c, v)) \in {Cardinality(h) : h \in inside} \cup {0}
  BY <1>5, <1>6
<1>8. ASSUME NEW k \in inside PROVE Cardinality(k) \in Counts(g, x, c)
  BY <1>4 DEF Counts
<1> QED BY <1>7, <1>8 DEF Counts

LEMMA PartitionErrorIs ==
  ASSUME TableInv, NEW x, NEW c \in DOMAIN x, x[c] = Unnamed
  PROVE  PartitionError(Part(Without(x, c)), Part(x))
           = Cardinality(Joint([g \in Part(Without(x, c)) |-> g \ Kept(Without(x, c), x, c)[g]], Part(Without(x, c))))
<1> DEFINE w == Without(x, c)
           kept == Kept(w, x, c)
           part == [g \in Part(w) |-> g \ kept[g]]
           f == [g \in Part(w) |-> Cardinality(g) - Max({Cardinality(h) : h \in {k \in Part(x) : Max(k) \in g}} \cup {0})]
<1>1. PartitionError(Part(w), Part(x)) = SumFunction(f)
  BY DEF PartitionError
<1>2. ASSUME NEW g \in Part(w) PROVE IsFiniteSet(part[g]) /\ f[g] = Cardinality(part[g]) /\ part[g] \in SUBSET g
  <2>1. f[g] = Cardinality(g) - Most(g, x, c)
    BY SizesAreCounts DEF Most
  <2>2. kept[g] \in SUBSET g /\ Cardinality(kept[g]) = Most(g, x, c) /\ IsFiniteSet(g)
    BY KeptIs, PartIs
  <2> HIDE DEF kept, f
  <2>3. kept[g] = g \cap kept[g]
    BY <2>2
  <2>4. IsFiniteSet(g \ kept[g]) /\ Cardinality(g \ kept[g]) = Cardinality(g) - Cardinality(g \cap kept[g])
    BY <2>2, FS_Difference
  <2> QED BY <2>1, <2>2, <2>3, <2>4
<1> HIDE DEF part
<1>3. DOMAIN f = Part(w) /\ IsFiniteSet(Part(w)) /\ \A g, h \in Part(w) : g # h => part[g] \cap part[h] = {}
  <2>1. DOMAIN f = Part(w)
    OBVIOUS
  <2>2. IsFiniteSet(Part(w)) /\ \A g, h \in Part(w) : g # h => g \cap h = {}
    BY PartIs
  <2> HIDE DEF f, w
  <2> QED BY <1>2, <2>1, <2>2
<1> HIDE DEF f
<1>4. SumFunction(f) = Cardinality(Joint(part, DOMAIN f))
  BY <1>2, <1>3, SumOfSizes
<1> QED BY <1>1, <1>3, <1>4 DEF part

\* A column follows when all rows of each cluster can be kept.
LEMMA AllChosen ==
  ASSUME TableInv, NEW x, IsPattern(x), NEW c \in DOMAIN x, x[c] = Unnamed
  PROVE  (\A g \in Part(Without(x, c)) : Most(g, x, c) = Cardinality(g)) <=> Follows(Without(x, c), c, Unnamed)
<1> DEFINE w == Without(x, c)
<1>0. Matching(x) = {r \in Matching(w) : table[r][c] # Null}
  <2>1. Matching(x) = {r \in Matching(w) : table[r][c] # Null /\ x[c] \in {Unnamed, table[r][c]}}
    BY MatchColumn
  <2> HIDE DEF w
  <2> QED BY <2>1
<1> HIDE DEF w
<1>1. ASSUME NEW g \in Part(w)
      PROVE  /\ g \in SUBSET Matching(w) /\ g # {} /\ IsFiniteSet(g) /\ Cardinality(g) \in Nat \ {0}
             /\ \A s \in g : g = Same(w, s)
             /\ \A v : Chosen(g, x, c, v) = {s \in g : s \in Matching(x) /\ table[s][c] = v}
  <2>1. g \in SUBSET Matching(w) /\ g # {} /\ IsFiniteSet(g) /\ \A s \in g : g = Same(w, s)
    BY PartIs
  <2>2. Cardinality(g) \in Nat \ {0}
    BY <2>1, FS_CardinalityType, FS_EmptySet
  <2> QED BY <2>1, <2>2 DEF Chosen, Matching
<1>2. ASSUME NEW g \in Part(w), Most(g, x, c) = Cardinality(g)
      PROVE  \E v : g = Chosen(g, x, c, v)
  <2>1. Cardinality(g) \in Counts(g, x, c) /\ Cardinality(g) # 0
    BY <1>1, <1>2, MostIs
  <2>2. PICK v \in Known(c) : Cardinality(g) = Cardinality(Chosen(g, x, c, v))
    BY <2>1 DEF Counts
  <2>3. Chosen(g, x, c, v) \in SUBSET g
    BY DEF Chosen
  <2>4. Chosen(g, x, c, v) = g
    BY <1>1, <2>2, <2>3, FS_Subset
  <2> QED BY <2>4
<1>3. ASSUME \A g \in Part(w) : Most(g, x, c) = Cardinality(g) PROVE Follows(w, c, Unnamed)
  <2> SUFFICES ASSUME NEW r \in Matching(w)
               PROVE  /\ table[r][c] # Null
                      /\ \A s \in Matching(w) : Agree(DOMAIN w, r, s) => table[r][c] = table[s][c]
    BY DEF Follows
  <2> DEFINE g == Same(w, r)
  <2>1. g \in Part(w) /\ r \in g
    BY DEF Part, Same, Agree
  <2>2. PICK v : g = Chosen(g, x, c, v)
    BY <1>2, <1>3, <2>1
  <2>3. \A s \in g : s \in Matching(x) /\ table[s][c] = v
    BY <1>1, <2>1, <2>2
  <2> QED BY <1>0, <2>1, <2>3 DEF Same
<1>4. ASSUME Follows(w, c, Unnamed), NEW g \in Part(w) PROVE Most(g, x, c) = Cardinality(g)
  <2>1. PICK r \in g : g = Same(w, r) /\ r \in Matching(w) /\ r \in Tuples
    <3>1. Matching(w) \in SUBSET Tuples
      BY DEF Matching
    <3> QED BY <1>1, <3>1
  <2>2. \A s \in g : s \in Matching(w) /\ table[s][c] = table[r][c] /\ table[s][c] # Null
    BY <1>4, <2>1 DEF Follows, Same
  <2>3. table[r][c] \in Known(c)
    BY <2>1, <2>2 DEF Known
  <2>4. Chosen(g, x, c, table[r][c]) = g
    <3>1. \A s \in g : s \in Matching(x)
      BY <1>0, <2>2
    <3>2. Chosen(g, x, c, table[r][c]) = {s \in g : s \in Matching(x) /\ table[s][c] = table[r][c]}
      BY <1>1
    <3> QED BY <2>2, <3>1, <3>2
  <2>5. Cardinality(g) \in Counts(g, x, c)
    BY <2>3, <2>4 DEF Counts
  <2>6. Cardinality(g) <= Most(g, x, c)
    BY <2>5, MostIs
  <2>7. PICK h \in SUBSET g : Cardinality(h) = Most(g, x, c)
    BY MostIs
  <2>8. Cardinality(h) <= Cardinality(g) /\ Cardinality(h) \in Nat /\ Cardinality(g) \in Nat
    BY <1>1, FS_Subset, FS_CardinalityType
  <2> QED BY <2>6, <2>7, <2>8
<1> QED BY <1>3, <1>4 DEF w

LEMMA MostKeptUnnamed ==
  ASSUME TableInv, NEW x, IsPattern(x), NEW c \in DOMAIN x, x[c] = Unnamed
  PROVE  LET w == Without(x, c)
             most == MostKept(w, <<c, x[c]>>)
             all == Cardinality(Matching(w))
         IN  /\ most \in Nat /\ all \in Nat /\ most <= all
             /\ most = all <=> Follows(w, c, x[c])
             /\ Size(Part(w)) - PartitionError(Part(w), Part(x)) = most
<1> DEFINE w == Without(x, c)
           kept == Kept(w, x, c)
           lost == [g \in Part(w) |-> g \ kept[g]]
           K == Joint(kept, Part(w))
           L == Joint(lost, Part(w))
<1>1. MostKept(w, <<c, x[c]>>) = Cardinality(K)
  <2>1. With(w, <<c, x[c]>>) = x
    BY WithWithout DEF IsPattern
  <2>2. With(w, <<c, Unnamed>>) = x
    BY <2>1
  <2> HIDE DEF w
  <2>3. MostKept(w, <<c, Unnamed>>) = Cardinality(Joint(Kept(w, With(w, <<c, Unnamed>>), c), Part(w)))
    BY MostKeptIs
  <2> QED BY <2>2, <2>3
<1>2. PartitionError(Part(w), Part(x)) = Cardinality(L)
  BY PartitionErrorIs
<1>3. /\ UNION Part(w) = Matching(w) /\ Matching(w) \in SUBSET Tuples /\ Size(Part(w)) = Cardinality(Matching(w))
      /\ \A g, h \in Part(w) : g # h => g \cap h = {}
      /\ \A g \in Part(w) : IsFiniteSet(g)
  BY PartIs
<1>4. \A g \in Part(w) : kept[g] \in SUBSET g /\ Cardinality(kept[g]) = Most(g, x, c)
  BY KeptIs
<1> HIDE DEF kept
<1>5. K \cup L = Matching(w)
  BY <1>3, <1>4 DEF Joint
<1>6. K \cap L = {}
  <2> SUFFICES ASSUME NEW r \in K, r \in L PROVE FALSE
    OBVIOUS
  <2>1. PICK g \in Part(w) : r \in kept[g]
    BY DEF Joint
  <2>2. PICK h \in Part(w) : r \in h \ kept[h]
    BY DEF Joint
  <2>3. g = h
    BY <1>3, <1>4, <2>1, <2>2
  <2> QED BY <2>1, <2>2, <2>3
<1>7. K = Matching(w) <=> Follows(w, c, Unnamed)
  <2>1. K = Matching(w) <=> \A g \in Part(w) : kept[g] = g
    <3>1. ASSUME K = Matching(w), NEW g \in Part(w) PROVE kept[g] = g
      <4>1. ASSUME NEW r \in g PROVE r \in kept[g]
        <5>1. PICK h \in Part(w) : r \in kept[h]
          BY <1>3, <3>1 DEF Joint
        <5>2. g = h
          BY <1>3, <1>4, <5>1
        <5> QED BY <5>1, <5>2
      <4> QED BY <1>4, <4>1
    <3>2. ASSUME \A g \in Part(w) : kept[g] = g PROVE K = Matching(w)
      BY <1>3, <3>2 DEF Joint
    <3> QED BY <3>1, <3>2
  <2>2. ASSUME NEW g \in Part(w) PROVE kept[g] = g <=> Most(g, x, c) = Cardinality(g)
    BY <1>3, <1>4, FS_Subset
  <2>3. (\A g \in Part(w) : Most(g, x, c) = Cardinality(g)) <=> Follows(w, c, Unnamed)
    BY AllChosen
  <2> HIDE DEF w, K
  <2> QED BY <2>1, <2>2, <2>3
<1> HIDE DEF K, L, w
<1>8. IsFiniteSet(Matching(w)) /\ K \in SUBSET Matching(w) /\ IsFiniteSet(K) /\ IsFiniteSet(L)
  BY <1>3, <1>5, RowsFinite, FS_Subset
<1>9. /\ Cardinality(K) \in Nat /\ Cardinality(L) \in Nat /\ Cardinality(Matching(w)) \in Nat
      /\ Cardinality(Matching(w)) = Cardinality(K) + Cardinality(L)
      /\ Cardinality(K) = Cardinality(Matching(w)) => K = Matching(w)
  <2>1. Cardinality(K \cup L) = Cardinality(K) + Cardinality(L) - Cardinality(K \cap L)
    BY <1>8, FS_Union
  <2>2. Cardinality(K \cap L) = 0
    BY <1>6, FS_EmptySet
  <2>3. Cardinality(K) \in Nat /\ Cardinality(L) \in Nat /\ Cardinality(Matching(w)) \in Nat
    BY <1>8, FS_CardinalityType
  <2>4. Cardinality(K) = Cardinality(Matching(w)) => K = Matching(w)
    BY <1>8, FS_Subset
  <2>5. Cardinality(K \cup L) = Cardinality(Matching(w))
    BY <1>5
  <2>6. Cardinality(Matching(w)) = Cardinality(K) + Cardinality(L)
    BY <2>1, <2>2, <2>3, <2>5
  <2> QED BY <2>3, <2>4, <2>6
<1>10. /\ MostKept(w, <<c, x[c]>>) \in Nat /\ Cardinality(Matching(w)) \in Nat
       /\ MostKept(w, <<c, x[c]>>) <= Cardinality(Matching(w))
       /\ MostKept(w, <<c, x[c]>>) = Cardinality(Matching(w)) <=> Follows(w, c, x[c])
       /\ Size(Part(w)) - PartitionError(Part(w), Part(x)) = MostKept(w, <<c, x[c]>>)
  <2>1. Cardinality(K) = Cardinality(Matching(w)) <=> Follows(w, c, x[c])
    BY <1>7, <1>9
  <2>2. Cardinality(K) <= Cardinality(Matching(w)) /\ Cardinality(Matching(w)) - Cardinality(L) = Cardinality(K)
    BY <1>9
  <2> QED BY <1>1, <1>2, <1>3, <1>9, <2>1, <2>2
<1> QED BY <1>10 DEF w

LEMMA MostKeptNamed ==
  ASSUME TableInv, NEW x, IsPattern(x), NEW c \in DOMAIN x, x[c] # Unnamed
  PROVE  LET w == Without(x, c)
             most == MostKept(w, <<c, x[c]>>)
             all == Cardinality(Matching(w))
         IN  /\ most \in Nat /\ all \in Nat /\ most <= all
             /\ most = all <=> Follows(w, c, x[c])
             /\ most = Cardinality(Matching(x))
<1> DEFINE w == Without(x, c)
<1>1. With(w, <<c, x[c]>>) = x
  BY WithWithout DEF IsPattern
<1>2. Matching(x) = {r \in Matching(w) : table[r][c] # Null /\ x[c] \in {Unnamed, table[r][c]}} /\ Matching(w) \in SUBSET Tuples
  BY MatchColumn DEF Matching
<1>3. x[c] # Null
  BY PatternTyped DEF Null
<1> HIDE DEF w
<1>4. MostKept(w, <<c, x[c]>>) = Cardinality(Matching(x))
  BY <1>1 DEF MostKept
<1>5. Matching(x) \in SUBSET Matching(w) /\ IsFiniteSet(Matching(w))
  BY <1>2, RowsFinite
<1>6. /\ Cardinality(Matching(x)) \in Nat /\ Cardinality(Matching(w)) \in Nat
      /\ Cardinality(Matching(x)) <= Cardinality(Matching(w))
      /\ Cardinality(Matching(x)) = Cardinality(Matching(w)) => Matching(x) = Matching(w)
  BY <1>5, FS_Subset, FS_CardinalityType
<1>7. Matching(x) = Matching(w) <=> Follows(w, c, x[c])
  BY <1>2, <1>3 DEF Follows
<1>8. /\ MostKept(w, <<c, x[c]>>) \in Nat /\ Cardinality(Matching(w)) \in Nat
      /\ MostKept(w, <<c, x[c]>>) <= Cardinality(Matching(w))
      /\ MostKept(w, <<c, x[c]>>) = Cardinality(Matching(w)) <=> Follows(w, c, x[c])
  BY <1>4, <1>6, <1>7
<1> QED BY <1>4, <1>8 DEF w

LEMMA ExactIs ==
  ASSUME TableInv, NEW q, IsPattern(q), NEW c \in Columns \ DOMAIN q, NEW v \in {Unnamed} \cup Known(c)
  PROVE  Exact(q, <<c, v>>) <=> Follows(q, c, v)
<1> DEFINE x == With(q, <<c, v>>)
<1>1. /\ x = [d \in DOMAIN x |-> x[d]] /\ DOMAIN x = DOMAIN q \cup {c}
      /\ (\A d \in DOMAIN q : x[d] = q[d]) /\ x[c] = v
  BY DEF With
<1>2. Without(x, c) = q
  BY WithoutWith DEF IsPattern
<1> HIDE DEF x
<1>3. IsPattern(x)
  BY <1>1 DEF IsPattern
<1>4. MostKept(q, <<c, v>>) = Cardinality(Matching(q)) <=> Follows(q, c, v)
  BY <1>1, <1>2, <1>3, MostKeptUnnamed, MostKeptNamed
<1> QED BY <1>4 DEF Exact

\* The clusters of a pattern refine those of its parent: with as many, and as many rows,
\* they are the same.
LEMMA SameIndex ==
  ASSUME TableInv, NEW x, IsPattern(x), NEW c \in DOMAIN x
  PROVE  IsExactCfd(Part(Without(x, c)), Part(x)) <=> Follows(Without(x, c), c, x[c])
<1> DEFINE w == Without(x, c)
<1>0. DOMAIN w = DOMAIN x \ {c}
  BY WithoutIs
<1>1. Matching(x) = {r \in Matching(w) : table[r][c] # Null /\ x[c] \in {Unnamed, table[r][c]}}
  BY MatchColumn
<1> HIDE DEF w
<1>2. ASSUME NEW r \in Matching(x) PROVE Same(x, r) = {s \in Same(w, r) : s \in Matching(x) /\ table[s][c] = table[r][c]}
  BY <1>0, <1>1 DEF Same, Agree
<1>3. ASSUME Follows(w, c, x[c]) PROVE IsExactCfd(Part(w), Part(x))
  <2>1. Matching(x) = Matching(w)
    BY <1>1, <1>3 DEF Follows
  <2>2. \A r \in Matching(x) : Same(x, r) = Same(w, r)
    BY <1>2, <1>3, <2>1 DEF Follows, Same
  <2>3. Part(x) = Part(w)
    BY <2>1, <2>2 DEF Part
  <2> QED BY <2>3 DEF IsExactCfd
<1>4. ASSUME IsExactCfd(Part(w), Part(x)) PROVE Follows(w, c, x[c])
  <2>1. Cardinality(Part(w)) = Cardinality(Part(x)) /\ Cardinality(Matching(w)) = Cardinality(Matching(x))
    BY <1>4, PartIs DEF IsExactCfd
  <2>2. Matching(x) = Matching(w)
    <3>1. Matching(x) \in SUBSET Matching(w) /\ Matching(w) \in SUBSET Tuples
      BY <1>1 DEF Matching
    <3>2. IsFiniteSet(Matching(w))
      BY <3>1, RowsFinite
    <3> QED BY <2>1, <3>1, <3>2, FS_Subset
  <2> DEFINE over == [h \in Part(x) |-> Same(w, CHOOSE s \in h : TRUE)]
  <2>3. ASSUME NEW r \in Matching(x) PROVE Same(x, r) \in Part(x) /\ over[Same(x, r)] = Same(w, r)
    <3>1. Same(x, r) \in Part(x) /\ r \in Same(x, r)
      BY DEF Part, Same, Agree
    <3>2. PICK s \in Same(x, r) : s = CHOOSE t \in Same(x, r) : TRUE
      BY <3>1
    <3>3. s \in Same(w, r)
      BY <1>2
    <3>4. Same(w, s) = Same(w, r)
      BY <3>3, SameOwn
    <3> QED BY <3>1, <3>2, <3>4
  <2>4. over \in Surjection(Part(x), Part(w))
    <3>1. \A h \in Part(x) : over[h] \in Part(w)
      <4> SUFFICES ASSUME NEW h \in Part(x) PROVE over[h] \in Part(w)
        OBVIOUS
      <4>1. PICK r \in Matching(x) : h = Same(x, r)
        BY DEF Part
      <4> QED BY <2>2, <2>3, <4>1 DEF Part
    <3>2. \A g \in Part(w) : \E h \in Part(x) : over[h] = g
      <4> SUFFICES ASSUME NEW g \in Part(w) PROVE \E h \in Part(x) : over[h] = g
        OBVIOUS
      <4>1. PICK r \in Matching(w) : g = Same(w, r)
        BY DEF Part
      <4> QED BY <2>2, <2>3, <4>1
    <3>3. over \in [Part(x) -> Part(w)]
      BY <3>1
    <3> HIDE DEF over
    <3> QED BY <3>2, <3>3, Fun_IsSurj
  <2> HIDE DEF over
  <2>5. over \in Injection(Part(x), Part(w))
    <3>1. IsFiniteSet(Part(x))
      BY PartIs
    <3> QED BY <2>1, <2>4, <3>1, FS_Surjection
  <2>6. \A h, k \in Part(x) : over[h] = over[k] => h = k
    BY <2>5, Fun_InjectionProperties
  <2>7. ASSUME NEW r \in Matching(w), NEW s \in Matching(w), Agree(DOMAIN w, r, s) PROVE table[r][c] = table[s][c]
    <3>1. Same(w, r) = Same(w, s)
      BY <2>7 DEF Same, Agree
    <3>2. Same(x, r) = Same(x, s)
      BY <2>2, <2>3, <2>6, <3>1
    <3>3. s \in Same(x, s)
      BY <2>2 DEF Same, Agree
    <3> QED BY <1>2, <2>2, <3>2, <3>3
  <2> QED BY <1>1, <2>2, <2>7 DEF Follows
<1> QED BY <1>3, <1>4 DEF w

LEMMA Scaled ==
  ASSUME NEW n \in Nat \ {0}, NEW a \in Nat, NEW b \in Nat
  PROVE  a * n >= n * b <=> a >= b
<1>1. CASE a >= b
  <2>1. PICK k \in Nat : a = b + k
    BY <1>1
  <2>2. a * n = n * b + k * n /\ k * n \in Nat /\ n * b \in Nat
    BY <2>1
  <2> QED BY <1>1, <2>2
<1>2. CASE a < b
  <2>1. PICK k \in Nat : b = a + 1 + k
    <3>1. b - (a + 1) \in Nat /\ b = a + 1 + (b - (a + 1))
      BY <1>2
    <3> QED BY <3>1
  <2>2. n * b = a * n + n + k * n /\ k * n \in Nat /\ a * n \in Nat
    BY <2>1
  <2> QED BY <1>2, <2>2
<1> QED BY <1>1, <1>2

\* Where the indexes are right, so are the confidence and whether the dependency holds.
LEMMA ConfidenceIs ==
  ASSUME TableInv, NEW x, IsPattern(x), NEW c \in DOMAIN x,
         below[Without(x, c)] = Part(Without(x, c)), vertices[x].pli = Part(x)
  PROVE  /\ Confidence(x, c)[1] = Confidence(x, c)[2] <=> Follows(Without(x, c), c, x[c])
         /\ EnoughConfidence(Confidence(x, c)) <=>
              EnoughConfidence(<<MostKept(Without(x, c), <<c, x[c]>>), Cardinality(Matching(Without(x, c)))>>)
<1> DEFINE w == Without(x, c)
           most == MostKept(w, <<c, x[c]>>)
           all == Cardinality(Matching(w))
<1>1. /\ most \in Nat /\ all \in Nat /\ most <= all
      /\ most = all <=> Follows(w, c, x[c])
  BY MostKeptUnnamed, MostKeptNamed
<1>2. IsExactCfd(Part(w), Part(x)) <=> Follows(w, c, x[c])
  BY SameIndex
<1>3. Size(Part(w)) = all /\ Size(Part(x)) = Cardinality(Matching(x))
  BY PartIs
<1>4. minConf[1] \in Nat /\ minConf[2] \in Nat \ {0}
  BY DEF TableInv
<1>5. CASE minConf[1] = minConf[2]
  <2> DEFINE n == minConf[2]
  <2>1. Confidence(x, c) = IF IsExactCfd(Part(w), Part(x)) THEN <<1, 1>> ELSE <<0, 1>>
    BY <1>5 DEF Confidence
  <2>2. \A a, b \in Nat : EnoughConfidence(<<a, b>>) <=> a * n >= n * b
    BY <1>5 DEF EnoughConfidence
  <2>3. \A a, b \in Nat : a * n >= n * b <=> a >= b
    BY <1>4, Scaled
  <2> HIDE DEF n, most, all, w
  <2>4. EnoughConfidence(<<most, all>>) <=> most >= all
    BY <1>1, <2>2, <2>3
  <2>5. EnoughConfidence(<<1, 1>>) /\ ~EnoughConfidence(<<0, 1>>)
    BY <2>2, <2>3
  <2>6. most >= all <=> Follows(w, c, x[c])
    BY <1>1
  <2>7. Confidence(x, c)[1] = Confidence(x, c)[2] <=> Follows(w, c, x[c])
    BY <1>2, <2>1
  <2>8. EnoughConfidence(Confidence(x, c)) <=> EnoughConfidence(<<most, all>>)
    BY <1>2, <2>1, <2>4, <2>5, <2>6
  <2> QED BY <2>7, <2>8 DEF most, all, w
<1>6. CASE minConf[1] # minConf[2]
  <2>1. Confidence(x, c) = <<most, all>>
    <3>1. CASE x[c] = Unnamed
      <4>1. Size(Part(w)) - PartitionError(Part(w), Part(x)) = most
        BY <3>1, MostKeptUnnamed
      <4> QED BY <1>3, <1>6, <3>1, <4>1 DEF Confidence
    <3>2. CASE x[c] # Unnamed
      <4>1. most = Cardinality(Matching(x))
        BY <3>2, MostKeptNamed
      <4> QED BY <1>3, <1>6, <3>2, <4>1 DEF Confidence
    <3> QED BY <3>1, <3>2
  <2> QED BY <1>1, <2>1
<1> QED BY <1>5, <1>6

-----------------------------------------------------------------------------
(* A level. *)

LEMMA ArityIs ==
  ASSUME NEW p, NEW sizes
  PROVE  p \in OfArity(sizes) <=> IsPattern(p) /\ Cardinality(DOMAIN p) \in sizes
<1>1. ASSUME IsPattern(p) PROVE p \in AllPatterns
  <2>1. \A c \in DOMAIN p : p[c] \in {Unnamed} \cup UNION {Known(d) : d \in DOMAIN p}
    BY <1>1 DEF IsPattern
  <2>2. p \in Patterns(DOMAIN p) /\ DOMAIN p \in SUBSET Columns
    BY <1>1, <2>1 DEF IsPattern, Patterns
  <2> QED BY <1>1, <2>2 DEF AllPatterns
<1> QED BY <1>1 DEF OfArity, AllPatterns

LEMMA ColumnsCounted ==
  ASSUME NEW p, IsPattern(p)
  PROVE  /\ IsFiniteSet(DOMAIN p) /\ Cardinality(DOMAIN p) \in Nat /\ DOMAIN p \subseteq Nat
         /\ Cardinality(DOMAIN p) = 0 <=> DOMAIN p = {}
         /\ \A c \in DOMAIN p : Cardinality(DOMAIN Without(p, c)) = Cardinality(DOMAIN p) - 1
<1>1. IsFiniteSet(DOMAIN p) /\ Cardinality(DOMAIN p) \in Nat
  BY ColumnsFinite DEF IsPattern
<1>2. ASSUME NEW c \in DOMAIN p PROVE Cardinality(DOMAIN Without(p, c)) = Cardinality(DOMAIN p) - 1
  <2>1. DOMAIN Without(p, c) = DOMAIN p \ {c}
    BY WithoutIs
  <2>2. Cardinality(DOMAIN p \ {c}) = Cardinality(DOMAIN p) - 1
    BY <1>1, FS_RemoveElement
  <2> QED BY <2>1, <2>2
<1>3. Cardinality(DOMAIN p) = 0 <=> DOMAIN p = {}
  BY <1>1, FS_EmptySet
<1>4. DOMAIN p \subseteq Nat
  BY DEF IsPattern, Columns
<1> QED BY <1>1, <1>2, <1>3, <1>4

\* A least left-hand side for a column of a vertex has all the other columns, and its
\* pattern has yet to be checked, where a candidate outside it is left.
LEMMA Caught ==
  ASSUME TableInv, LevelInv, VertexInv, AllTaken,
         NEW p \in DOMAIN vertices, Frequent(p), NEW a \in vertices[p].rhs, NEW c \in DOMAIN p,
         NEW q, Least(q, c, p[c]), General(q, Without(p, c)), a[1] \notin DOMAIN q
  PROVE  DOMAIN q = DOMAIN p \ {c} /\ With(q, <<c, p[c]>>) \in unchecked
<1> DEFINE w == Without(p, c)
           x == With(q, <<c, p[c]>>)
<1>1. IsPattern(p) /\ Cardinality(DOMAIN p) = arity /\ a \in Start(p)
  BY ArityIs DEF VertexInv
<1>2. DOMAIN w = DOMAIN p \ {c} /\ (\A e \in DOMAIN p \ {c} : w[e] = p[e]) /\ IsPattern(w)
  BY <1>1, WithoutIs, WithoutPattern
<1>3. IsPattern(q) /\ DOMAIN q \subseteq DOMAIN p \ {c} /\ Follows(q, c, p[c])
  <2>1. IsPattern(q) /\ General(q, w)
    BY <1>2, GeneralPattern
  <2> QED BY <1>2, <2>1 DEF General, Least
<1>4. ASSUME NEW d \in DOMAIN p \ {c}, d \notin DOMAIN q PROVE FALSE
  <2> DEFINE u == Without(p, d)
  <2>0. DOMAIN u = DOMAIN p \ {d} /\ \A e \in DOMAIN p \ {d} : u[e] = p[e]
    BY WithoutIs
  <2>1. DOMAIN u = DOMAIN p \ {d} /\ u[c] = p[c] /\ IsPattern(u)
    BY <1>1, <1>4, <2>0, WithoutPattern
  <2>2. General(q, Without(w, d))
    BY <1>4, WithoutGeneral
  <2>3. Without(w, d) = Without(u, c)
    BY WithoutTwo
  <2>4. a \in Rest(u)
    BY <1>1, <1>4 DEF Start
  <2> HIDE DEF u, w
  <2>5. Gone(u, a)
    BY <1>3, <1>4, <2>1, <2>2, <2>3, GoneBy
  <2> QED BY <2>4, <2>5 DEF Rest
<1>5. DOMAIN q = DOMAIN p \ {c}
  BY <1>3, <1>4
<1>6. /\ x = [d \in DOMAIN x |-> x[d]] /\ DOMAIN x = DOMAIN q \cup {c}
      /\ (\A d \in DOMAIN q : x[d] = q[d]) /\ x[c] = p[c]
  BY <1>3 DEF With
<1>7. Without(x, c) = q
  BY <1>3, WithoutWith DEF IsPattern
<1> HIDE DEF x, w
<1>8. IsPattern(x) /\ General(x, p) /\ DOMAIN x = DOMAIN p
  <2>1. \A e \in DOMAIN q : q[e] \in {p[e], Unnamed}
    BY <1>2, <1>3 DEF General, w
  <2>2. General(x, p) /\ DOMAIN x = DOMAIN p
    BY <1>5, <1>6, <2>1 DEF General
  <2> QED BY <1>1, <2>2, GeneralPattern
<1>9. Frequent(x)
  BY <1>8, FrequentGeneral
<1>10. x \in DOMAIN vertices
  <2>1. ~Implied(FALSE, x, c)
    BY <1>6, <1>7, <1>8, LeastNotImplied, ImpliedByFewer
  <2>2. <<c, x[c]>> \in Start(x)
    BY <1>6, <1>8, <1>9, <2>1, NotImpliedStarts
  <2>3. x \in OfArity({arity})
    BY <1>1, <1>8, ArityIs
  <2> QED BY <1>9, <2>2, <2>3 DEF LevelInv
<1>11. p \in Told(x, c)
  <2>1. Narrower(w, q)
    BY <1>2, <1>5 DEF General, Narrower, w
  <2> QED BY <1>6, <1>7, <2>1 DEF Told, w
<1>12. ASSUME x \notin unchecked PROVE FALSE
  <2>1. a[1] \in DOMAIN x \ {c}
    BY <1>6, <1>7, <1>9, <1>10, <1>11, <1>12 DEF AllTaken, Checked
  <2> QED BY <1>6, <2>1
<1> QED BY <1>5, <1>12 DEF x

\* The column of a pattern that is to be checked is a candidate unless it is implied.
LEMMA NotImpliedIsCandidate ==
  ASSUME TableInv, LevelInv, VertexInv, TakenAway,
         NEW x \in unchecked, Frequent(x), NEW c \in DOMAIN x, ~Implied(TRUE, x, c)
  PROVE  <<c, x[c]>> \in vertices[x].rhs
<1> DEFINE a == <<c, x[c]>>
           w == Without(x, c)
<1>0. x \in DOMAIN vertices /\ IsPattern(x) /\ Cardinality(DOMAIN x) = arity /\ vertices[x].rhs \subseteq Start(x)
  BY ArityIs DEF LevelInv, VertexInv
<1>1. DOMAIN w = DOMAIN x \ {c} /\ (\A e \in DOMAIN x \ {c} : w[e] = x[e]) /\ IsPattern(w)
  BY <1>0, WithoutIs, WithoutPattern
<1> SUFFICES ASSUME a \notin vertices[x].rhs PROVE FALSE
  OBVIOUS
<1>2. a \in Start(x)
  BY <1>0, ImpliedByFewer, NotImpliedStarts
<1>3. PICK d \in DOMAIN x : \E y \in Checked :
          /\ DOMAIN y = DOMAIN x /\ General(y, x) /\ y[d] = x[d]
          /\ Follows(Without(y, d), d, x[d]) /\ a[1] \notin DOMAIN y \ {d}
  BY <1>0, <1>2 DEF TakenAway
<1>4. PICK y \in Checked : /\ DOMAIN y = DOMAIN x /\ General(y, x) /\ y[d] = x[d]
                           /\ Follows(Without(y, d), d, x[d]) /\ a[1] \notin DOMAIN y \ {d}
  BY <1>3
<1>5. c = d /\ y # x
  BY <1>4 DEF Checked
<1>6. General(Without(y, c), w) /\ Follows(Without(y, c), c, x[c])
  BY <1>4, <1>5, WithoutGeneral
<1>7. Without(y, c) # w
  <2>1. \A e \in DOMAIN y \ {c} : Without(y, c)[e] = y[e]
    BY WithoutIs
  <2>2. y = [e \in DOMAIN y |-> y[e]] /\ x = [e \in DOMAIN x |-> x[e]]
    BY <1>0, <1>4 DEF General, IsPattern
  <2>3. \E e \in DOMAIN x : x[e] # y[e]
    BY <1>4, <1>5, <2>2, SamePattern
  <2> QED BY <1>1, <1>4, <1>5, <2>1, <2>3
<1> QED BY <1>0, <1>6, <1>7, ImpliedBy

\* No candidate follows from a left-hand side of fewer columns, nor from one of the same
\* columns where the more general patterns are all checked; and no other column of its
\* left-hand side follows.
LEMMA CandidateIsNotImplied ==
  ASSUME TableInv, LevelInv, VertexInv, AllTaken,
         NEW x \in unchecked, Frequent(x), NEW c \in DOMAIN x, <<c, x[c]>> \in vertices[x].rhs
  PROVE  /\ ~Implied(FALSE, x, c)
         /\ (\A y \in unchecked : DOMAIN y = DOMAIN x => ~Precedes(y, x)) => ~Implied(TRUE, x, c)
<1> DEFINE a == <<c, x[c]>>
           w == Without(x, c)
<1>0. x \in DOMAIN vertices /\ IsPattern(x) /\ Cardinality(DOMAIN x) = arity /\ vertices[x].rhs \subseteq Start(x)
  BY ArityIs DEF LevelInv, VertexInv
<1>1. DOMAIN w = DOMAIN x \ {c} /\ (\A e \in DOMAIN x \ {c} : w[e] = x[e]) /\ IsPattern(w)
  BY <1>0, WithoutIs, WithoutPattern
<1>2. ASSUME NEW q, General(q, w), q # w, Follows(q, c, x[c])
      PROVE  /\ DOMAIN q = DOMAIN w
             /\ \E y \in unchecked : DOMAIN y = DOMAIN x /\ Precedes(y, x)
  <2>1. IsPattern(q) /\ c \notin DOMAIN q /\ DOMAIN q \subseteq DOMAIN w
    <3>1. IsPattern(q)
      BY <1>1, <1>2, GeneralPattern
    <3> QED BY <1>1, <1>2, <3>1 DEF General
  <2>2. PICK least : General(least, q) /\ Least(least, c, x[c])
    BY <1>2, <2>1, LeastExists
  <2>3. General(least, w) /\ c \notin DOMAIN least /\ DOMAIN least \subseteq DOMAIN q
    BY <1>2, <2>1, <2>2, GeneralTransitive DEF General
  <2> DEFINE y == With(least, <<c, x[c]>>)
  <2>4. DOMAIN least = DOMAIN x \ {c} /\ y \in unchecked
    BY <1>0, <2>2, <2>3, Caught
  <2>5. /\ y = [d \in DOMAIN y |-> y[d]] /\ DOMAIN y = DOMAIN least \cup {c}
        /\ (\A d \in DOMAIN least : y[d] = least[d]) /\ y[c] = x[c]
    BY <2>3 DEF With
  <2>6. Without(y, c) = least
    BY <2>2, <2>3, WithoutWith DEF General
  <2> HIDE DEF y, w
  <2>7. least # w
    BY <1>2, <2>2, GeneralBoth
  <2>8. y # x /\ DOMAIN y = DOMAIN x
    BY <2>4, <2>5, <2>6, <2>7 DEF w
  <2>9. General(y, x) /\ IsPattern(y)
    <3>1. \A e \in DOMAIN least : least[e] \in {x[e], Unnamed}
      BY <1>1, <2>3, <2>4 DEF General
    <3>2. General(y, x)
      BY <2>4, <2>5, <3>1 DEF General
    <3> QED BY <1>0, <3>2, GeneralPattern
  <2>10. Precedes(y, x)
    BY <1>0, <2>8, <2>9, GeneralFirst
  <2> QED BY <1>1, <2>1, <2>3, <2>4, <2>8, <2>10
<1>3. ASSUME NEW d \in DOMAIN x \ {c}, NEW q, General(q, Without(w, d)), Follows(q, d, x[d])
      PROVE  FALSE
  <2>1. d \in DOMAIN w /\ w[d] = x[d]
    BY <1>1
  <2>2. a[1] \notin DOMAIN q
    <3>1. DOMAIN Without(w, d) = DOMAIN w \ {d}
      BY WithoutIs
    <3> QED BY <1>1, <1>3, <3>1 DEF General
  <2>3. a \in Rest(w)
    BY <1>0 DEF Start
  <2> HIDE DEF w
  <2>4. Gone(w, a)
    BY <1>1, <1>3, <2>1, <2>2, GoneBy
  <2> QED BY <2>3, <2>4 DEF Rest
<1> HIDE DEF w
<1>4. ~Implied(FALSE, x, c)
  BY <1>0, <1>2, <1>3, ImpliedBy DEF w
<1>5. ASSUME \A y \in unchecked : DOMAIN y = DOMAIN x => ~Precedes(y, x) PROVE ~Implied(TRUE, x, c)
  BY <1>0, <1>2, <1>3, <1>5, ImpliedBy DEF w
<1> QED BY <1>4, <1>5

\* A vertex that is due is on its level.
LEMMA DueStarts ==
  ASSUME TableInv, NEW x, IsPattern(x), NEW c \in DOMAIN x, NEW all \in BOOLEAN, DueAt(all, x, c)
  PROVE  Frequent(x) /\ Start(x) # {}
<1>1. Frequent(x) /\ ~Implied(FALSE, x, c)
  BY ImpliedByFewer DEF DueAt
<1>2. <<c, x[c]>> \in Start(x)
  BY <1>1, NotImpliedStarts
<1> QED BY <1>1, <1>2

\* When no pattern of a level has candidates, none of a later one has.
LEMMA NoneLater ==
  ASSUME TableInv, NEW n \in Nat \ {0}, \A x \in OfArity({n}) : ~(Frequent(x) /\ Start(x) # {}),
         NEW x, IsPattern(x), Cardinality(DOMAIN x) >= n, NEW all \in BOOLEAN
  PROVE  Emitted(all, x) = {}
<1> DEFINE live == {m \in Nat : m >= n /\ \E y \in OfArity({m}) : Frequent(y) /\ Start(y) # {}}
<1>1. ASSUME live # {} PROVE FALSE
  <2>1. PICK m \in live : \A k \in live : m <= k
    BY <1>1, SmallestNumber
  <2>2. PICK y \in OfArity({m}) : Frequent(y) /\ Start(y) # {}
    BY <2>1
  <2>3. m # n /\ m > n /\ m - 1 \in Nat /\ m - 1 >= n
    BY <2>1, <2>2
  <2>4. IsPattern(y) /\ Cardinality(DOMAIN y) = m
    BY <2>2, ArityIs
  <2>5. PICK c \in DOMAIN y : TRUE
    <3>1. Cardinality(DOMAIN y) # 0
      BY <2>3, <2>4
    <3>2. DOMAIN y # {}
      BY <2>4, <3>1, ColumnsCounted
    <3> QED BY <3>2
  <2> DEFINE w == Without(y, c)
  <2>6. IsPattern(w) /\ Cardinality(DOMAIN w) = m - 1
    BY <2>4, WithoutPattern, ColumnsCounted
  <2>7. Frequent(w)
    <3>1. General(w, y)
      BY <2>4, GeneralSelf, WithoutGeneral DEF IsPattern
    <3> QED BY <2>2, <3>1, FrequentGeneral
  <2>8. Start(w) # {}
    <3>1. PICK a \in Start(y) : TRUE
      BY <2>2
    <3>2. a \in Rest(w)
      BY <3>1 DEF Start
    <3> HIDE DEF w
    <3> QED BY <2>6, <3>2, RestStarts
  <2> HIDE DEF w
  <2>9. w \in OfArity({m - 1})
    BY <2>6, ArityIs
  <2>10. m - 1 \in live
    BY <2>3, <2>7, <2>8, <2>9
  <2>11. m <= m - 1
    <3> HIDE DEF live
    <3> QED BY <2>1, <2>10
  <2> QED BY <2>3, <2>11
<1>2. ASSUME NEW c \in DOMAIN x, DueAt(all, x, c) PROVE FALSE
  <2>1. Frequent(x) /\ Start(x) # {}
    BY <1>2, DueStarts
  <2>2. x \in OfArity({Cardinality(DOMAIN x)}) /\ Cardinality(DOMAIN x) \in Nat
    BY ArityIs, ColumnsCounted
  <2> QED BY <1>1, <2>1, <2>2
<1> QED BY <1>2 DEF Emitted

-----------------------------------------------------------------------------
(* The first level. *)

LEMMA MaxLevelIs ==
  ASSUME TableInv
  PROVE  MaxLevel \in Nat \ {0} /\ MaxLevel <= Width /\ MaxLevel <= maxLhs + 1
<1>1. {maxLhs, Width - 1} \subseteq Nat
  BY CTaneAssumption DEF TableInv
<1> DEFINE least == Min({maxLhs, Width - 1})
<1>2. least \in {maxLhs, Width - 1} /\ \A x \in {maxLhs, Width - 1} : least <= x
  BY <1>1, MinOf
<1>3. MaxLevel = least + 1
  BY DEF MaxLevel
<1> HIDE DEF least
<1> QED BY <1>1, <1>2, <1>3, CTaneAssumption

LEMMA NoColumns ==
  ASSUME NEW p, p = [c \in DOMAIN p |-> p[c]], DOMAIN p = {}
  PROVE  p = <<>>
<1>1. <<>> = [c \in DOMAIN <<>> |-> <<>>[c]] /\ DOMAIN <<>> = {}
  OBVIOUS
<1> QED BY <1>1, SamePattern

LEMMA OneColumn ==
  ASSUME NEW p, IsPattern(p), Cardinality(DOMAIN p) = 1
  PROVE  \E c \in Columns : \E v \in {Unnamed} \cup Known(c) : p = Only(c, v)
<1>1. IsFiniteSet(DOMAIN p)
  BY ColumnsCounted
<1>2. PICK c : DOMAIN p = {c}
  BY <1>1, FS_Singleton
<1>3. c \in Columns /\ p[c] \in {Unnamed} \cup Known(c)
  BY <1>2 DEF IsPattern
<1>4. p = Only(c, p[c])
  <2>1. /\ Only(c, p[c]) = [d \in DOMAIN Only(c, p[c]) |-> Only(c, p[c])[d]]
        /\ DOMAIN Only(c, p[c]) = {c} /\ Only(c, p[c])[c] = p[c]
    BY DEF Only
  <2> DEFINE o == Only(c, p[c])
  <2>2. o = [d \in DOMAIN o |-> o[d]] /\ DOMAIN o = {c} /\ o[c] = p[c]
    BY <2>1
  <2> HIDE DEF o
  <2>3. p = o
    BY <1>2, <2>2, SamePattern DEF IsPattern
  <2> QED BY <2>3 DEF o
<1> QED BY <1>3, <1>4

LEMMA EmptyVertex ==
  ASSUME TableInv, table # <<>>, NEW c, NEW v
  PROVE  Without(Only(c, v), c) = <<>> /\ Part(<<>>) = PliForEmptyVertex
<1> DEFINE o == Only(c, v)
           w == Without(o, c)
<1>0. DOMAIN o = {c}
  BY OnlyIs
<1> HIDE DEF o
<1>1. w = [d \in DOMAIN w |-> w[d]] /\ DOMAIN w = DOMAIN o \ {c} /\ DOMAIN o = {c}
  BY <1>0, WithoutIs
<1> HIDE DEF w
<1>2. w = <<>>
  BY <1>1, NoColumns
<1>3. DOMAIN <<>> = {}
  OBVIOUS
<1>4. Matching(<<>>) = Tuples /\ \A r \in Tuples : Same(<<>>, r) = Tuples
  BY <1>3 DEF Matching, Matches, Same, Agree
<1>5. Tuples # {}
  <2>1. table \in [1..Len(table) -> [Columns -> {Null} \cup (Nat \ {0})]]
    BY DEF TableInv
  <2>2. table = [r \in DOMAIN table |-> table[r]]
    BY <2>1
  <2> QED BY <2>2, NoColumns DEF Tuples
<1>6. Part(<<>>) = {Tuples}
  BY <1>4, <1>5 DEF Part
<1> QED BY <1>2, <1>6 DEF o, w, PliForEmptyVertex

LEMMA FirstLevelIs ==
  ASSUME TableInv
  PROVE  /\ \A p : p \in DOMAIN FirstLevel <=> p \in OfArity({1}) /\ Frequent(p)
         /\ \A p \in DOMAIN FirstLevel : FirstLevel[p] = [pli |-> Part(p), rhs |-> Start(p)]
         /\ FirstLevel = [p \in DOMAIN FirstLevel |-> FirstLevel[p]]
<1> DEFINE index == [c \in Columns |-> CreateFor(c)]
           all == {a \in Columns \X (UNION {DOMAIN index[d] : d \in Columns}) : a[2] \in DOMAIN index[a[1]]}
<1>1. ASSUME NEW c \in Columns
      PROVE  /\ DOMAIN index[c] = {v \in {Unnamed} \cup Known(c) : Frequent(Only(c, v))}
             /\ \A v \in DOMAIN index[c] : index[c][v] = Part(Only(c, v))
  BY CreatedFor
<1> HIDE DEF index
<1>2. ASSUME NEW c \in Columns, NEW v \in {Unnamed} \cup Known(c) PROVE v \in Nat
  BY KnownTyped DEF Unnamed
<1>3. all = Singles
  <2>1. ASSUME NEW a \in all PROVE a \in Singles
    BY <1>1, <1>2 DEF Singles
  <2>2. ASSUME NEW a \in Singles PROVE a \in all
    BY <1>1 DEF Singles
  <2> QED BY <2>1, <2>2
<1> HIDE DEF all
<1>4. FirstLevel = [p \in {Only(a[1], a[2]) : a \in all} |->
         LET c == Min(DOMAIN p)
         IN [pli |-> index[c][p[c]], rhs |-> {a \in all : a[1] = c => a[2] = p[c]}]]
  BY DEF FirstLevel, index, all
<1>5. ASSUME NEW a \in Singles
      PROVE  LET p == Only(a[1], a[2]) IN
             p \in OfArity({1}) /\ Frequent(p) /\ FirstLevel[p] = [pli |-> Part(p), rhs |-> Start(p)]
  <2> DEFINE c == a[1]
             v == a[2]
             p == Only(c, v)
  <2>1. c \in Columns /\ v \in {Unnamed} \cup Known(c) /\ Frequent(p)
    BY DEF Singles
  <2>2. IsPattern(p) /\ DOMAIN p = {c} /\ p[c] = v
    BY <2>1, OnlyPattern, OnlyIs
  <2> HIDE DEF p
  <2>3. Without(p, c) = [d \in DOMAIN Without(p, c) |-> Without(p, c)[d]] /\ DOMAIN Without(p, c) = {}
    <3>1. Without(p, c) = [d \in DOMAIN Without(p, c) |-> Without(p, c)[d]] /\ DOMAIN Without(p, c) = DOMAIN p \ {c}
      BY DEF Without
    <3> QED BY <2>2, <3>1
  <2>4. p \in OfArity({1})
    <3>1. Cardinality(DOMAIN p) = 1
      BY <2>2, FS_Singleton
    <3> QED BY <2>2, <3>1, ArityIs
  <2>5. Min(DOMAIN p) = c
    <3>1. DOMAIN p \subseteq Nat /\ DOMAIN p # {}
      BY <2>2, ColumnsCounted
    <3> QED BY <2>2, <3>1, MinOf
  <2>6. ASSUME NEW b \in Singles PROVE b \in Start(p) <=> (b[1] = c => b[2] = p[c])
    <3>1. b \in Rest(Without(p, c))
      BY <2>3 DEF Rest, Fits, Gone
    <3> QED BY <2>2, <3>1 DEF Start, Fits
  <2>7. Start(p) = {b \in all : b[1] = c => b[2] = p[c]}
    BY <1>3, <2>6 DEF Start
  <2>8. index[c][p[c]] = Part(p)
    BY <1>1, <2>1, <2>2 DEF p
  <2>9. p \in {Only(b[1], b[2]) : b \in all}
    BY <1>3 DEF p
  <2>10. FirstLevel[p] = [pli |-> Part(p), rhs |-> Start(p)]
    BY <1>4, <2>5, <2>7, <2>8, <2>9
  <2> QED BY <2>1, <2>4, <2>10 DEF p
<1>6. DOMAIN FirstLevel = {Only(a[1], a[2]) : a \in Singles}
  BY <1>3, <1>4
<1>7. ASSUME NEW p \in DOMAIN FirstLevel
      PROVE  p \in OfArity({1}) /\ Frequent(p) /\ FirstLevel[p] = [pli |-> Part(p), rhs |-> Start(p)]
  BY <1>5, <1>6
<1>8. ASSUME NEW p \in OfArity({1}), Frequent(p) PROVE p \in DOMAIN FirstLevel
  <2>1. IsPattern(p) /\ Cardinality(DOMAIN p) = 1
    BY ArityIs
  <2>0. PICK c \in Columns : \E v \in {Unnamed} \cup Known(c) : p = Only(c, v)
    BY <2>1, OneColumn
  <2>2. PICK v \in {Unnamed} \cup Known(c) : p = Only(c, v)
    BY <2>0
  <2>3. <<c, v>> \in Singles
    BY <1>2, <1>8, <2>2 DEF Singles
  <2> QED BY <1>6, <2>2, <2>3
<1>9. FirstLevel = [p \in DOMAIN FirstLevel |-> FirstLevel[p]]
  BY <1>4
<1> QED BY <1>7, <1>8, <1>9

-----------------------------------------------------------------------------
(* The next level. *)

LEMMA LastColumn ==
  ASSUME NEW p, IsPattern(p), DOMAIN p # {}
  PROVE  Max(DOMAIN p) \in DOMAIN p /\ \A c \in DOMAIN p : c <= Max(DOMAIN p)
<1>1. DOMAIN p \subseteq Nat /\ Width \in Nat /\ \A c \in DOMAIN p : c <= Width
  BY CTaneAssumption DEF IsPattern, Columns
<1> QED BY <1>1, MaxOf

LEMMA LargestColumn ==
  ASSUME NEW p, IsPattern(p), NEW m \in DOMAIN p, \A c \in DOMAIN p : c <= m
  PROVE  Max(DOMAIN p) = m
<1>1. Max(DOMAIN p) \in DOMAIN p /\ \A c \in DOMAIN p : c <= Max(DOMAIN p)
  BY LastColumn
<1>2. Max(DOMAIN p) \in Nat /\ m \in Nat
  BY <1>1 DEF IsPattern, Columns
<1> QED BY <1>1, <1>2

\* All patterns with a column more whose parents were all kept are joined.
LEMMA JoinsIs ==
  ASSUME TableInv, PrunedInv, arity \in Nat \ {0}, NEW x
  PROVE  x \in Joins <=> x \in OfArity({arity + 1}) /\ \A c \in DOMAIN x : Without(x, c) \in DOMAIN vertices
<1>0. \A p \in DOMAIN vertices : IsPattern(p) /\ Cardinality(DOMAIN p) = arity
  BY ArityIs DEF PrunedInv
<1>1. ASSUME x \in Joins PROVE x \in OfArity({arity + 1}) /\ \A c \in DOMAIN x : Without(x, c) \in DOMAIN vertices
  <2> DEFINE Union(p, q) == With(p, <<Max(DOMAIN q), q[Max(DOMAIN q)]>>)
  <2>1. PICK p \in DOMAIN vertices : \E q \in DOMAIN vertices : SharePrefix(p, q) /\ x = Union(p, q)
    BY <1>1 DEF Joins
  <2>2. \A c \in DOMAIN x : Without(x, c) \in DOMAIN vertices
    BY <1>1 DEF Joins
  <2>4. PICK q \in DOMAIN vertices : SharePrefix(p, q) /\ x = Union(p, q)
    BY <2>1
  <2> DEFINE m == Max(DOMAIN q)
  <2>5. SharePrefix(p, q) /\ x = Union(p, q) /\ IsPattern(p) /\ IsPattern(q)
    BY <1>0, <2>4
  <2>6. DOMAIN q # {} /\ DOMAIN p # {}
    <3>1. Cardinality(DOMAIN p) # 0 /\ Cardinality(DOMAIN q) # 0
      BY <1>0
    <3> QED BY <3>1, FS_EmptySet
  <2>7. m \in DOMAIN q /\ Max(DOMAIN p) < m /\ \A c \in DOMAIN p : c <= Max(DOMAIN p)
    BY <2>5, <2>6, LastColumn DEF SharePrefix
  <2>8. m \notin DOMAIN p /\ m \in Columns
    <3>1. Max(DOMAIN p) \in Nat /\ m \in Nat
      BY <2>5, <2>6, <2>7, LastColumn DEF IsPattern, Columns
    <3> QED BY <2>5, <2>7, <3>1 DEF IsPattern
  <2>9. /\ x = [d \in DOMAIN x |-> x[d]] /\ DOMAIN x = DOMAIN p \cup {m}
        /\ (\A d \in DOMAIN p : x[d] = p[d]) /\ x[m] = q[m]
    BY <2>5, <2>8 DEF With
  <2> HIDE DEF m, Union
  <2>10. IsPattern(x)
    BY <2>5, <2>7, <2>8, <2>9 DEF IsPattern
  <2>11. Cardinality(DOMAIN x) = arity + 1
    <3>1. IsFiniteSet(DOMAIN p) /\ Cardinality(DOMAIN p) = arity
      BY <1>0, <2>5, ColumnsCounted
    <3>2. Cardinality(DOMAIN p \cup {m}) = Cardinality(DOMAIN p) + 1
      BY <2>8, <3>1, FS_AddElement
    <3> QED BY <2>9, <3>1, <3>2
  <2> QED BY <2>2, <2>10, <2>11, ArityIs
<1>2. ASSUME x \in OfArity({arity + 1}), \A c \in DOMAIN x : Without(x, c) \in DOMAIN vertices PROVE x \in Joins
  <2>1. IsPattern(x) /\ Cardinality(DOMAIN x) = arity + 1
    BY <1>2, ArityIs
  <2>2. DOMAIN x # {}
    <3>1. Cardinality(DOMAIN x) # 0
      BY <2>1
    <3> QED BY <3>1, FS_EmptySet
  <2> DEFINE m == Max(DOMAIN x)
             p == Without(x, m)
  <2>3. m \in DOMAIN x /\ \A c \in DOMAIN x : c <= m
    BY <2>1, <2>2, LastColumn
  <2> HIDE DEF m
  <2>4. /\ DOMAIN p = DOMAIN x \ {m} /\ (\A c \in DOMAIN x \ {m} : p[c] = x[c])
        /\ IsPattern(p) /\ p \in DOMAIN vertices /\ Cardinality(DOMAIN p) = arity
    <3>1. DOMAIN p = DOMAIN x \ {m} /\ (\A c \in DOMAIN x \ {m} : p[c] = x[c])
      BY WithoutIs
    <3>2. p \in DOMAIN vertices
      BY <1>2, <2>3
    <3> QED BY <1>0, <3>1, <3>2
  <2> HIDE DEF p
  <2>5. DOMAIN p # {}
    <3>1. Cardinality(DOMAIN p) # 0
      BY <2>4
    <3> QED BY <3>1, FS_EmptySet
  <2> DEFINE k == Max(DOMAIN p)
             q == Without(x, k)
  <2>6. k \in DOMAIN p /\ \A c \in DOMAIN p : c <= k
    BY <2>4, <2>5, LastColumn
  <2> HIDE DEF k
  <2>7. k \in DOMAIN x /\ k # m /\ k < m
    <3>1. k \in Nat /\ m \in Nat /\ k <= m /\ k # m /\ k \in DOMAIN x
      BY <2>1, <2>3, <2>4, <2>6 DEF IsPattern, Columns
    <3> QED BY <3>1
  <2>8. /\ DOMAIN q = DOMAIN x \ {k} /\ (\A c \in DOMAIN x \ {k} : q[c] = x[c])
        /\ IsPattern(q) /\ q \in DOMAIN vertices
    <3>1. DOMAIN q = DOMAIN x \ {k} /\ (\A c \in DOMAIN x \ {k} : q[c] = x[c])
      BY WithoutIs
    <3>2. q \in DOMAIN vertices
      BY <1>2, <2>7
    <3> QED BY <1>0, <3>1, <3>2
  <2>9. Without(p, k) = Without(q, m)
    BY WithoutTwo DEF p
  <2> HIDE DEF q
  <2>10. Max(DOMAIN q) = m /\ q[m] = x[m]
    <3>1. m \in DOMAIN q /\ q[m] = x[m] /\ \A c \in DOMAIN q : c <= m
      BY <2>3, <2>7, <2>8
    <3> QED BY <2>8, <3>1, LargestColumn
  <2>11. SharePrefix(p, q)
    BY <2>7, <2>9, <2>10 DEF SharePrefix, k
  <2>12. With(p, <<m, x[m]>>) = x
    BY <2>1, <2>3, WithWithout DEF p, IsPattern
  <2>13. x = With(p, <<Max(DOMAIN q), q[Max(DOMAIN q)]>>)
    BY <2>10, <2>12
  <2> DEFINE Last(o) == <<Max(DOMAIN o), o[Max(DOMAIN o)]>>
             made(u) == {With(u, Last(o)) : o \in {o \in DOMAIN vertices : SharePrefix(u, o)}}
             unions == UNION {made(u) : u \in DOMAIN vertices}
  <2>14. x \in made(p)
    BY <2>8, <2>11, <2>13
  <2>15. Joins = {y \in unions : \A c \in DOMAIN y : Without(y, c) \in DOMAIN vertices}
    BY DEF Joins
  <2> HIDE DEF made
  <2>16. x \in unions
    BY <2>4, <2>14
  <2> HIDE DEF unions
  <2> QED BY <1>2, <2>15, <2>16
<1> QED BY <1>1, <1>2

\* What no parent has dropped is what the pattern starts with.
LEMMA CommonRhsIs ==
  ASSUME TableInv, PrunedInv, NEW x, IsPattern(x), Cardinality(DOMAIN x) > 1,
         \A c \in DOMAIN x : Without(x, c) \in DOMAIN vertices
  PROVE  CommonRhs(x) = Start(x)
<1>1. \A c \in DOMAIN x : vertices[Without(x, c)].rhs = Rest(Without(x, c))
  BY DEF PrunedInv
<1>2. ASSUME NEW c, DOMAIN x = {c} PROVE FALSE
  <2>1. Cardinality({c}) = 1
    BY FS_Singleton
  <2> QED BY <1>2, <2>1
<1>3. DOMAIN x # {}
  BY FS_EmptySet
<1>4. Max(DOMAIN x) \in DOMAIN x
  BY <1>3, LastColumn
<1>5. CommonRhs(x) = {a \in Rest(Without(x, Max(DOMAIN x))) : \A c \in DOMAIN x : a \in Rest(Without(x, c))}
  BY <1>1, <1>4 DEF CommonRhs
<1>6. ASSUME NEW a, \A c \in DOMAIN x : a \in Rest(Without(x, c)) PROVE a \in Singles /\ Fits(x, a)
  <2>1. a \in Singles
    BY <1>4, <1>6 DEF Rest
  <2>2. ASSUME a[1] \in DOMAIN x PROVE a[2] = x[a[1]]
    <3>1. PICK d \in DOMAIN x : d # a[1]
      BY <1>2, <2>2
    <3> DEFINE w == Without(x, d)
    <3>2. DOMAIN w = DOMAIN x \ {d} /\ \A e \in DOMAIN x \ {d} : w[e] = x[e]
      BY WithoutIs
    <3>3. Fits(w, a)
      BY <1>6 DEF Rest
    <3> HIDE DEF w
    <3> QED BY <2>2, <3>1, <3>2, <3>3 DEF Fits
  <2> QED BY <2>1, <2>2 DEF Fits
<1> QED BY <1>4, <1>5, <1>6 DEF Start

LEMMA NextLevelIs ==
  ASSUME TableInv, PrunedInv, arity \in Nat \ {0}
  PROVE  /\ \A x \in DOMAIN NextLevel :
              /\ x \in OfArity({arity + 1}) /\ NextLevel[x] = [pli |-> Part(x), rhs |-> Start(x)]
              /\ \A c \in DOMAIN x : Without(x, c) \in DOMAIN vertices /\ vertices[Without(x, c)].pli = Part(Without(x, c))
         /\ \A x \in OfArity({arity + 1}) : Frequent(x) /\ Start(x) # {} => x \in DOMAIN NextLevel
         /\ NextLevel = [x \in DOMAIN NextLevel |-> NextLevel[x]]
<1>1. NextLevel = [x \in {y \in Joins : CommonRhs(y) # {}} |->
        [pli |-> Intersect(vertices[Without(x, Max(DOMAIN x))].pli, vertices[Without(x, Min(DOMAIN x))].pli),
         rhs |-> CommonRhs(x)]]
  BY DEF NextLevel
<1>2. ASSUME NEW x \in OfArity({arity + 1})
      PROVE  IsPattern(x) /\ Cardinality(DOMAIN x) = arity + 1 /\ Cardinality(DOMAIN x) > 1 /\ DOMAIN x # {}
  <2>1. IsPattern(x) /\ Cardinality(DOMAIN x) = arity + 1
    BY ArityIs
  <2>2. DOMAIN x # {}
    BY <2>1, FS_EmptySet
  <2> QED BY <2>1, <2>2
<1>3. ASSUME NEW x \in DOMAIN NextLevel
      PROVE  /\ x \in OfArity({arity + 1}) /\ NextLevel[x] = [pli |-> Part(x), rhs |-> Start(x)]
             /\ \A c \in DOMAIN x : Without(x, c) \in DOMAIN vertices /\ vertices[Without(x, c)].pli = Part(Without(x, c))
  <2>1. x \in Joins
    BY <1>1
  <2>2. x \in OfArity({arity + 1}) /\ \A c \in DOMAIN x : Without(x, c) \in DOMAIN vertices
    BY <2>1, JoinsIs
  <2>3. \A c \in DOMAIN x : vertices[Without(x, c)].pli = Part(Without(x, c))
    BY <2>2 DEF PrunedInv
  <2>4. CommonRhs(x) = Start(x)
    BY <1>2, <2>2, CommonRhsIs
  <2> DEFINE m == Max(DOMAIN x)
             k == Min(DOMAIN x)
  <2>5. m \in DOMAIN x /\ k \in DOMAIN x /\ m # k
    <3>1. m \in DOMAIN x /\ \A c \in DOMAIN x : c <= m
      BY <1>2, <2>2, LastColumn
    <3>2. k \in DOMAIN x /\ \A c \in DOMAIN x : k <= c
      BY <1>2, <2>2, MinOf, ColumnsCounted
    <3> HIDE DEF m, k
    <3>3. DOMAIN x # {m} /\ DOMAIN x \subseteq Nat
      <4>1. Cardinality({m}) = 1
        BY FS_Singleton
      <4> QED BY <1>2, <2>2, <4>1, ColumnsCounted
    <3>4. PICK c \in DOMAIN x : c # m
      BY <3>1, <3>3
    <3>5. k <= c /\ c <= m /\ k \in Nat /\ c \in Nat /\ m \in Nat
      BY <3>1, <3>2, <3>3
    <3> QED BY <3>1, <3>2, <3>4, <3>5
  <2>6. NextLevel[x] = [pli |-> Intersect(vertices[Without(x, m)].pli, vertices[Without(x, k)].pli), rhs |-> Start(x)]
    BY <1>1, <2>4
  <2>7. Intersect(vertices[Without(x, m)].pli, vertices[Without(x, k)].pli) = Part(x)
    <3> HIDE DEF m, k
    <3>1. vertices[Without(x, m)].pli = Part(Without(x, m)) /\ vertices[Without(x, k)].pli = Part(Without(x, k))
      BY <2>3, <2>5
    <3>2. Intersect(Part(Without(x, m)), Part(Without(x, k))) = Part(x)
      BY <2>5, PartOfTwo
    <3> QED BY <3>1, <3>2
  <2> QED BY <2>2, <2>3, <2>6, <2>7
<1>4. ASSUME NEW x \in OfArity({arity + 1}), Frequent(x), Start(x) # {} PROVE x \in DOMAIN NextLevel
  <2>1. PICK a \in Start(x) : TRUE
    BY <1>4
  <2>2. ASSUME NEW c \in DOMAIN x PROVE Without(x, c) \in DOMAIN vertices
    <3> DEFINE w == Without(x, c)
    <3>1. IsPattern(w) /\ General(w, x)
      BY <1>2, WithoutPattern, GeneralSelf, WithoutGeneral DEF IsPattern
    <3>2. Cardinality(DOMAIN w) = arity
      <4>1. Cardinality(DOMAIN w) = Cardinality(DOMAIN x) - 1
        BY <1>2, ColumnsCounted
      <4> QED BY <1>2, <4>1
    <3>3. a \in Rest(w)
      BY <2>1 DEF Start
    <3> HIDE DEF w
    <3>4. Frequent(w) /\ w \in OfArity({arity})
      BY <1>4, <3>1, <3>2, FrequentGeneral, ArityIs
    <3>5. w \in DOMAIN vertices
      BY <3>3, <3>4 DEF PrunedInv
    <3> QED BY <3>5 DEF w
  <2>3. x \in Joins /\ CommonRhs(x) = Start(x)
    BY <1>2, <2>2, JoinsIs, CommonRhsIs
  <2> QED BY <1>1, <1>4, <2>3
<1>5. NextLevel = [x \in DOMAIN NextLevel |-> NextLevel[x]]
  BY <1>1
<1> QED BY <1>3, <1>4, <1>5

-----------------------------------------------------------------------------
(* Steps. *)

\* What the rows and the thresholds say stays when they do.
LEMMA DataStays ==
  ASSUME UNCHANGED <<table, configVars>>
  PROVE  /\ MaxLevel' = MaxLevel
         /\ \A p : IsPattern(p)' <=> IsPattern(p)
         /\ \A p : Part(p)' = Part(p)
         /\ \A p : Frequent(p)' <=> Frequent(p)
         /\ \A p : Start(p)' = Start(p)
         /\ \A p : Rest(p)' = Rest(p)
         /\ \A all, x : Emitted(all, x)' = Emitted(all, x)
         /\ \A sizes : OfArity(sizes)' = OfArity(sizes)
         /\ \A q, c, v : Follows(q, c, v)' <=> Follows(q, c, v)
         /\ \A q, c, v : Least(q, c, v)' <=> Least(q, c, v)
<1>1. table' = table /\ minSup' = minSup /\ minConf' = minConf /\ maxLhs' = maxLhs
  BY DEF configVars
<1>2. MaxLevel' = MaxLevel
  BY <1>1 DEF MaxLevel
<1>3. Tuples' = Tuples /\ \A c : Known(c)' = Known(c)
  BY <1>1 DEF Known, Tuples
<1>4. \A p : IsPattern(p)' <=> IsPattern(p)
  BY <1>3 DEF IsPattern
<1>5. \A p : Matching(p)' = Matching(p)
  BY <1>1, <1>3 DEF Matching, Matches
<1>6. \A X, r, s : Agree(X, r, s)' <=> Agree(X, r, s)
  BY <1>1 DEF Agree
<1>7. \A p, r : Same(p, r)' = Same(p, r)
  BY <1>5, <1>6 DEF Same
<1>8. \A p : Part(p)' = Part(p)
  BY <1>5, <1>7 DEF Part
<1>9. \A p : Frequent(p)' <=> Frequent(p)
  BY <1>1, <1>5 DEF Frequent
<1>10. \A q, c, v : Follows(q, c, v)' <=> Follows(q, c, v)
  BY <1>1, <1>5, <1>6 DEF Follows
<1>11. \A X : Patterns(X)' = Patterns(X)
  BY <1>3 DEF Patterns
<1>12. \A p : AtLeastAsGeneral(p)' = AtLeastAsGeneral(p)
  BY <1>11 DEF AtLeastAsGeneral
<1>13. \A q, c, v : Least(q, c, v)' <=> Least(q, c, v)
  BY <1>10, <1>12 DEF Least
<1>14. \A p, a : Gone(p, a)' <=> Gone(p, a)
  BY <1>10, <1>12 DEF Gone
<1>15. Singles' = Singles
  BY <1>3, <1>9 DEF Singles
<1>16. \A p : Rest(p)' = Rest(p)
  BY <1>14, <1>15 DEF Rest
<1>17. \A p : Start(p)' = Start(p)
  BY <1>15, <1>16 DEF Start
<1>18. AllPatterns' = AllPatterns
  BY <1>4, <1>11 DEF AllPatterns
<1>19. \A sizes : OfArity(sizes)' = OfArity(sizes)
  BY <1>18 DEF OfArity
<1>20. \A all, x : Emitted(all, x)' = Emitted(all, x)
  <2>0. \A all, p : Generals(all, p)' = Generals(all, p)
    BY <1>12 DEF Generals
  <2>1. \A all, x, c : Implied(all, x, c)' <=> Implied(all, x, c)
    BY <1>10, <1>12, <2>0 DEF Implied
  <2>2. \A p, a : MostKept(p, a)' = MostKept(p, a)
    BY <1>1 DEF MostKept, Matching, Matches, Known, Tuples
  <2>3. \A all, x, c : DueAt(all, x, c)' <=> DueAt(all, x, c)
    BY <1>1, <1>5, <1>9, <2>1, <2>2 DEF DueAt, EnoughConfidence
  <2> QED BY <2>3 DEF Emitted
<1> QED BY <1>2, <1>4, <1>8, <1>9, <1>10, <1>13, <1>16, <1>17, <1>19, <1>20

LEMMA PatternsFinite ==
  ASSUME TableInv
  PROVE  IsFiniteSet(AllPatterns)
<1> DEFINE values == {Unnamed} \cup UNION {Known(c) : c \in Columns}
           graph == [p \in AllPatterns |-> {i \in Columns \X values : i[1] \in DOMAIN p /\ i[2] = p[i[1]]}]
<1>1. IsFiniteSet(Columns)
  BY ColumnsFinite
<1>2. IsFiniteSet(values)
  <2> DEFINE known == {Known(c) : c \in Columns}
             f == [c \in Columns |-> Known(c)]
  <2>1. f \in Surjection(Columns, known)
    BY Fun_IsSurj
  <2>2. IsFiniteSet(known)
    BY <1>1, <2>1, FS_Surjection
  <2>3. \A T \in known : IsFiniteSet(T)
    BY KnownTyped
  <2>4. IsFiniteSet(UNION known) /\ IsFiniteSet({Unnamed})
    <3> HIDE DEF known
    <3> QED BY <2>2, <2>3, FS_UNION, FS_Singleton
  <2> QED BY <2>4, FS_Union
<1>3. IsFiniteSet(SUBSET (Columns \X values))
  <2> HIDE DEF values
  <2> QED BY <1>1, <1>2, FS_Product, FS_SUBSET
<1>4. ASSUME NEW p \in AllPatterns, NEW c
      PROVE  c \in DOMAIN p <=> \E i \in graph[p] : i[1] = c
  <2>1. IsPattern(p)
    BY DEF AllPatterns
  <2>2. ASSUME c \in DOMAIN p PROVE \E i \in graph[p] : i[1] = c
    <3>1. c \in Columns /\ p[c] \in values
      BY <2>1, <2>2 DEF IsPattern
    <3>2. <<c, p[c]>> \in graph[p]
      BY <2>2, <3>1
    <3> QED BY <3>2
  <2> QED BY <2>2
<1>5. ASSUME NEW p \in AllPatterns, NEW q \in AllPatterns, graph[p] = graph[q] PROVE p = q
  <2>1. IsPattern(p) /\ IsPattern(q)
    BY DEF AllPatterns
  <2>2. DOMAIN p = DOMAIN q
    <3>1. \A c : c \in DOMAIN p <=> c \in DOMAIN q
      <4> HIDE DEF graph
      <4> QED BY <1>4, <1>5
    <3> QED BY <3>1
  <2>3. ASSUME NEW c \in DOMAIN p PROVE p[c] = q[c]
    <3>1. PICK i \in graph[p] : i[1] = c
      BY <1>4
    <3>2. i \in graph[q]
      BY <1>5
    <3> QED BY <3>1, <3>2
  <2> HIDE DEF graph
  <2> QED BY <2>1, <2>2, <2>3, SamePattern DEF IsPattern
<1>6. graph \in Injection(AllPatterns, SUBSET (Columns \X values))
  <2>1. graph \in [AllPatterns -> SUBSET (Columns \X values)]
    OBVIOUS
  <2> HIDE DEF graph
  <2> QED BY <1>5, <2>1, Fun_IsInj
<1> QED BY <1>3, <1>6, FS_Injection

LEMMA TableStays ==
  ASSUME TableInv, UNCHANGED <<table, configVars>>, phase' \in {"check", "join", "done", "undefined"},
         phase' \in {"check", "join"} => arity' \in 1..MaxLevel, phase' = "join" => arity' < MaxLevel,
         inOrder' \in BOOLEAN
  PROVE  TableInv'
<1>1. MaxLevel' = MaxLevel
  BY DataStays
<1>2. table' = table /\ minSup' = minSup /\ minConf' = minConf /\ maxLhs' = maxLhs
  BY DEF configVars
<1> QED BY <1>1, <1>2 DEF TableInv

\* Of patterns without what is due nothing is found.
LEMMA SameEmitted ==
  ASSUME NEW old, NEW new, CfdsOf(old),
         \A all \in BOOLEAN : /\ \A x \in old : x \in new
                             /\ \A x \in new : x \in old \/ Emitted(all, x) = {}
  PROVE  CfdsOf(new)
<1>1. ASSUME NEW all \in BOOLEAN PROVE AllOf(all, new) = AllOf(all, old)
  BY DEF AllOf
<1>2. AllOf(TRUE, new) = AllOf(TRUE, old) /\ AllOf(FALSE, new) = AllOf(FALSE, old)
  BY <1>1
<1> QED BY <1>2 DEF CfdsOf

\* What is found is due when the next level starts.
LEMMA CfdsStay ==
  ASSUME UNCHANGED <<table, configVars>>, cfds' = cfds, inOrder' => inOrder,
         NEW n, arity' = n, CfdsOf(OfArity(1..n) \ unchecked')
  PROVE  CfdsOf(OfArity(1..arity) \ unchecked)'
<1>1. /\ \A all, x : Emitted(all, x)' = Emitted(all, x)
      /\ \A sizes : OfArity(sizes)' = OfArity(sizes)
  BY DataStays
<1>2. (OfArity(1..arity) \ unchecked)' = OfArity(1..n) \ unchecked'
  BY <1>1
<1>3. AllOf(TRUE, OfArity(1..arity) \ unchecked)' = AllOf(TRUE, OfArity(1..n) \ unchecked')
  BY <1>1, <1>2 DEF AllOf
<1>4. AllOf(FALSE, OfArity(1..arity) \ unchecked)' = AllOf(FALSE, OfArity(1..n) \ unchecked')
  BY <1>1, <1>2 DEF AllOf
<1> QED BY <1>3, <1>4 DEF CfdsOf

\* A level starts with all that its patterns start with; without any, no later one has
\* what is due.
LEMMA LevelStarts ==
  ASSUME TableInv, UNCHANGED <<table, configVars>>, NEW n \in 1..MaxLevel, arity' = n, unchecked' = DOMAIN vertices',
         vertices' = [p \in DOMAIN vertices' |-> vertices'[p]],
         \A p \in DOMAIN vertices' : /\ p \in OfArity({n}) /\ vertices'[p] = [pli |-> Part(p), rhs |-> Start(p)]
                                     /\ \A c \in DOMAIN p : /\ Without(p, c) \in DOMAIN below'
                                                            /\ below'[Without(p, c)] = Part(Without(p, c)),
         \A x \in OfArity({n}) : Frequent(x) /\ Start(x) # {} => x \in DOMAIN vertices',
         CfdsOf(OfArity(1..(n - 1))), cfds' = cfds, inOrder' => inOrder
  PROVE  /\ LevelInv' /\ VertexInv' /\ TakenAway' /\ AllTaken' /\ CfdsOf(OfArity(1..arity) \ unchecked)'
         /\ unchecked' = {} => CfdsOf(OfArity(1..MaxLevel))'
<1>0. MaxLevel \in Nat \ {0} /\ n \in Nat \ {0} /\ n <= MaxLevel
  BY MaxLevelIs
<1>1. /\ MaxLevel' = MaxLevel
      /\ \A p : Part(p)' = Part(p)
      /\ \A p : Frequent(p)' <=> Frequent(p)
      /\ \A p : Start(p)' = Start(p)
      /\ \A all, x : Emitted(all, x)' = Emitted(all, x)
      /\ \A sizes : OfArity(sizes)' = OfArity(sizes)
  BY DataStays
<1>2. vertices' = [p \in DOMAIN vertices' |-> [pli |-> vertices'[p].pli, rhs |-> vertices'[p].rhs]]
  <2>1. \A p \in DOMAIN vertices' : vertices'[p] = [pli |-> vertices'[p].pli, rhs |-> vertices'[p].rhs]
    OBVIOUS
  <2> QED BY <2>1
<1>3. LevelInv'
  BY <1>1, <1>2 DEF LevelInv
<1>4. VertexInv'
  <2>1. \A p \in DOMAIN vertices' : vertices'[p].pli = Part(p) /\ vertices'[p].rhs = Start(p)
    OBVIOUS
  <2> QED BY <1>1, <2>1 DEF VertexInv
<1>5. TakenAway'
  BY <1>1 DEF TakenAway
<1>6. AllTaken'
  BY DEF AllTaken, Checked
<1>7. ASSUME NEW x \in OfArity({n}), x \notin unchecked', NEW all \in BOOLEAN PROVE Emitted(all, x) = {}
  <2>1. IsPattern(x)
    BY ArityIs
  <2>2. ~(Frequent(x) /\ Start(x) # {})
    BY <1>7
  <2>3. \A c \in DOMAIN x : ~DueAt(all, x, c)
    BY <2>1, <2>2, DueStarts
  <2> QED BY <2>3 DEF Emitted
<1>8. ASSUME NEW x \in OfArity(1..n) PROVE x \in OfArity(1..(n - 1)) \/ x \in OfArity({n})
  <2>1. IsPattern(x) /\ Cardinality(DOMAIN x) \in 1..n
    BY ArityIs
  <2>2. Cardinality(DOMAIN x) \in 1..(n - 1) \/ Cardinality(DOMAIN x) = n
    BY <1>0, <2>1
  <2> QED BY <2>1, <2>2, ArityIs
<1>9. ASSUME NEW x \in OfArity(1..(n - 1)) PROVE x \in OfArity(1..n) /\ x \notin unchecked'
  <2>1. IsPattern(x) /\ Cardinality(DOMAIN x) \in 1..(n - 1)
    BY ArityIs
  <2>2. Cardinality(DOMAIN x) \in 1..n /\ Cardinality(DOMAIN x) # n
    BY <1>0, <2>1
  <2>3. x \notin OfArity({n})
    BY <2>2, ArityIs
  <2> QED BY <2>1, <2>2, <2>3, ArityIs
<1>10. CfdsOf(OfArity(1..arity) \ unchecked)'
  <2> DEFINE old == OfArity(1..(n - 1))
             new == OfArity(1..n) \ unchecked'
  <2>1. \A all \in BOOLEAN : /\ \A x \in old : x \in new
                             /\ \A x \in new : x \in old \/ Emitted(all, x) = {}
    BY <1>7, <1>8, <1>9
  <2> HIDE DEF old, new
  <2>2. CfdsOf(new)
    BY <2>1, SameEmitted DEF old
  <2> QED BY <2>2, CfdsStay DEF new
<1>11. ASSUME unchecked' = {} PROVE CfdsOf(OfArity(1..MaxLevel))'
  <2>1. \A x \in OfArity({n}) : ~(Frequent(x) /\ Start(x) # {})
    BY <1>11
  <2>2. ASSUME NEW x \in OfArity(1..MaxLevel), x \notin OfArity(1..(n - 1)), NEW all \in BOOLEAN
        PROVE  Emitted(all, x) = {}
    <3>1. IsPattern(x) /\ Cardinality(DOMAIN x) \in 1..MaxLevel /\ Cardinality(DOMAIN x) \notin 1..(n - 1)
      BY <2>2, ArityIs
    <3>2. Cardinality(DOMAIN x) >= n
      BY <1>0, <3>1
    <3> QED BY <1>0, <2>1, <3>1, <3>2, NoneLater
  <2>3. ASSUME NEW x \in OfArity(1..(n - 1)) PROVE x \in OfArity(1..MaxLevel)
    <3>1. IsPattern(x) /\ Cardinality(DOMAIN x) \in 1..(n - 1)
      BY ArityIs
    <3>2. Cardinality(DOMAIN x) \in 1..MaxLevel
      BY <1>0, <3>1
    <3> QED BY <3>1, <3>2, ArityIs
  <2>4. CfdsOf(OfArity(1..MaxLevel))
    BY <2>2, <2>3, SameEmitted
  <2>5. OfArity(1..MaxLevel)' = OfArity(1..MaxLevel)
    BY <1>1
  <2>6. /\ AllOf(TRUE, OfArity(1..MaxLevel))' = AllOf(TRUE, OfArity(1..MaxLevel)) /\ AllOf(FALSE, OfArity(1..MaxLevel))' = AllOf(FALSE, OfArity(1..MaxLevel))
    BY <1>1, <2>5 DEF AllOf
  <2> QED BY <2>4, <2>6 DEF CfdsOf
<1> QED BY <1>3, <1>4, <1>5, <1>6, <1>10, <1>11

LEMMA InitHolds ==
  CTaneInit => CTaneInv
<1> SUFFICES ASSUME CTaneInit PROVE CTaneInv
  OBVIOUS
<1>1. table \in Seq([Columns -> {Null} \cup (Nat \ {0})])
  BY DEF CTaneInit
<1>2. minSup \in Nat \ {0} /\ minConf \in Nat \X (Nat \ {0}) /\ maxLhs \in Nat /\ phase = "read" /\ cfds = {} /\ inOrder = TRUE
  BY CTaneAssumption DEF CTaneInit
<1> QED BY <1>1, <1>2 DEF CTaneInv, TableInv

LEMMA ReadTupleKeeps ==
  ASSUME CTaneInv, NEW tuple \in [Columns -> Null..MaxTuples], ReadTuple(tuple)
  PROVE  CTaneInv'
<1>0. TableInv /\ phase = "read" /\ cfds = {}
  BY DEF CTaneInv, TableInv, ReadTuple
<1>1. \A c \in Columns : tuple[c] \in {Null} \cup (Nat \ {0})
  <2> SUFFICES ASSUME NEW c \in Columns PROVE tuple[c] \in {Null} \cup (Nat \ {0})
    OBVIOUS
  <2>1. tuple[c] \in Known(c) \cup {Cardinality(Known(c)) + 1, Null}
    BY DEF ReadTuple
  <2>2. Known(c) \subseteq Nat \ {0} /\ Cardinality(Known(c)) \in Nat
    BY <1>0, KnownTyped
  <2> QED BY <2>1, <2>2
<1>2. tuple \in [Columns -> {Null} \cup (Nat \ {0})]
  BY <1>1
<1>3. table' \in Seq([Columns -> {Null} \cup (Nat \ {0})])
  BY <1>0, <1>2 DEF TableInv, ReadTuple
<1>4. /\ phase' = "read" /\ cfds' = {} /\ minSup' = minSup /\ minConf' = minConf /\ maxLhs' = maxLhs
      /\ inOrder' = inOrder
  BY <1>0 DEF ReadTuple, configVars
<1> QED BY <1>0, <1>3, <1>4 DEF CTaneInv, TableInv

\* A table without rows has no index.
LEMMA NoRowsNoIndex ==
  ASSUME TableInv, table = <<>>, NEW c
  PROVE  CreateFor(c) = <<>>
<1>1. Known(c) = {}
  BY DEF Known, Tuples
<1>2. Size({ValueCluster(c, v) : v \in Known(c)}) = 0
  <2>1. UNION {ValueCluster(c, v) : v \in Known(c)} = {}
    BY <1>1
  <2> QED BY <2>1, FS_EmptySet DEF Size
<1>3. 0 < minSup
  BY DEF TableInv
<1> QED BY <1>2, <1>3 DEF CreateFor

LEMMA InitializeKeeps ==
  ASSUME CTaneInv, Initialize
  PROVE  CTaneInv'
<1>0. /\ TableInv /\ phase = "read" /\ cfds = {} /\ UNCHANGED <<table, configVars>> /\ cfds' = cfds
      /\ CreateFor(1) # <<>> /\ inOrder \in BOOLEAN /\ inOrder' = inOrder
  BY DEF CTaneInv, TableInv, Initialize
<1>1. /\ arity' = 1 /\ vertices' = FirstLevel /\ below' = [p \in {<<>>} |-> PliForEmptyVertex]
      /\ unchecked' = DOMAIN vertices'
      /\ phase' = "check"
  BY DEF Initialize
<1>2. 1 \in 1..MaxLevel
  BY <1>0, MaxLevelIs
<1>3. /\ \A p : p \in DOMAIN vertices' <=> p \in OfArity({1}) /\ Frequent(p)
      /\ \A p \in DOMAIN vertices' : vertices'[p] = [pli |-> Part(p), rhs |-> Start(p)]
      /\ vertices' = [p \in DOMAIN vertices' |-> vertices'[p]]
  BY <1>0, <1>1, FirstLevelIs
<1>4. ASSUME NEW p \in DOMAIN vertices', NEW c \in DOMAIN p
      PROVE  Without(p, c) \in DOMAIN below' /\ below'[Without(p, c)] = Part(Without(p, c))
  <2>1. IsPattern(p) /\ Cardinality(DOMAIN p) = 1
    BY <1>3, ArityIs
  <2>2. PICK d \in Columns : \E v \in {Unnamed} \cup Known(d) : p = Only(d, v)
    BY <2>1, OneColumn
  <2>3. PICK v \in {Unnamed} \cup Known(d) : p = Only(d, v)
    BY <2>2
  <2>4. d = c
    <3>1. DOMAIN Only(d, v) = {d}
      BY OnlyIs
    <3> QED BY <2>3, <3>1
  <2>5. Without(p, c) = <<>> /\ Part(<<>>) = PliForEmptyVertex
    BY <1>0, <2>3, <2>4, EmptyVertex, NoRowsNoIndex
  <2> QED BY <1>1, <2>5
<1>5. CfdsOf(OfArity(1..(1 - 1)))
  <2>1. ASSUME NEW x \in OfArity(1..(1 - 1)) PROVE FALSE
    <3>1. Cardinality(DOMAIN x) \in 1..(1 - 1)
      BY ArityIs
    <3> QED BY <3>1
  <2> QED BY <1>0, <2>1 DEF CfdsOf, AllOf
<1>6. \A x \in OfArity({1}) : Frequent(x) /\ Start(x) # {} => x \in DOMAIN vertices'
  BY <1>3
<1>7. /\ LevelInv' /\ VertexInv' /\ TakenAway' /\ AllTaken' /\ CfdsOf(OfArity(1..arity) \ unchecked)'
      /\ unchecked' = {} => CfdsOf(OfArity(1..MaxLevel))'
  BY <1>0, <1>1, <1>2, <1>3, <1>4, <1>5, <1>6, LevelStarts
<1>8. TableInv'
  BY <1>0, <1>1, <1>2, TableStays
<1> QED BY <1>1, <1>7, <1>8 DEF CTaneInv

LEMMA UndefinedKeeps ==
  ASSUME CTaneInv, Undefined
  PROVE  CTaneInv'
<1>1. TableInv /\ phase' = "undefined" /\ UNCHANGED <<table, configVars>> /\ inOrder \in BOOLEAN /\ inOrder' = inOrder
  BY DEF CTaneInv, TableInv, Undefined
<1>2. TableInv'
  BY <1>1, TableStays
<1> QED BY <1>1, <1>2 DEF CTaneInv

LEMMA CheckVertexKeeps ==
  ASSUME CTaneInv, CheckVertex
  PROVE  CTaneInv'
<1>1. PICK x \in unchecked :
        /\ inOrder => \A q \in unchecked : DOMAIN q = DOMAIN x => ~Precedes(q, x)
        /\ cfds' = cfds \cup {[lhs |-> Without(x, c), rhs |-> <<c, x[c]>>] :
                               c \in {d \in Tried(x) : EnoughConfidence(Confidence(x, d))}}
        /\ \E exact \in SUBSET DOMAIN x :
             /\ exact = {c \in Tried(x) : Confidence(x, c)[1] = Confidence(x, c)[2]}
             /\ PruneCandidates(x, exact)
        /\ unchecked' = unchecked \ {x}
  BY DEF CheckVertex
<1>2. PICK exact \in SUBSET DOMAIN x :
        /\ exact = {c \in Tried(x) : Confidence(x, c)[1] = Confidence(x, c)[2]}
        /\ PruneCandidates(x, exact)
  BY <1>1
<1> DEFINE new == {[lhs |-> Without(x, c), rhs |-> <<c, x[c]>>] :
                     c \in {d \in Tried(x) : EnoughConfidence(Confidence(x, d))}}
<1>0. /\ TableInv /\ phase = "check" /\ LevelInv /\ VertexInv /\ TakenAway /\ AllTaken /\ unchecked # {}
      /\ CfdsOf(OfArity(1..arity) \ unchecked)
      /\ UNCHANGED <<table, configVars>> /\ UNCHANGED <<arity, below, phase>>
      /\ inOrder \in BOOLEAN /\ inOrder' = inOrder
      /\ unchecked' = unchecked \ {x}
  BY <1>1 DEF CTaneInv, TableInv, CheckVertex
<1>3. cfds' = cfds \cup new
  BY <1>1
<1>4. /\ x \in DOMAIN vertices /\ IsPattern(x) /\ Cardinality(DOMAIN x) = arity /\ vertices[x].pli = Part(x)
      /\ \A c \in DOMAIN x : below[Without(x, c)] = Part(Without(x, c))
  BY <1>0, <1>1, ArityIs DEF LevelInv, VertexInv
<1>5. ASSUME NEW c \in DOMAIN x
      PROVE  /\ c \in Tried(x) => Frequent(x) /\ ~Implied(FALSE, x, c)
             /\ Frequent(x) /\ ~Implied(TRUE, x, c) => c \in Tried(x)
             /\ inOrder /\ c \in Tried(x) => ~Implied(TRUE, x, c)
  <2>1. Size(vertices[x].pli) >= minSup <=> Frequent(x)
    BY <1>0, <1>4, PartIs DEF Frequent
  <2>2. Frequent(x) /\ ~Implied(TRUE, x, c) => <<c, x[c]>> \in vertices[x].rhs
    BY <1>0, <1>1, NotImpliedIsCandidate
  <2>3. ASSUME Frequent(x), <<c, x[c]>> \in vertices[x].rhs
        PROVE  ~Implied(FALSE, x, c) /\ (inOrder => ~Implied(TRUE, x, c))
    BY <1>0, <1>1, <2>3, CandidateIsNotImplied
  <2> QED BY <2>1, <2>2, <2>3 DEF Tried
<1>6. ASSUME NEW c \in DOMAIN x
      PROVE  /\ Confidence(x, c)[1] = Confidence(x, c)[2] <=> Follows(Without(x, c), c, x[c])
             /\ EnoughConfidence(Confidence(x, c)) <=>
                  EnoughConfidence(<<MostKept(Without(x, c), <<c, x[c]>>), Cardinality(Matching(Without(x, c)))>>)
  BY <1>0, <1>4, ConfidenceIs
<1>7. /\ Emitted(TRUE, x) \subseteq new /\ new \subseteq Emitted(FALSE, x)
      /\ inOrder => new \subseteq Emitted(TRUE, x)
  <2>1. ASSUME NEW c
        PROVE  /\ c \in {d \in DOMAIN x : DueAt(TRUE, x, d)} => c \in {d \in Tried(x) : EnoughConfidence(Confidence(x, d))}
               /\ c \in {d \in Tried(x) : EnoughConfidence(Confidence(x, d))} =>
                    /\ c \in {d \in DOMAIN x : DueAt(FALSE, x, d)}
                    /\ inOrder => c \in {d \in DOMAIN x : DueAt(TRUE, x, d)}
    BY <1>5, <1>6 DEF DueAt, Tried
  <2> QED BY <2>1 DEF Emitted
<1> HIDE DEF new
<1>8. /\ \A c \in exact : c \in DOMAIN x /\ Follows(Without(x, c), c, x[c])
      /\ \A c \in DOMAIN x : Frequent(x) /\ ~Implied(TRUE, x, c) /\ Follows(Without(x, c), c, x[c]) => c \in exact
  BY <1>2, <1>5, <1>6
<1>9. /\ DOMAIN vertices' = DOMAIN vertices
      /\ vertices' = [p \in DOMAIN vertices' |-> [pli |-> vertices'[p].pli, rhs |-> vertices'[p].rhs]]
      /\ \A p \in DOMAIN vertices : vertices'[p].pli = vertices[p].pli
      /\ \A p \in DOMAIN vertices :
           vertices'[p].rhs = {a \in vertices[p].rhs : \A c \in exact : p \in Told(x, c) => a[1] \in DOMAIN x \ {c}}
  <2>1. \A p \in DOMAIN vertices : vertices[p] = [pli |-> vertices[p].pli, rhs |-> vertices[p].rhs]
    BY <1>0 DEF LevelInv
  <2>2. vertices' = [p \in DOMAIN vertices |-> [vertices[p] EXCEPT !.rhs =
                       {a \in vertices[p].rhs : \A c \in exact : p \in Told(x, c) =>
                          a \in StillOfInterest(vertices[p].rhs, x, c)}]]
    BY <1>2 DEF PruneCandidates
  <2> DEFINE left(p) == {a \in vertices[p].rhs : \A c \in exact : p \in Told(x, c) => a[1] \in DOMAIN x \ {c}}
  <2>3. ASSUME NEW p \in DOMAIN vertices
        PROVE  left(p) = {a \in vertices[p].rhs : \A c \in exact : p \in Told(x, c) =>
                            a \in StillOfInterest(vertices[p].rhs, x, c)}
    BY DEF StillOfInterest
  <2> HIDE DEF left
  <2>4. vertices' = [p \in DOMAIN vertices |-> [pli |-> vertices[p].pli, rhs |-> left(p)]]
    <3> DEFINE pruned(p) == [vertices[p] EXCEPT !.rhs = left(p)]
    <3>1. ASSUME NEW p \in DOMAIN vertices PROVE pruned(p) = [pli |-> vertices[p].pli, rhs |-> left(p)]
      BY <2>1
    <3>2. vertices' = [p \in DOMAIN vertices |-> pruned(p)]
      BY <2>2, <2>3
    <3> HIDE DEF pruned
    <3> QED BY <3>1, <3>2
  <2> QED BY <2>4 DEF left
<1>10. /\ MaxLevel' = MaxLevel
       /\ \A p : IsPattern(p)' <=> IsPattern(p)
       /\ \A p : Part(p)' = Part(p)
       /\ \A p : Frequent(p)' <=> Frequent(p)
       /\ \A p : Start(p)' = Start(p)
       /\ \A all, y : Emitted(all, y)' = Emitted(all, y)
       /\ \A sizes : OfArity(sizes)' = OfArity(sizes)
       /\ \A q, c, v : Follows(q, c, v)' <=> Follows(q, c, v)
       /\ \A q, c, v : Least(q, c, v)' <=> Least(q, c, v)
  BY <1>0, DataStays
<1>11. Checked' = Checked \cup {x}
  BY <1>0, <1>1, <1>4, <1>9 DEF Checked
<1>12. LevelInv'
  BY <1>0, <1>9, <1>10 DEF LevelInv
<1>13. VertexInv'
  <2>1. \A p \in DOMAIN vertices : vertices'[p].rhs \subseteq vertices[p].rhs
    BY <1>9
  <2> QED BY <1>0, <1>9, <1>10, <2>1 DEF VertexInv
<1>14. ASSUME NEW p \in DOMAIN vertices, NEW a \in Start(p), a \notin vertices'[p].rhs
       PROVE  \E c \in DOMAIN p : \E y \in Checked' :
                /\ DOMAIN y = DOMAIN p /\ General(y, p) /\ y[c] = p[c]
                /\ Follows(Without(y, c), c, p[c]) /\ a[1] \notin DOMAIN y \ {c}
  <2>1. CASE a \notin vertices[p].rhs
    BY <1>0, <1>11, <1>14, <2>1 DEF TakenAway
  <2>2. CASE a \in vertices[p].rhs
    <3>1. PICK c \in exact : p \in Told(x, c) /\ a[1] \notin DOMAIN x \ {c}
      BY <1>9, <1>14, <2>2
    <3>2. c \in DOMAIN x /\ Follows(Without(x, c), c, x[c])
      BY <1>8
    <3>3. c \in DOMAIN p /\ p[c] = x[c] /\ Narrower(Without(p, c), Without(x, c))
      BY <3>1 DEF Told
    <3>4. /\ DOMAIN Without(p, c) = DOMAIN p \ {c} /\ (\A e \in DOMAIN p \ {c} : Without(p, c)[e] = p[e])
          /\ DOMAIN Without(x, c) = DOMAIN x \ {c} /\ (\A e \in DOMAIN x \ {c} : Without(x, c)[e] = x[e])
      BY WithoutIs
    <3>5. DOMAIN p \subseteq DOMAIN x
      BY <3>2, <3>3, <3>4 DEF Narrower
    <3>6. IsPattern(p) /\ Cardinality(DOMAIN p) = arity
      BY <1>0, ArityIs DEF VertexInv
    <3>7. DOMAIN p = DOMAIN x
      BY <1>4, <3>5, <3>6, FS_Subset, ColumnsCounted
    <3>8. \A e \in DOMAIN x : x[e] \in {p[e], Unnamed}
      BY <3>3, <3>4, <3>7 DEF Narrower
    <3>9. General(x, p)
      BY <1>4, <3>7, <3>8 DEF General, IsPattern
    <3> QED BY <1>11, <3>1, <3>2, <3>3, <3>7, <3>9
  <2> QED BY <2>1, <2>2
<1>15. TakenAway'
  BY <1>9, <1>10, <1>14 DEF TakenAway
<1>16. \A y, c : Told(y, c)' = Told(y, c)
  BY <1>9 DEF Told
<1>17. ASSUME NEW y \in Checked', NEW c \in DOMAIN y, Frequent(y), Least(Without(y, c), c, y[c]),
              NEW p \in Told(y, c), NEW a \in vertices'[p].rhs
       PROVE  a[1] \in DOMAIN y \ {c}
  <2>0. p \in DOMAIN vertices /\ a \in vertices[p].rhs
    BY <1>9 DEF Told
  <2>1. CASE y \in Checked
    BY <1>0, <1>17, <2>0, <2>1 DEF AllTaken
  <2>2. CASE y = x
    <3>1. ~Implied(TRUE, x, c) /\ Follows(Without(x, c), c, x[c])
      BY <1>4, <1>17, <2>2, LeastNotImplied DEF Least
    <3>2. c \in exact
      BY <1>8, <1>17, <2>2, <3>1
    <3> QED BY <1>9, <1>17, <2>0, <2>2, <3>2
  <2> QED BY <1>11, <2>1, <2>2
<1>18. AllTaken'
  BY <1>10, <1>16, <1>17 DEF AllTaken
<1>19. CfdsOf(OfArity(1..arity) \ unchecked)'
  <2>1. x \in OfArity(1..arity)
    <3>1. arity \in 1..arity
      BY <1>0 DEF TableInv
    <3> QED BY <1>4, <3>1, ArityIs
  <2> DEFINE old == OfArity(1..arity) \ unchecked
  <2>2. (OfArity(1..arity) \ unchecked)' = old \cup {x}
    BY <1>0, <1>1, <1>10, <2>1
  <2>3. CfdsOf(old)
    BY <1>0
  <2> HIDE DEF old
  <2>4. \A all \in BOOLEAN : AllOf(all, old \cup {x}) = AllOf(all, old) \cup Emitted(all, x)
    BY DEF AllOf
  <2>5. /\ AllOf(TRUE, old \cup {x}) \subseteq cfds' /\ cfds' \subseteq AllOf(FALSE, old \cup {x})
        /\ inOrder => cfds' \subseteq AllOf(TRUE, old \cup {x})
    <3>1. /\ AllOf(TRUE, old \cup {x}) = AllOf(TRUE, old) \cup Emitted(TRUE, x)
          /\ AllOf(FALSE, old \cup {x}) = AllOf(FALSE, old) \cup Emitted(FALSE, x)
      BY <2>4
    <3> QED BY <1>3, <1>7, <2>3, <3>1 DEF CfdsOf
  <2>6. /\ AllOf(TRUE, OfArity(1..arity) \ unchecked)' = AllOf(TRUE, old \cup {x}) /\ AllOf(FALSE, OfArity(1..arity) \ unchecked)' = AllOf(FALSE, old \cup {x})
    BY <1>10, <2>2 DEF AllOf
  <2> QED BY <1>0, <2>5, <2>6 DEF CfdsOf
<1>20. TableInv'
  BY <1>0, TableStays DEF TableInv
<1> QED BY <1>0, <1>12, <1>13, <1>15, <1>18, <1>19, <1>20 DEF CTaneInv

\* When all vertices are checked, those with the support have what is left of their
\* candidates.
LEMMA RhsIsRest ==
  ASSUME TableInv, LevelInv, VertexInv, TakenAway, AllTaken, unchecked = {},
         NEW p \in DOMAIN vertices, Frequent(p)
  PROVE  vertices[p].rhs = Rest(p)
<1>0. IsPattern(p) /\ vertices[p].rhs \subseteq Start(p)
  BY ArityIs DEF VertexInv
<1>1. ASSUME NEW a \in vertices[p].rhs, Gone(p, a) PROVE FALSE
  <2>1. PICK c \in DOMAIN p : \E q : /\ General(q, Without(p, c)) /\ Follows(q, c, p[c])
                                     /\ a[1] \notin DOMAIN q
    BY <1>0, <1>1, GoneBy
  <2>2. PICK q : General(q, Without(p, c)) /\ Follows(q, c, p[c]) /\ a[1] \notin DOMAIN q
    BY <2>1
  <2>3. IsPattern(q)
    BY <1>0, <2>2, WithoutPattern, GeneralPattern
  <2>4. PICK least : General(least, q) /\ Least(least, c, p[c])
    BY <2>2, <2>3, LeastExists
  <2>5. General(least, Without(p, c)) /\ a[1] \notin DOMAIN least
    BY <2>2, <2>4, GeneralTransitive DEF General
  <2>6. With(least, <<c, p[c]>>) \in unchecked
    BY <2>4, <2>5, Caught
  <2> QED BY <2>6
<1>2. ASSUME NEW a \in Rest(p), a \notin vertices[p].rhs PROVE FALSE
  <2>1. a \in Start(p)
    BY <1>0, RestStarts
  <2>2. PICK c \in DOMAIN p : \E y \in Checked :
            /\ DOMAIN y = DOMAIN p /\ General(y, p) /\ y[c] = p[c]
            /\ Follows(Without(y, c), c, p[c]) /\ a[1] \notin DOMAIN y \ {c}
    BY <1>2, <2>1 DEF TakenAway
  <2>3. PICK y \in Checked : /\ General(y, p) /\ Follows(Without(y, c), c, p[c])
                             /\ a[1] \notin DOMAIN y \ {c}
    BY <2>2
  <2>4. General(Without(y, c), Without(p, c)) /\ DOMAIN Without(y, c) = DOMAIN y \ {c}
    BY <2>3, WithoutGeneral, WithoutIs
  <2>5. Gone(p, a)
    BY <1>0, <2>3, <2>4, GoneBy
  <2> QED BY <2>5 DEF Rest
<1>3. ASSUME NEW a \in vertices[p].rhs PROVE a \in Rest(p)
  BY <1>0, <1>1 DEF Rest, Start
<1> QED BY <1>2, <1>3

LEMMA PruneKeeps ==
  ASSUME CTaneInv, Prune
  PROVE  CTaneInv'
<1> DEFINE kept == {p \in DOMAIN vertices : vertices[p].rhs # {} /\ Size(vertices[p].pli) >= minSup}
<1>0. /\ TableInv /\ phase = "check" /\ LevelInv /\ VertexInv /\ TakenAway /\ AllTaken /\ unchecked = {}
      /\ CfdsOf(OfArity(1..arity) \ unchecked) /\ arity \in 1..MaxLevel
      /\ UNCHANGED <<table, configVars>> /\ UNCHANGED <<arity, cfds, inOrder>> /\ inOrder \in BOOLEAN
      /\ vertices' = [p \in kept |-> vertices[p]]
      /\ phase' = IF arity < MaxLevel THEN "join" ELSE "done"
  BY DEF CTaneInv, Prune, TableInv
<1>1. ASSUME NEW p \in DOMAIN vertices PROVE Size(vertices[p].pli) >= minSup <=> Frequent(p)
  <2>1. vertices[p].pli = Part(p)
    BY <1>0 DEF VertexInv
  <2> QED BY <1>0, <2>1, PartIs DEF Frequent
<1>2. ASSUME NEW p \in DOMAIN vertices, Frequent(p) PROVE vertices[p].rhs = Rest(p)
  BY <1>0, <1>2, RhsIsRest
<1>3. ASSUME NEW p PROVE p \in kept <=> p \in OfArity({arity}) /\ Frequent(p) /\ Rest(p) # {}
  <2>1. ASSUME p \in kept PROVE p \in OfArity({arity}) /\ Frequent(p) /\ Rest(p) # {}
    BY <1>0, <1>1, <1>2, <2>1 DEF VertexInv
  <2>2. ASSUME p \in OfArity({arity}), Frequent(p), Rest(p) # {} PROVE p \in kept
    <3>1. Start(p) # {}
      BY <2>2, RestStarts, ArityIs
    <3>2. p \in DOMAIN vertices
      BY <1>0, <2>2, <3>1 DEF LevelInv
    <3> QED BY <1>1, <1>2, <2>2, <3>2
  <2> QED BY <2>1, <2>2
<1>4. /\ MaxLevel' = MaxLevel
      /\ \A p : Part(p)' = Part(p)
      /\ \A p : Frequent(p)' <=> Frequent(p)
      /\ \A p : Rest(p)' = Rest(p)
      /\ \A all, y : Emitted(all, y)' = Emitted(all, y)
      /\ \A sizes : OfArity(sizes)' = OfArity(sizes)
  BY <1>0, DataStays
<1>5. PrunedInv'
  <2>1. DOMAIN vertices' = {p \in OfArity({arity}) : Frequent(p) /\ Rest(p) # {}}
    BY <1>0, <1>3
  <2>2. \A p \in DOMAIN vertices' : vertices'[p].rhs = Rest(p) /\ vertices'[p].pli = Part(p)
    BY <1>0, <1>1, <1>2 DEF VertexInv
  <2> QED BY <1>0, <1>4, <2>1, <2>2 DEF PrunedInv
<1>6. CfdsOf(OfArity(1..arity))
  <2>1. OfArity(1..arity) \ unchecked = OfArity(1..arity)
    BY <1>0
  <2> QED BY <1>0, <2>1
<1>7. CfdsOf(OfArity(1..arity))'
  <2>1. OfArity(1..arity)' = OfArity(1..arity)
    BY <1>0, <1>4
  <2>2. /\ AllOf(TRUE, OfArity(1..arity))' = AllOf(TRUE, OfArity(1..arity)) /\ AllOf(FALSE, OfArity(1..arity))' = AllOf(FALSE, OfArity(1..arity))
    BY <1>4, <2>1 DEF AllOf
  <2> QED BY <1>0, <1>6, <2>2 DEF CfdsOf
<1>8. phase' = "done" => CfdsOf(OfArity(1..MaxLevel))'
  <2>1. phase' = "done" => arity = MaxLevel
    BY <1>0, MaxLevelIs
  <2>2. ASSUME arity = MaxLevel PROVE CfdsOf(OfArity(1..MaxLevel))'
    <3>1. OfArity(1..MaxLevel)' = OfArity(1..arity)
      BY <1>4, <2>2
    <3>2. /\ AllOf(TRUE, OfArity(1..MaxLevel))' = AllOf(TRUE, OfArity(1..arity)) /\ AllOf(FALSE, OfArity(1..MaxLevel))' = AllOf(FALSE, OfArity(1..arity))
      BY <1>4, <3>1 DEF AllOf
    <3> QED BY <1>0, <1>6, <3>2 DEF CfdsOf
  <2> QED BY <2>1, <2>2
<1>9. TableInv'
  BY <1>0, TableStays
<1> QED BY <1>0, <1>5, <1>7, <1>8, <1>9 DEF CTaneInv

LEMMA GenerateNextLevelKeeps ==
  ASSUME CTaneInv, GenerateNextLevel
  PROVE  CTaneInv'
<1>0. /\ TableInv /\ PrunedInv /\ phase = "join" /\ CfdsOf(OfArity(1..arity)) /\ arity \in 1..MaxLevel
      /\ arity < MaxLevel /\ UNCHANGED <<table, configVars>> /\ cfds' = cfds
      /\ arity' = arity + 1 /\ vertices' = NextLevel
      /\ below' = [p \in DOMAIN vertices |-> vertices[p].pli]
      /\ unchecked' = DOMAIN vertices' /\ phase' = IF unchecked' = {} THEN "done" ELSE "check"
      /\ inOrder \in BOOLEAN /\ inOrder' \in {inOrder, inOrder /\ Cardinality(DOMAIN vertices) <= SortLimit}
  BY DEF CTaneInv, GenerateNextLevel, TableInv
<1>1. arity \in Nat \ {0} /\ arity + 1 \in 1..MaxLevel /\ (arity + 1) - 1 = arity
  BY <1>0, MaxLevelIs
<1>2. /\ \A x \in DOMAIN NextLevel :
           /\ x \in OfArity({arity + 1}) /\ NextLevel[x] = [pli |-> Part(x), rhs |-> Start(x)]
           /\ \A c \in DOMAIN x : Without(x, c) \in DOMAIN vertices /\ vertices[Without(x, c)].pli = Part(Without(x, c))
      /\ \A x \in OfArity({arity + 1}) : Frequent(x) /\ Start(x) # {} => x \in DOMAIN NextLevel
      /\ NextLevel = [x \in DOMAIN NextLevel |-> NextLevel[x]]
  BY <1>0, <1>1, NextLevelIs
<1> DEFINE n == arity + 1
<1>3. n \in 1..MaxLevel /\ arity' = n /\ CfdsOf(OfArity(1..(n - 1)))
  BY <1>0, <1>1
<1>4. vertices' = [p \in DOMAIN vertices' |-> vertices'[p]]
  BY <1>0, <1>2
<1>5. \A p \in DOMAIN vertices' : /\ p \in OfArity({n}) /\ vertices'[p] = [pli |-> Part(p), rhs |-> Start(p)]
                                  /\ \A c \in DOMAIN p : /\ Without(p, c) \in DOMAIN below'
                                                         /\ below'[Without(p, c)] = Part(Without(p, c))
  BY <1>0, <1>2
<1>6. \A x \in OfArity({n}) : Frequent(x) /\ Start(x) # {} => x \in DOMAIN vertices'
  BY <1>0, <1>2
<1>9. inOrder' \in BOOLEAN /\ (inOrder' => inOrder)
  BY <1>0
<1>7. TableInv'
  BY <1>0, <1>1, <1>9, TableStays
<1> HIDE DEF n
<1>8. /\ LevelInv' /\ VertexInv' /\ TakenAway' /\ AllTaken' /\ CfdsOf(OfArity(1..arity) \ unchecked)'
      /\ unchecked' = {} => CfdsOf(OfArity(1..MaxLevel))'
  BY <1>0, <1>3, <1>4, <1>5, <1>6, <1>9, LevelStarts
<1> QED BY <1>0, <1>7, <1>8 DEF CTaneInv

LEMMA StepKeeps ==
  CTaneInv /\ [CTaneNext]_ctaneVars => CTaneInv'
<1> SUFFICES ASSUME CTaneInv, [CTaneNext]_ctaneVars PROVE CTaneInv'
  OBVIOUS
<1>1. CASE UNCHANGED ctaneVars
  <2>1. /\ table' = table /\ minSup' = minSup /\ minConf' = minConf /\ maxLhs' = maxLhs
        /\ arity' = arity /\ below' = below /\ vertices' = vertices /\ unchecked' = unchecked
        /\ cfds' = cfds /\ phase' = phase /\ inOrder' = inOrder
    BY <1>1 DEF ctaneVars, configVars
  <2>2. UNCHANGED <<table, configVars>>
    BY <2>1 DEF configVars
  <2>3. /\ MaxLevel' = MaxLevel
        /\ \A p : Part(p)' = Part(p)
        /\ \A p : Frequent(p)' <=> Frequent(p)
        /\ \A p : Start(p)' = Start(p)
        /\ \A p : Rest(p)' = Rest(p)
        /\ \A all, x : Emitted(all, x)' = Emitted(all, x)
        /\ \A sizes : OfArity(sizes)' = OfArity(sizes)
        /\ \A q, c, v : Follows(q, c, v)' <=> Follows(q, c, v)
        /\ \A q, c, v : Least(q, c, v)' <=> Least(q, c, v)
    BY <2>2, DataStays
  <2>4. Checked' = Checked /\ \A x, c : Told(x, c)' = Told(x, c)
    BY <2>1 DEF Checked, Told
  <2>5. TableInv'
    BY <2>1, <2>3 DEF CTaneInv, TableInv
  <2>6. LevelInv => LevelInv'
    BY <2>1, <2>3 DEF LevelInv
  <2>7. VertexInv => VertexInv'
    BY <2>1, <2>3 DEF VertexInv
  <2>8. TakenAway => TakenAway'
    BY <2>1, <2>3, <2>4 DEF TakenAway
  <2>9. AllTaken => AllTaken'
    BY <2>1, <2>3, <2>4 DEF AllTaken
  <2>10. PrunedInv => PrunedInv'
    BY <2>1, <2>3 DEF PrunedInv
  <2>11. /\ CfdsOf(OfArity(1..arity) \ unchecked) => CfdsOf(OfArity(1..arity) \ unchecked)'
         /\ CfdsOf(OfArity(1..arity)) => CfdsOf(OfArity(1..arity))'
         /\ CfdsOf(OfArity(1..MaxLevel)) => CfdsOf(OfArity(1..MaxLevel))'
    <3>1. /\ (OfArity(1..arity) \ unchecked)' = OfArity(1..arity) \ unchecked
          /\ OfArity(1..arity)' = OfArity(1..arity) /\ OfArity(1..MaxLevel)' = OfArity(1..MaxLevel)
      BY <2>1, <2>3
    <3>2. /\ AllOf(TRUE, OfArity(1..arity) \ unchecked)' = AllOf(TRUE, OfArity(1..arity) \ unchecked) /\ AllOf(FALSE, OfArity(1..arity) \ unchecked)' = AllOf(FALSE, OfArity(1..arity) \ unchecked)
      BY <2>3, <3>1 DEF AllOf
    <3>3. /\ AllOf(TRUE, OfArity(1..arity))' = AllOf(TRUE, OfArity(1..arity)) /\ AllOf(FALSE, OfArity(1..arity))' = AllOf(FALSE, OfArity(1..arity))
      BY <2>3, <3>1 DEF AllOf
    <3>4. /\ AllOf(TRUE, OfArity(1..MaxLevel))' = AllOf(TRUE, OfArity(1..MaxLevel)) /\ AllOf(FALSE, OfArity(1..MaxLevel))' = AllOf(FALSE, OfArity(1..MaxLevel))
      BY <2>3, <3>1 DEF AllOf
    <3> QED BY <2>1, <3>2, <3>3, <3>4 DEF CfdsOf
  <2> QED BY <2>1, <2>5, <2>6, <2>7, <2>8, <2>9, <2>10, <2>11 DEF CTaneInv
<1>2. ASSUME NEW tuple \in [Columns -> Null..MaxTuples], ReadTuple(tuple) PROVE CTaneInv'
  BY <1>2, ReadTupleKeeps
<1>3. CASE Initialize
  BY <1>3, InitializeKeeps
<1>4. CASE CheckVertex
  BY <1>4, CheckVertexKeeps
<1>5. CASE Prune
  BY <1>5, PruneKeeps
<1>6. CASE GenerateNextLevel
  BY <1>6, GenerateNextLevelKeeps
<1>7. CASE Undefined
  BY <1>7, UndefinedKeeps
<1> QED BY <1>1, <1>2, <1>3, <1>4, <1>5, <1>6, <1>7 DEF CTaneNext

-----------------------------------------------------------------------------
(* What is due. *)

LEMMA DependencyIs ==
  ASSUME NEW p, IsPattern(p), NEW c, NEW v
  PROVE  <<p, <<c, v>>>> \in Dependencies <=>
           c \in Columns \ DOMAIN p /\ v \in {Unnamed} \cup Known(c) /\ Cardinality(DOMAIN p) < MaxLevel
<1> DEFINE small(d) == {Y \in SUBSET (Columns \ {d}) : Cardinality(Y) < MaxLevel}
           of(d) == {<<q, <<d, w>>>> : q \in UNION {Patterns(X) : X \in small(d)}, w \in {Unnamed} \cup Known(d)}
<1>1. Dependencies = UNION {of(d) : d \in Columns}
  BY DEF Dependencies
<1>2. ASSUME NEW d, NEW q, NEW X, q \in Patterns(X) PROVE DOMAIN q = X
  BY <1>2 DEF Patterns
<1>3. ASSUME <<p, <<c, v>>>> \in Dependencies
      PROVE  c \in Columns \ DOMAIN p /\ v \in {Unnamed} \cup Known(c) /\ Cardinality(DOMAIN p) < MaxLevel
  <2>1. PICK d \in Columns : <<p, <<c, v>>>> \in of(d)
    BY <1>1, <1>3
  <2>2. PICK q \in UNION {Patterns(X) : X \in small(d)}, w \in {Unnamed} \cup Known(d) :
          <<p, <<c, v>>>> = <<q, <<d, w>>>>
    BY <2>1
  <2>3. PICK X \in small(d) : q \in Patterns(X)
    BY <2>2
  <2>4. p = q /\ c = d /\ v = w
    BY <2>2
  <2>5. DOMAIN p = X
    BY <1>2, <2>3, <2>4
  <2> QED BY <2>1, <2>2, <2>3, <2>4, <2>5
<1>4. ASSUME c \in Columns \ DOMAIN p, v \in {Unnamed} \cup Known(c), Cardinality(DOMAIN p) < MaxLevel
      PROVE  <<p, <<c, v>>>> \in Dependencies
  <2>1. \A d \in DOMAIN p : p[d] \in {Unnamed} \cup UNION {Known(e) : e \in DOMAIN p}
    BY DEF IsPattern
  <2>2. p \in Patterns(DOMAIN p) /\ DOMAIN p \in small(c)
    BY <1>4, <2>1 DEF IsPattern, Patterns
  <2>3. <<p, <<c, v>>>> \in of(c)
    BY <1>4, <2>2
  <2> QED BY <1>1, <1>4, <2>3
<1> QED BY <1>3, <1>4

LEMMA DependencyHas ==
  ASSUME NEW d \in Dependencies
  PROVE  \E c \in Columns : \E v, p :
           /\ v \in {Unnamed} \cup Known(c)
           /\ d = <<p, <<c, v>>>> /\ p = [e \in DOMAIN p |-> p[e]] /\ DOMAIN p \subseteq Columns \ {c}
<1>1. PICK c \in Columns :
        d \in {<<q, <<c, w>>>> : q \in UNION {Patterns(X) : X \in {Y \in SUBSET (Columns \ {c}) : Cardinality(Y) < MaxLevel}},
                                 w \in {Unnamed} \cup Known(c)}
  BY DEF Dependencies
<1>2. PICK p \in UNION {Patterns(X) : X \in {Y \in SUBSET (Columns \ {c}) : Cardinality(Y) < MaxLevel}},
           v \in {Unnamed} \cup Known(c) : d = <<p, <<c, v>>>>
  BY <1>1
<1>3. PICK X \in SUBSET (Columns \ {c}) : p \in Patterns(X)
  BY <1>2
<1>4. p = [e \in DOMAIN p |-> p[e]] /\ DOMAIN p = X
  BY <1>3 DEF Patterns
<1> QED BY <1>2, <1>3, <1>4

\* What of values that are in no row of its columns has no support.
LEMMA SupportIsPattern ==
  ASSUME TableInv, NEW p, p = [e \in DOMAIN p |-> p[e]], DOMAIN p \subseteq Columns,
         NEW a, Cardinality(Matching(With(p, a))) >= minSup
  PROVE  IsPattern(p)
<1> DEFINE x == With(p, a)
<1>1. DOMAIN p \subseteq DOMAIN x /\ \A e \in DOMAIN p : x[e] = p[e]
  BY DEF With
<1>2. Matching(x) # {}
  BY FrequentMatched DEF Frequent
<1> HIDE DEF x
<1>3. PICK r \in Tuples : Matches(r, x)
  BY <1>2 DEF Matching
<1>4. ASSUME NEW e \in DOMAIN p PROVE p[e] \in {Unnamed} \cup Known(e)
  BY <1>1, <1>3 DEF Matches, Known
<1> QED BY <1>4 DEF IsPattern

LEMMA DueIs ==
  ASSUME TableInv, NEW p, IsPattern(p), NEW c \in Columns \ DOMAIN p, NEW v \in {Unnamed} \cup Known(c),
         Cardinality(DOMAIN p) < MaxLevel, NEW exact, NEW all \in BOOLEAN,
         \A q, d, w : /\ IsPattern(q) /\ d \in Columns \ DOMAIN q /\ w \in {Unnamed} \cup Known(d)
                      /\ Cardinality(DOMAIN q) < MaxLevel
                      => (<<q, <<d, w>>>> \in exact <=> Follows(q, d, w))
  PROVE  LET x == With(p, <<c, v>>)
         IN  /\ x \in OfArity(1..MaxLevel) /\ c \in DOMAIN x /\ x[c] = v /\ Without(x, c) = p
             /\ DueBeside(Generals(all, p), p, <<c, v>>, exact) <=> DueAt(all, x, c)
<1> DEFINE x == With(p, <<c, v>>)
<1>1. /\ x = [d \in DOMAIN x |-> x[d]] /\ DOMAIN x = DOMAIN p \cup {c}
      /\ (\A d \in DOMAIN p : x[d] = p[d]) /\ x[c] = v
  BY DEF With
<1>2. Without(x, c) = p
  BY WithoutWith DEF IsPattern
<1>3. DueBeside(Generals(all, p), p, <<c, v>>, exact) <=>
        /\ Cardinality(Matching(x)) >= minSup
        /\ EnoughConfidence(<<MostKept(p, <<c, v>>), Cardinality(Matching(p))>>)
        /\ \A q \in Generals(all, p) : <<q, <<c, v>>>> \notin exact
        /\ \A d \in DOMAIN p : \A q \in AtLeastAsGeneral(Without(p, d)) : <<q, <<d, p[d]>>>> \notin exact
  BY DEF DueBeside
<1> HIDE DEF x
<1>4. IsPattern(x)
  BY <1>1 DEF IsPattern
<1>5. x \in OfArity(1..MaxLevel)
  <2>1. Cardinality(DOMAIN x) \in Nat /\ Cardinality(DOMAIN p) = Cardinality(DOMAIN x) - 1
    BY <1>1, <1>2, <1>4, ColumnsCounted
  <2>2. Cardinality(DOMAIN p) \in Nat /\ MaxLevel \in Nat
    BY ColumnsCounted, MaxLevelIs
  <2>3. Cardinality(DOMAIN x) \in 1..MaxLevel
    BY <2>1, <2>2
  <2> QED BY <1>4, <2>3, ArityIs
<1>6. ASSUME NEW y, IsPattern(y), DOMAIN y \subseteq DOMAIN p, NEW q \in AtLeastAsGeneral(y)
      PROVE  IsPattern(q) /\ DOMAIN q \subseteq DOMAIN y /\ Cardinality(DOMAIN q) < MaxLevel
  <2>1. General(q, y)
    BY <1>6, GeneralIs
  <2>2. IsPattern(q) /\ DOMAIN q \subseteq DOMAIN y
    BY <1>6, <2>1, GeneralPattern DEF General
  <2>3. Cardinality(DOMAIN q) <= Cardinality(DOMAIN p)
    BY <1>6, <2>2, ColumnsCounted, FS_Subset
  <2>4. Cardinality(DOMAIN q) \in Nat /\ Cardinality(DOMAIN p) \in Nat /\ MaxLevel \in Nat
    BY <2>2, ColumnsCounted, MaxLevelIs
  <2> QED BY <2>2, <2>3, <2>4
<1>7. ASSUME NEW q \in Generals(all, p) PROVE <<q, <<c, v>>>> \in exact <=> Follows(q, c, v)
  <2>1. q \in AtLeastAsGeneral(p)
    BY DEF Generals
  <2> QED BY <1>6, <2>1
<1>8. ASSUME NEW d \in DOMAIN p, NEW q \in AtLeastAsGeneral(Without(p, d))
      PROVE  <<q, <<d, p[d]>>>> \in exact <=> Follows(q, d, p[d])
  <2>1. IsPattern(Without(p, d)) /\ DOMAIN Without(p, d) = DOMAIN p \ {d}
    BY WithoutPattern, WithoutIs
  <2>2. IsPattern(q) /\ DOMAIN q \subseteq DOMAIN p \ {d} /\ Cardinality(DOMAIN q) < MaxLevel
    BY <1>6, <2>1
  <2>3. d \in Columns \ DOMAIN q /\ p[d] \in {Unnamed} \cup Known(d)
    BY <2>2 DEF IsPattern
  <2> QED BY <2>2, <2>3
<1>9. Implied(all, x, c) <=>
        \/ \E q \in Generals(all, p) : Follows(q, c, v)
        \/ \E d \in DOMAIN p : \E q \in AtLeastAsGeneral(Without(p, d)) : Follows(q, d, p[d])
  <2>1. DOMAIN x \ {c} = DOMAIN p
    BY <1>1
  <2> QED BY <1>1, <1>2, <2>1 DEF Implied
<1>10. DueBeside(Generals(all, p), p, <<c, v>>, exact) <=> DueAt(all, x, c)
  BY <1>1, <1>2, <1>3, <1>7, <1>8, <1>9 DEF DueAt, Frequent
<1> QED BY <1>1, <1>2, <1>5, <1>10 DEF x

LEMMA EmittedAreDue ==
  ASSUME TableInv, NEW all \in BOOLEAN
  PROVE  LET exact == {d \in Dependencies : Exact(d[1], d[2])}
         IN  AllOf(all, OfArity(1..MaxLevel)) =
               {[lhs |-> d[1], rhs |-> d[2]] :
                  d \in {e \in Dependencies : DueBeside(Generals(all, e[1]), e[1], e[2], exact)}}
<1> DEFINE exact == {d \in Dependencies : Exact(d[1], d[2])}
           due == {e \in Dependencies : DueBeside(Generals(all, e[1]), e[1], e[2], exact)}
           found == {[lhs |-> d[1], rhs |-> d[2]] : d \in due}
           emitted == AllOf(all, OfArity(1..MaxLevel))
<1>1. ASSUME NEW q, NEW d, NEW w
      PROVE  /\ <<q, <<d, w>>>> \in exact <=> <<q, <<d, w>>>> \in Dependencies /\ Exact(q, <<d, w>>)
             /\ <<q, <<d, w>>>> \in due <=> <<q, <<d, w>>>> \in Dependencies /\ DueBeside(Generals(all, q), q, <<d, w>>, exact)
  OBVIOUS
<1>2. due \subseteq Dependencies
  OBVIOUS
<1>3. ASSUME NEW f PROVE f \in found <=> \E d \in due : f = [lhs |-> d[1], rhs |-> d[2]]
  OBVIOUS
<1> HIDE DEF exact, due, found
<1>4. ASSUME NEW q, NEW d, NEW w, IsPattern(q), d \in Columns \ DOMAIN q, w \in {Unnamed} \cup Known(d),
             Cardinality(DOMAIN q) < MaxLevel
      PROVE  <<q, <<d, w>>>> \in exact <=> Follows(q, d, w)
  BY <1>1, <1>4, DependencyIs, ExactIs
<1>5. ASSUME NEW f \in emitted PROVE f \in found
  <2>1. PICK x \in OfArity(1..MaxLevel) : f \in Emitted(all, x)
    BY <1>5 DEF AllOf
  <2>2. PICK c \in DOMAIN x : DueAt(all, x, c) /\ f = [lhs |-> Without(x, c), rhs |-> <<c, x[c]>>]
    BY <2>1 DEF Emitted
  <2>3. IsPattern(x) /\ Cardinality(DOMAIN x) \in 1..MaxLevel
    BY ArityIs
  <2> DEFINE p == Without(x, c)
  <2>4. IsPattern(p) /\ DOMAIN p = DOMAIN x \ {c} /\ Cardinality(DOMAIN p) = Cardinality(DOMAIN x) - 1
    BY <2>3, WithoutPattern, WithoutIs, ColumnsCounted
  <2>5. With(p, <<c, x[c]>>) = x
    BY <2>3, WithWithout DEF IsPattern
  <2> HIDE DEF p
  <2>6. c \in Columns \ DOMAIN p /\ x[c] \in {Unnamed} \cup Known(c) /\ Cardinality(DOMAIN p) < MaxLevel
    <3>1. MaxLevel \in Nat
      BY MaxLevelIs
    <3>2. Cardinality(DOMAIN p) < MaxLevel
      BY <2>3, <2>4, <3>1
    <3> QED BY <2>3, <2>4, <3>2 DEF IsPattern
  <2>7. DueBeside(Generals(all, p), p, <<c, x[c]>>, exact)
    BY <1>4, <2>2, <2>4, <2>5, <2>6, DueIs
  <2>8. <<p, <<c, x[c]>>>> \in due
    BY <1>1, <2>4, <2>6, <2>7, DependencyIs
  <2>9. f = [lhs |-> <<p, <<c, x[c]>>>>[1], rhs |-> <<p, <<c, x[c]>>>>[2]]
    BY <2>2 DEF p
  <2> QED BY <1>3, <2>8, <2>9
<1>6. ASSUME NEW f \in found PROVE f \in emitted
  <2>1. PICK d \in due : f = [lhs |-> d[1], rhs |-> d[2]]
    BY <1>3
  <2>2. PICK c \in Columns : \E v, p :
          /\ v \in {Unnamed} \cup Known(c)
          /\ d = <<p, <<c, v>>>> /\ p = [e \in DOMAIN p |-> p[e]] /\ DOMAIN p \subseteq Columns \ {c}
    BY <1>2, <2>1, DependencyHas
  <2>3. PICK v, p :
          /\ v \in {Unnamed} \cup Known(c)
          /\ d = <<p, <<c, v>>>> /\ p = [e \in DOMAIN p |-> p[e]] /\ DOMAIN p \subseteq Columns \ {c}
    BY <2>2
  <2>4. /\ <<p, <<c, v>>>> \in Dependencies /\ DueBeside(Generals(all, p), p, <<c, v>>, exact)
        /\ f = [lhs |-> p, rhs |-> <<c, v>>]
    BY <1>1, <2>1, <2>3
  <2>5. IsPattern(p)
    <3>1. Cardinality(Matching(With(p, <<c, v>>))) >= minSup
      BY <2>4 DEF DueBeside
    <3> QED BY <2>3, <3>1, SupportIsPattern
  <2>6. c \in Columns \ DOMAIN p /\ Cardinality(DOMAIN p) < MaxLevel
    BY <2>4, <2>5, DependencyIs
  <2> DEFINE x == With(p, <<c, v>>)
  <2>7. /\ x \in OfArity(1..MaxLevel) /\ c \in DOMAIN x /\ x[c] = v /\ Without(x, c) = p
        /\ DueAt(all, x, c)
    BY <1>4, <2>3, <2>4, <2>5, <2>6, DueIs
  <2> HIDE DEF x
  <2>8. f \in Emitted(all, x)
    BY <2>4, <2>7 DEF Emitted
  <2> QED BY <2>7, <2>8 DEF AllOf
<1>7. emitted = found
  BY <1>5, <1>6
<1> QED BY <1>7 DEF found, due, exact

LEMMA FoundAreDue ==
  ASSUME TableInv, CfdsOf(OfArity(1..MaxLevel))
  PROVE  LET exact == {d \in Dependencies : Exact(d[1], d[2])}
             AsCfds(deps) == {[lhs |-> d[1], rhs |-> d[2]] : d \in deps}
             due == {d \in Dependencies : Due(d[1], d[2], exact)}
             tolerated == {d \in Dependencies : Tolerated(d[1], d[2], exact)}
         IN  /\ AsCfds(due) \subseteq cfds /\ cfds \subseteq AsCfds(tolerated)
             /\ inOrder => cfds = AsCfds(due)
<1> DEFINE exact == {d \in Dependencies : Exact(d[1], d[2])}
           due == {d \in Dependencies : Due(d[1], d[2], exact)}
           tolerated == {d \in Dependencies : Tolerated(d[1], d[2], exact)}
<1>1. AllOf(TRUE, OfArity(1..MaxLevel)) = {[lhs |-> d[1], rhs |-> d[2]] : d \in due}
  BY EmittedAreDue DEF Due, Generals
<1>2. AllOf(FALSE, OfArity(1..MaxLevel)) = {[lhs |-> d[1], rhs |-> d[2]] : d \in tolerated}
  BY EmittedAreDue DEF Tolerated, Generals
<1> HIDE DEF due, tolerated
<1>3. /\ {[lhs |-> d[1], rhs |-> d[2]] : d \in due} \subseteq cfds
      /\ cfds \subseteq {[lhs |-> d[1], rhs |-> d[2]] : d \in tolerated}
      /\ inOrder => cfds = {[lhs |-> d[1], rhs |-> d[2]] : d \in due}
  BY <1>1, <1>2 DEF CfdsOf
<1> QED BY <1>3 DEF due, tolerated

\* Of every table, and whatever the least support, the least confidence and the most
\* columns: when the first column has an index and no sort goes wrong, all conditional
\* dependencies that are due are found at the end, and none that one of fewer columns
\* implies, whatever the sorts make of the order of the vertices; as long as they leave
\* it alone, those that are due are all that is found.  The candidates that
\* CTane::PruneCandidates and the levels without vertices
\* (CLatticeLevel::GenerateNextLevel) leave out are implied by more general ones
\* (CTane::ExecuteInternal).
THEOREM CfdsFound ==
  CTaneSpec => []CfdsAreMinimal
<1>1. CTaneInv => CfdsAreMinimal
  BY FoundAreDue DEF CTaneInv, CfdsAreMinimal
<1> QED BY <1>1, InitHolds, StepKeeps, PTL DEF CTaneSpec
=============================================================================
