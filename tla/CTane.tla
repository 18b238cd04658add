--------------------------------- MODULE CTane ---------------------------------
(***************************************************************************)
(* Conditional functional dependencies by CTane: a dependency whose columns *)
(* may be held to a value.  The vertices of a level are the patterns with   *)
(* so many columns; each keeps the rows that match it, in clusters that     *)
(* agree on its columns (PartialPositionListIndex), and the right-hand      *)
(* sides that are still of interest.                                        *)
(*                                                                         *)
(* A pattern is a function from its columns to identifiers of values, or    *)
(* Unnamed.  Identifiers are numbered by column, in order of appearance:    *)
(* those of different columns are never compared.                           *)
(***************************************************************************)
EXTENDS Integers, Sequences, FiniteSetsExt

CONSTANTS
  Width,        \* the number of columns
  NullColumns,  \* columns that may have empty fields
  MinSupports, MinConfs,   \* values of min_sup, and of min_conf as fractions
  MaxLhs,       \* values of max_lhs
  SortLimit,    \* so many vertices a sort leaves in their order: 16 with libstdc++
  MaxTuples     \* bound: rows of the file

\* No row at all is no support: its confidence would be 0 / 0.
ASSUME CTaneAssumption ==
  /\ Width \in Nat \ {0} /\ MaxLhs \subseteq Nat /\ SortLimit \in Nat
  /\ MinSupports \subseteq Nat \ {0} /\ MinConfs \subseteq Nat \X (Nat \ {0})

VARIABLES
  table,       \* the rows read: an identifier for each column
  minSup, minConf, maxLhs,
  arity,       \* the number of columns of the level's patterns
  below,       \* the indexes of the level below
  vertices,    \* the level: the index and the candidates of each pattern
  unchecked,   \* its patterns that have yet to be checked
  inOrder,     \* its patterns of the same columns are in the order of their values
  keyColumns,  \* keys_
  cfds,        \* cfd_collection_
  phase        \* "read", "check", "join", "done" or "undefined"

configVars == <<minSup, minConf, maxLhs>>
ctaneVars == <<table, configVars, arity, below, vertices, unchecked, inOrder, keyColumns, cfds, phase>>

Columns == 1..Width
Tuples == DOMAIN table
Unnamed == 0
Null == -1   \* nulls are not equal: they are in no cluster

CTaneInit ==
  /\ table = <<>>
  /\ minSup \in MinSupports /\ minConf \in MinConfs /\ maxLhs \in MaxLhs
  /\ arity = 0 /\ below = <<>> /\ vertices = <<>> /\ unchecked = {} /\ inOrder = TRUE
  /\ keyColumns = {} /\ cfds = {}
  /\ phase = "read"

Known(c) == {table[r][c] : r \in Tuples} \ {Null}

\* CreateFrom: fields are empty, of a value met before, or of a new one.
ReadTuple(tuple) ==
  /\ phase = "read" /\ Len(table) < MaxTuples
  /\ \A c \in Columns : tuple[c] \in Known(c) \cup {Cardinality(Known(c)) + 1, Null}
  /\ \A c \in Columns : tuple[c] = Null => c \in NullColumns
  /\ table' = Append(table, tuple)
  /\ UNCHANGED <<configVars, arity, below, vertices, unchecked, inOrder, keyColumns, cfds, phase>>

-----------------------------------------------------------------------------
(* PartialPositionListIndex: clusters of any size, of some of the rows. *)

Size(pli) == Cardinality(UNION pli)

ValueCluster(c, v) == {r \in Tuples : table[r][c] = v}

\* The index of a column, and one for each of its values, where there are enough
\* rows.
CreateFor(c) ==
  LET all == {ValueCluster(c, v) : v \in Known(c)}
      enough == {v \in Known(c) : Cardinality(ValueCluster(c, v)) >= minSup}
  IN  IF Size(all) < minSup THEN <<>>
      ELSE [v \in enough \cup {Unnamed} |-> IF v = Unnamed THEN all ELSE {ValueCluster(c, v)}]

Intersect(p, q) == {g \cap h : g \in p, h \in q} \ {{}}

PliForEmptyVertex == {Tuples}

-----------------------------------------------------------------------------
(* TuplePattern. *)

\* A pattern of one column, or with one more.
Only(c, v) == [d \in {c} |-> v]
With(p, a) == [c \in DOMAIN p \cup {a[1]} |-> IF c \in DOMAIN p THEN p[c] ELSE a[2]]

Without(pattern, c) == [d \in DOMAIN pattern \ {c} |-> pattern[d]]

\* operator<= of two patterns.
Narrower(p, q) ==
  /\ DOMAIN p \subseteq DOMAIN q
  /\ \A c \in DOMAIN p : p[c] = q[c] \/ q[c] = Unnamed

-----------------------------------------------------------------------------
(* CLatticeLevel. *)

\* Of two patterns of the same columns, which one is less by its values, from the
\* first column on: the order of the maps of the first level, which each next level
\* inherits.  The comparison of the sort only knows which one is more general.
Precedes(p, q) ==
  \E c \in DOMAIN p : p[c] < q[c] /\ \A d \in DOMAIN p : d < c => p[d] = q[d]

\* A vertex for each pattern of one column; candidates are all of them but those
\* of the same column with another value.
FirstLevel ==
  LET index == [c \in Columns |-> CreateFor(c)]
      all == {a \in Columns \X (UNION {DOMAIN index[d] : d \in Columns}) : a[2] \in DOMAIN index[a[1]]}
  IN  [p \in {Only(a[1], a[2]) : a \in all} |->
         LET c == Min(DOMAIN p)
         IN [pli |-> index[c][p[c]], rhs |-> {a \in all : a[1] = c => a[2] = p[c]}]]

SharePrefix(p, q) ==
  /\ Max(DOMAIN p) < Max(DOMAIN q)
  /\ Without(p, Max(DOMAIN p)) = Without(q, Max(DOMAIN q))

\* Two vertices are joined when all that are below the union were kept.
Joins ==
  LET patterns == DOMAIN vertices
      Last(q) == <<Max(DOMAIN q), q[Max(DOMAIN q)]>>
      unions == UNION {{With(p, Last(q)) : q \in {o \in patterns : SharePrefix(p, o)}} : p \in patterns}
  IN  {x \in unions : \A c \in DOMAIN x : Without(x, c) \in patterns}

\* What is a candidate for all the parents.
CommonRhs(x) ==
  LET cols == DOMAIN x
  IN  {a \in vertices[Without(x, Max(cols))].rhs : \A c \in cols : a \in vertices[Without(x, c)].rhs}

\* The indexes of two parents make that of the vertex.
NextLevel ==
  [x \in {y \in Joins : CommonRhs(y) # {}} |->
     [pli |-> Intersect(vertices[Without(x, Max(DOMAIN x))].pli, vertices[Without(x, Min(DOMAIN x))].pli),
      rhs |-> CommonRhs(x)]]

-----------------------------------------------------------------------------
(* ExecuteInternal. *)

\* The most columns of a pattern.
MaxLevel == Min({maxLhs, Width - 1}) + 1

\* Initialize and the first level, whose rows are counted by the first index of the
\* first column; a column whose values or whose value of the only row are all
\* different is a key.
Initialize ==
  /\ phase = "read" /\ CreateFor(1) # <<>>
  /\ arity' = 1
  /\ vertices' = FirstLevel
  /\ below' = [p \in {<<>>} |-> PliForEmptyVertex]
  /\ keyColumns' = {c \in Columns : \E p \in DOMAIN vertices' : c \in DOMAIN p /\ Cardinality(vertices'[p].pli) = Len(table)}
  /\ unchecked' = DOMAIN vertices'
  /\ phase' = "check"
  /\ UNCHANGED <<table, configVars, inOrder, cfds>>

\* The first column has no index (GetNumRows goes by the first of its map), or the
\* sort has more vertices than a comparison that is no strict weak order will do for.
Undefined ==
  /\ \/ phase = "read" /\ CreateFor(1) = <<>>
     \/ phase = "join" /\ Cardinality(DOMAIN vertices) > SortLimit
  /\ phase' = "undefined"
  /\ UNCHANGED <<table, configVars, arity, below, vertices, unchecked, inOrder, keyColumns, cfds>>

IsExactCfd(x, xa) == Cardinality(x) = Cardinality(xa) /\ Size(x) = Size(xa)

\* CalculatePartitionError: the rows of x outside the largest cluster of xa.  A
\* cluster of xa is known by the last of its rows.
PartitionError(x, xa) ==
  LET Sizes(g) == {Cardinality(h) : h \in {k \in xa : Max(k) \in g}}
  IN  SumFunction([g \in x |-> Cardinality(g) - Max(Sizes(g) \cup {0})])

\* The confidence with which column c of a pattern follows from the others, as a
\* fraction.
Confidence(xa, c) ==
  LET x == below[Without(xa, c)]
      index == vertices[xa].pli
  IN  IF minConf[1] = minConf[2] THEN IF IsExactCfd(x, index) THEN <<1, 1>> ELSE <<0, 1>>
      ELSE IF xa[c] # Unnamed THEN <<Size(index), Size(x)>>
      ELSE <<Size(x) - PartitionError(x, index), Size(x)>>

EnoughConfidence(conf) == conf[1] * minConf[2] >= minConf[1] * conf[2]

\* The vertices of the level whose candidates tell that column c of xa follows
\* from the others.
Told(xa, c) ==
  {p \in DOMAIN vertices : /\ c \in DOMAIN p /\ p[c] = xa[c]
                           /\ Narrower(Without(p, c), Without(xa, c))}

\* Mutant of StillOfInterest: columns outside the dependency remain candidates.
StillAllInterest(rhs, xa, c) == rhs \ {<<c, xa[c]>>}

StillOfInterest(rhs, xa, c) == {a \in rhs : a[1] \in DOMAIN xa \ {c}}

\* PruneCandidates, for the columns that follow exactly.
PruneCandidates(xa, exact) ==
  vertices' = [p \in DOMAIN vertices |->
    [vertices[p] EXCEPT !.rhs =
       {a \in @ : \A c \in exact : p \in Told(xa, c) => a \in StillOfInterest(@, xa, c)}]]

\* The columns of the vertex that are candidates, where it has the support.
Tried(xa) ==
  {c \in DOMAIN xa : Size(vertices[xa].pli) >= minSup /\ <<c, xa[c]>> \in vertices[xa].rhs}

\* Each of them is tried as the right-hand side.  Patterns of different columns are
\* taken in any order: none prunes the candidates of the other.
CheckVertex ==
  /\ phase = "check"
  /\ \E xa \in unchecked :
        LET IsExact(conf) == conf[1] = conf[2] IN
        /\ inOrder => \A q \in unchecked : DOMAIN q = DOMAIN xa => ~Precedes(q, xa)
        /\ cfds' = cfds \cup {[lhs |-> Without(xa, c), rhs |-> <<c, xa[c]>>] :
                                c \in {d \in Tried(xa) : EnoughConfidence(Confidence(xa, d))}}
        /\ \E exact \in SUBSET DOMAIN xa :
             /\ exact = {c \in Tried(xa) : IsExact(Confidence(xa, c))}
             /\ PruneCandidates(xa, exact)
        /\ unchecked' = unchecked \ {xa}
  /\ UNCHANGED <<table, configVars, arity, below, inOrder, keyColumns, phase>>

Prune ==
  /\ phase = "check" /\ unchecked = {}
  /\ LET kept == {p \in DOMAIN vertices : vertices[p].rhs # {} /\ Size(vertices[p].pli) >= minSup}
     IN vertices' = [p \in kept |-> vertices[p]]
  /\ phase' = IF arity < MaxLevel THEN "join" ELSE "done"
  /\ UNCHANGED <<table, configVars, arity, below, unchecked, inOrder, keyColumns, cfds>>

\* The level is sorted first, which may change the order of more vertices than the
\* limit.  An empty level is the last one.
GenerateNextLevel ==
  /\ phase = "join"
  /\ arity' = arity + 1
  /\ vertices' = NextLevel
  /\ below' = [p \in DOMAIN vertices |-> vertices[p].pli]
  /\ inOrder' \in {inOrder, inOrder /\ Cardinality(DOMAIN vertices) <= SortLimit}
  /\ unchecked' = DOMAIN vertices'
  /\ phase' = IF unchecked' = {} THEN "done" ELSE "check"
  /\ UNCHANGED <<table, configVars, keyColumns, cfds>>

CTaneNext ==
  \/ \E tuple \in [Columns -> Null..MaxTuples] : ReadTuple(tuple)
  \/ Initialize \/ Undefined \/ CheckVertex \/ Prune \/ GenerateNextLevel

-----------------------------------------------------------------------------
(* What is looked for. *)

Matches(r, p) ==
  \A c \in DOMAIN p : table[r][c] # Null /\ (p[c] = Unnamed \/ p[c] = table[r][c])

Matching(p) == {r \in Tuples : Matches(r, p)}

\* The most rows of those that match p that can be kept for no two to agree on p
\* and differ on the right-hand side.
MostKept(p, a) ==
  LET Same(r) == {s \in Matching(p) : \A c \in DOMAIN p : table[s][c] = table[r][c]}
      Kept(g) == Max({0} \cup {Cardinality({s \in g : Matches(s, With(p, a)) /\ table[s][a[1]] = v}) : v \in Known(a[1])})
  IN  IF a[2] # Unnamed THEN Cardinality(Matching(With(p, a)))
      ELSE SumFunction([g \in {Same(r) : r \in Matching(p)} |-> Kept(g)])

Exact(p, a) == MostKept(p, a) = Cardinality(Matching(p))

Patterns(cols) == [cols -> {Unnamed} \cup UNION {Known(c) : c \in cols}]

AtLeastAsGeneral(p) ==
  {q \in UNION {Patterns(cols) : cols \in SUBSET DOMAIN p} : \A c \in DOMAIN q : q[c] \in {p[c], Unnamed}}

\* Left-hand sides, each with the column and the pattern on the right.
Dependencies ==
  UNION {{<<p, <<c, v>>>> : p \in UNION {Patterns(X) : X \in {Y \in SUBSET (Columns \ {c}) : Cardinality(Y) < MaxLevel}},
                            v \in {Unnamed} \cup Known(c)} : c \in Columns}

\* A dependency beside some more general ones: it has the support and the
\* confidence, none of these holds exactly, and no column of its left-hand side
\* follows exactly from the others.
DueBeside(generals, p, a, exact) ==
  /\ Cardinality(Matching(With(p, a))) >= minSup
  /\ EnoughConfidence(<<MostKept(p, a), Cardinality(Matching(p))>>)
  /\ \A q \in generals : <<q, a>> \notin exact
  /\ \A c \in DOMAIN p : \A q \in AtLeastAsGeneral(Without(p, c)) : <<q, <<c, p[c]>>>> \notin exact

\* Beside all more general ones, or only those of fewer columns.
Due(p, a, exact) == DueBeside(AtLeastAsGeneral(p) \ {p}, p, a, exact)
Tolerated(p, a, exact) == DueBeside({q \in AtLeastAsGeneral(p) : DOMAIN q # DOMAIN p}, p, a, exact)

\* Whatever is pruned on the way, all the dependencies with the support and the
\* confidence that are not implied by more general ones are found, and no others as
\* long as the vertices are in order; out of order, none of those found is implied by
\* one of fewer columns (CTane::ExecuteInternal, CTane::PruneCandidates, CLatticeLevel).
CfdsAreMinimal ==
  phase = "done" =>
    LET exact == {d \in Dependencies : Exact(d[1], d[2])}
        AsCfds(deps) == {[lhs |-> d[1], rhs |-> d[2]] : d \in deps}
        due == {d \in Dependencies : Due(d[1], d[2], exact)}
        tolerated == {d \in Dependencies : Tolerated(d[1], d[2], exact)}
    IN  /\ AsCfds(due) \subseteq cfds /\ cfds \subseteq AsCfds(tolerated)
        /\ inOrder => cfds = AsCfds(due)
=============================================================================
