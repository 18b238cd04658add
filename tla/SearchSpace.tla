------------------------------ MODULE SearchSpace ------------------------------
(***************************************************************************)
(* One search space of Pyro: it climbs from launch pads to a dependency,   *)
(* trickles down from it to dependencies that look minimal, and searches   *)
(* again, in a space nested in the first, wherever an estimate turns out   *)
(* to have been wrong (SearchSpace::Discover).                             *)
(*                                                                         *)
(* Errors are zero or not (error_dev is 0): exactSets are the sets that    *)
(* have none.  An estimate is arbitrary each time it is made; of it the    *)
(* code asks whether its least value, or its mean, is zero.  The launch    *)
(* pads are ordered by estimates too, so that any may come first.          *)
(***************************************************************************)
EXTENDS FiniteSetsExt, SequencesExt

CONSTANT SpaceColumns   \* the columns a left-hand side, or a key, is made of

ASSUME SpaceColumnsAssumption == IsFiniteSet(SpaceColumns)

VARIABLES
  strategy,   \* "fd" (FdG1Strategy) or "key" (KeyG1Strategy)
  exactSets,  \* the sets without error
  maxLhs,     \* max_lhs
  found,      \* how often a set was registered
  global,     \* global_visitees_
  local,      \* local_visitees_
  space,      \* the scope, launch pads and deferred launch pads of this space
  outer,      \* the spaces this one is nested in, from the outside in
  pad,        \* the launch pad taken
  candidate,  \* traversal_candidate, then the main peak
  peaks,      \* the peaks still to go down from: is their error computed?
  alleged,    \* alleged_min_deps: are they known to be extremal?
  nons,       \* alleged_non_deps
  frames,     \* the calls of TrickleDownFrom
  stage

spaceVars == <<strategy, exactSets, maxLhs, found, global, local, space, outer, pad, candidate,
               peaks, alleged, nons, frames, stage>>
fixed == <<strategy, exactSets, maxLhs>>
descentVars == <<peaks, alleged, nons, frames>>

Verticals == SUBSET SpaceColumns
EmptyMap == [X \in {} |-> FALSE]

-----------------------------------------------------------------------------
(* Maps from sets of columns, and what they know. *)

Put(map, X, value) == [Y \in DOMAIN map \cup {X} |-> IF Y = X THEN value ELSE map[Y]]
PutAll(map, sets, value) == [Y \in DOMAIN map \cup sets |-> IF Y \in sets THEN value ELSE map[Y]]
Without(map, sets) == [Y \in DOMAIN map \ sets |-> map[Y]]

VerticalInfo(dependency, extremal) == [dependency |-> dependency, extremal |-> extremal]
MinimalDependency == VerticalInfo(TRUE, TRUE)
NonDependency == VerticalInfo(FALSE, FALSE)
MaximalNonDependency == VerticalInfo(FALSE, TRUE)

IsImpliedByMinDep(X, map) ==
  \E Y \in DOMAIN map : Y \subseteq X /\ map[Y] = MinimalDependency

IsKnownNonDependency(X, map) == \E Y \in DOMAIN map : X \subseteq Y /\ ~map[Y].dependency
NonDependencyKnown(X) == IsKnownNonDependency(X, local) \/ IsKnownNonDependency(X, global)

\* CalculateHittingSet: the least sets that meet every one of these.
HittingSets(sets) ==
  LET hits(H) == \A S \in sets : H \cap S # {}
  IN {H \in SUBSET UNION sets : hits(H) /\ \A c \in H : ~hits(H \ {c})}

\* CreateDependencyCandidate: only these candidates come with their error.
Exact(X) == X = {} \/ (strategy = "key" /\ Cardinality(X) = 1)

\* The candidates among these sets that an estimate may take for dependencies.
Guesses(sets) ==
  LET exact == {X \in sets : Exact(X)}
  IN {(exact \cap exactSets) \cup guess : guess \in SUBSET (sets \ exact)}

Registered(sets) == [X \in Verticals |-> found[X] + IF X \in sets THEN 1 ELSE 0]

-----------------------------------------------------------------------------
(* Launch pads. *)

Depth == Len(outer)
InScope(X) == space.scope = {} \/ \E S \in space.scope : X \subseteq S

\* The deferred launch pads are used again when no other is left.
Ready == IF space.pads = {} THEN space.deferred ELSE space.pads
Taken(p) == [space EXCEPT !.pads = Ready \ {p},
                          !.deferred = IF space.pads = {} THEN {} ELSE @]
Index(sp) == sp.pads \cup sp.deferred

Pruned(p) == IsImpliedByMinDep(p, global) \/ IsImpliedByMinDep(p, local)

PruningSupersets(p) ==
  {X \in DOMAIN global : p \subseteq X} \cup
  {X \in DOMAIN local : p \subseteq X /\ (~local[X].dependency \/ local[X].extremal)}

\* Where EscapeLaunchPad goes on from p: out of every set that prunes it.
Escapes(p) ==
  LET index == Index(Taken(p))
      away(h) == /\ InScope(h)
                 /\ ~IsImpliedByMinDep(p \cup h, global)
                 /\ ~\E Y \in index : Y \subseteq p \cup h
  IN {p \cup h : h \in {H \in HittingSets({SpaceColumns \ X : X \in PruningSupersets(p)}) :
                          away(H) /\ Cardinality(p \cup H) <= maxLhs}}

DropLaunchPad ==
  /\ stage = "poll"
  /\ \E p \in Ready : Pruned(p) /\ space' = Taken(p)
  /\ UNCHANGED <<fixed, found, global, local, outer, pad, candidate, descentVars, stage>>

EscapeLaunchPad ==
  /\ stage = "poll"
  /\ \E p \in Ready : /\ ~Pruned(p)
                      /\ PruningSupersets(p) # {}
                      /\ space' = [Taken(p) EXCEPT !.pads = @ \cup Escapes(p)]
  /\ UNCHANGED <<fixed, found, global, local, outer, pad, candidate, descentVars, stage>>

TakeLaunchPad ==
  /\ stage = "poll"
  /\ \E p \in Ready : /\ ~Pruned(p)
                      /\ PruningSupersets(p) = {}
                      /\ space' = Taken(p)
                      /\ pad' = p
                      /\ candidate' = p
  /\ stage' = "ascend"
  /\ UNCHANGED <<fixed, found, global, local, outer, descentVars>>

Finish ==
  /\ stage = "poll"
  /\ Ready = {}
  /\ outer = <<>>
  /\ stage' = "done"
  /\ UNCHANGED <<fixed, found, global, local, space, outer, pad, candidate, descentVars>>

-----------------------------------------------------------------------------
(* Ascend. *)

Extensions ==
  IF Cardinality(candidate) >= Cardinality(SpaceColumns) \/ Cardinality(candidate) >= maxLhs THEN {}
  ELSE {candidate \cup {c} : c \in {d \in SpaceColumns \ candidate :
          /\ space.scope # {} => \E S \in space.scope : candidate \cup {d} \subseteq S
          /\ ~IsImpliedByMinDep(candidate \cup {d}, global)}}

\* The main peak is a dependency: TrickleDown starts from it.
BeginTrickleDown ==
  /\ peaks' = [X \in {candidate} |-> TRUE]
  /\ alleged' = EmptyMap
  /\ nons' = {}
  /\ stage' = "trickle"

\* ReturnLaunchPad after a climb that ended at a non-dependency.
DeferLaunchPad ==
  /\ space' = [space EXCEPT !.deferred = @ \cup {pad}]
  /\ stage' = "poll"

\* One turn of Ascend.  The error is computed unless the estimate excludes a
\* dependency, and at the latest where the climb ends.
Ascend ==
  /\ stage = "ascend"
  /\ \E guess \in Guesses({candidate}) :
       LET checked == guess # {} \/ Exact(candidate)
           dependency == candidate \in exactSets
           ceiling == Extensions = {}
           visited == IF checked THEN Put(local, candidate, VerticalInfo(dependency, FALSE))
                      ELSE local
       IN IF dependency /\ (checked \/ ceiling)
          THEN /\ local' = visited
               /\ BeginTrickleDown
               /\ UNCHANGED <<global, space, candidate>>
          ELSE IF ~ceiling
          THEN /\ local' = visited
               /\ candidate' \in Extensions
               /\ UNCHANGED <<global, space, peaks, alleged, nons, stage>>
          ELSE /\ global' = IF Depth = 0 THEN Put(global, candidate, MaximalNonDependency) ELSE global
               /\ local' = IF Depth = 0 THEN visited ELSE Put(visited, candidate, NonDependency)
               /\ DeferLaunchPad
               /\ UNCHANGED <<candidate, peaks, alleged, nons>>
  /\ UNCHANGED <<fixed, found, outer, pad, frames>>

-----------------------------------------------------------------------------
(* TrickleDown: peak by peak. *)

\* The frame of TrickleDownFrom(X): the sets one column smaller it still tries,
\* those an estimate excludes, and whether all others are known non-dependencies.
NewFrames(X, exact) ==
  LET parents == IF Cardinality(X) > 1 THEN {X \ {c} : c \in X} ELSE {}
      unknown == {P \in parents : ~NonDependencyKnown(P)}
      tried == unknown \ nons
  IN {[node |-> X, exact |-> exact, queue |-> guess, rest |-> tried \ guess,
       known |-> unknown \cap nons = {}] : guess \in Guesses(tried)}

LowestPeaks == {X \in DOMAIN peaks : \A Y \in DOMAIN peaks : Cardinality(X) <= Cardinality(Y)}
SubsetDeps(X) == {Y \in DOMAIN alleged : Y \subseteq X}

EscapePeak ==
  /\ stage = "trickle"
  /\ \E peak \in LowestPeaks :
       /\ SubsetDeps(peak) # {}
       /\ LET escaped == {peak \ h : h \in HittingSets(SubsetDeps(peak))} \ (nons \cup {{}})
          IN \E likely \in Guesses(escaped) :
               LET kept == {X \in likely : ~NonDependencyKnown(X)}
               IN /\ nons' = nons \cup (escaped \ likely)
                  /\ peaks' = [X \in (DOMAIN peaks \ {peak}) \cup kept |->
                                 IF X \in kept THEN Exact(X) ELSE peaks[X]]
  /\ UNCHANGED <<fixed, found, global, local, space, outer, pad, candidate, alleged, frames, stage>>

DescendPeak ==
  /\ stage = "trickle"
  /\ \E peak \in LowestPeaks :
       /\ SubsetDeps(peak) = {}
       /\ \E f \in NewFrames(peak, peaks[peak]) : frames' = <<f>>
  /\ stage' = "descend"
  /\ UNCHANGED <<fixed, found, global, local, space, outer, pad, candidate, peaks, alleged, nons>>

\* TrickleDownFrom with the candidate of a queue of sets not excluded, in any order.
TryParent ==
  /\ stage = "descend"
  /\ LET top == Last(frames)
     IN \E P \in top.queue : \E f \in NewFrames(P, Exact(P)) :
          frames' = Append(Front(frames) \o <<[top EXCEPT !.queue = @ \ {P}]>>, f)
  /\ UNCHANGED <<fixed, found, global, local, space, outer, pad, candidate, peaks, alleged, nons, stage>>

\* The caller of a frame that found nothing computes its own error, and stops
\* when it is a non-dependency itself.
Resumed(frame) ==
  IF frame.exact \/ frame.node \in exactSets THEN [frame EXCEPT !.exact = TRUE]
  ELSE [frame EXCEPT !.exact = TRUE, !.queue = {}, !.rest = {}]

\* Of several excluded sets the loop leaves out the last.
LeftOut(rest) == IF Cardinality(rest) < 2 THEN {{}} ELSE {{P} : P \in rest}

\* Mutant of IsExtremal: sets an estimate excluded count as non-dependencies.
IsExtremalEager(frame, doubtful) == frame.known

\* Whether all sets below are known to be non-dependencies.
IsExtremal(frame, doubtful) == frame.known /\ doubtful = {}

\* The candidate is a dependency and none below it is thought to be one: it is
\* returned through all frames; or it is not, and its caller goes on.
Evaluate ==
  /\ stage = "descend"
  /\ LET top == Last(frames)
     IN /\ top.queue = {}
        /\ \E leftOut \in LeftOut(top.rest) :
             LET excluded == top.rest \ leftOut
                 computed == {P \in excluded : Exact(P)}
                 doubtful == excluded \ computed
                 visited == PutAll(local, computed, NonDependency)
             IN /\ nons' = nons \cup doubtful
                /\ IF top.node \in exactSets
                   THEN /\ alleged' = Put(Without(alleged, {Y \in DOMAIN alleged : top.node \subseteq Y}),
                                          top.node, IsExtremal(top, doubtful))
                        /\ local' = visited
                        /\ frames' = <<>>
                        /\ stage' = "trickle"
                        /\ UNCHANGED peaks
                   ELSE /\ local' = Put(visited, top.node, NonDependency)
                        /\ IF Len(frames) = 1
                           THEN peaks' = Without(peaks, {top.node}) /\ frames' = <<>> /\ stage' = "trickle"
                           ELSE /\ frames' = [Front(frames) EXCEPT ![Len(frames) - 1] = Resumed(@)]
                                /\ UNCHANGED <<peaks, stage>>
                        /\ UNCHANGED alleged
  /\ UNCHANGED <<fixed, found, global, space, outer, pad, candidate>>

-----------------------------------------------------------------------------
(* TrickleDown: what has been found. *)

RegisterAll(sets) ==
  /\ found' = Registered(sets)
  /\ global' = PutAll(global, sets, MinimalDependency)

\* The end of TrickleDown and of Ascend in a space of this depth.
ReturnLaunchPad(sets, depth, peak, sp, p) ==
  /\ found' = Registered(sets)
  /\ global' = PutAll(global, IF depth = 0 THEN sets \cup {peak} ELSE sets, MinimalDependency)
  /\ space' = [sp EXCEPT !.pads = @ \cup {p}]
  /\ stage' = "poll"

\* What remains of the main peak outside all alleged dependencies.
MaximalNonDeps ==
  {candidate \ h : h \in HittingSets(DOMAIN alleged)} \ {{}}

\* No peak is left.  The alleged maximal non-dependencies are checked: when all
\* are right the alleged dependencies are registered, when some are not a new
\* space is searched below those.
Conclude ==
  /\ stage = "trickle"
  /\ peaks = EmptyMap
  /\ LET unchecked == {X \in MaximalNonDeps : ~NonDependencyKnown(X)}
         scope == unchecked \cap exactSets
         new == {X \in DOMAIN alleged : X \notin DOMAIN global}
         certain == {X \in new : alleged[X]}
     IN /\ local' = PutAll(local, unchecked \ exactSets, NonDependency)
        /\ IF scope = {}
           THEN /\ ReturnLaunchPad(new, Depth, candidate, space, pad)
                /\ UNCHANGED outer
           ELSE /\ RegisterAll(certain)
                /\ outer' = Append(outer, [space |-> space, pad |-> pad, peak |-> candidate,
                                           alleged |-> DOMAIN alleged])
                /\ space' = [scope |-> scope, pads |-> {{c} : c \in UNION scope}, deferred |-> {}]
                /\ stage' = "poll"
  /\ alleged' = EmptyMap
  /\ nons' = {}
  /\ UNCHANGED <<fixed, pad, candidate, peaks, frames>>

\* Mutant of RightAfterAll: what the nested search has found is forgotten.
RightAfterAllBlind(sets) == sets

\* The alleged dependencies that the nested search has not refuted.
RightAfterAll(sets) == {X \in sets : ~IsImpliedByMinDep(X, global)}

LeaveNested ==
  /\ stage = "poll"
  /\ Ready = {}
  /\ outer # <<>>
  /\ LET back == Last(outer)
     IN ReturnLaunchPad(RightAfterAll(back.alleged), Depth - 1, back.peak, back.space, back.pad)
  /\ outer' = Front(outer)
  /\ UNCHANGED <<fixed, local, pad, candidate, descentVars>>

-----------------------------------------------------------------------------
ClosedUpwards(family) == \A X \in family, Y \in Verticals : X \subseteq Y => Y \in family

\* EnsureInitialized: the first launch pads.
InitialPads == IF strategy = "fd" THEN {{}} ELSE {{c} : c \in SpaceColumns}

SpaceInit ==
  /\ strategy \in {"fd", "key"}
  /\ exactSets \in {family \in SUBSET Verticals : ClosedUpwards(family)}
  /\ strategy = "key" => {} \notin exactSets
  /\ maxLhs \in 1..Cardinality(SpaceColumns)
  /\ found = [X \in Verticals |-> 0]
  /\ global = EmptyMap
  /\ local = EmptyMap
  /\ space = [scope |-> {}, pads |-> InitialPads, deferred |-> {}]
  /\ outer = <<>>
  /\ pad = {}
  /\ candidate = {}
  /\ peaks = EmptyMap
  /\ alleged = EmptyMap
  /\ nons = {}
  /\ frames = <<>>
  /\ stage = "poll"

SpaceNext ==
  \/ DropLaunchPad \/ EscapeLaunchPad \/ TakeLaunchPad \/ Finish
  \/ Ascend
  \/ EscapePeak \/ DescendPeak \/ TryParent \/ Evaluate \/ Conclude
  \/ LeaveNested

SpaceSpec == SpaceInit /\ [][SpaceNext]_spaceVars /\ WF_spaceVars(SpaceNext)

-----------------------------------------------------------------------------
(* Properties. *)

Minimal(X) == X \in exactSets /\ ~\E Y \in exactSets : Y \subseteq X /\ Y # X

\* Whatever the estimates are, what has been registered is minimal and was
\* registered once, and at the end no minimal dependency with at most max_lhs
\* columns is missing (Discover).
FoundOnceEach ==
  /\ \A X \in Verticals : found[X] <= IF Minimal(X) /\ Cardinality(X) <= maxLhs THEN 1 ELSE 0
  /\ stage = "done" => \A X \in Verticals : Minimal(X) /\ Cardinality(X) <= maxLhs => found[X] = 1

\* The search ends, however often the estimates send it into nested spaces:
\* every step of it is one of Discover's own thread.
SearchEnds == <>(stage = "done")
=============================================================================
