--------------------------- MODULE PrimitiveProofs ---------------------------
(***************************************************************************)
(* Proofs about Primitive, for any tree of options, any checks of their    *)
(* values and any data: an option is available only because one that is    *)
(* set asked for it, and the loop of ConfigureFromMap never meets an       *)
(* option that was withdrawn or set since it took its set of options.      *)
(* Where the checks read no option that can still change, a run that was   *)
(* not reconfigured has options that agree; the table of the metric        *)
(* verifier is of that kind.                                               *)
(***************************************************************************)
EXTENDS MetricVerifier, TLAPS

\* What the rest needs to know of the shape of the state.
Shape ==
  /\ DOMAIN parents = Options
  /\ todo # {} => call \in Configuring

OptionsInv == Shape /\ OfferedBySet /\ SnapshotStands

LEMMA OptionsInvInit == PrimitiveInit => OptionsInv
BY PrimitiveAssumption
   DEF PrimitiveInit, OptionsInv, Shape, OfferedBySet, SnapshotStands, Roots, Needed

\* Setting an option keeps the tree; one that was not set takes nothing away.
LEMMA AssignKeeps ==
  ASSUME OptionsInv, NEW o \in Options, NEW v, Assign(o, v), UNCHANGED fitCompleted
  PROVE  /\ DOMAIN parents' = Options
         /\ OfferedBySet'
         /\ o \notin isSet => Needed \ {o} \subseteq Needed'
PROOF
<1> DEFINE children == Offers(o, v, [value EXCEPT ![o] = v])
<1>1. /\ isSet' = isSet \cup {o}
      /\ available' = (available \ (IF o \in isSet THEN parents[o] ELSE {})) \cup children
      /\ parents' = [parents EXCEPT ![o] = (IF o \in isSet THEN {} ELSE @) \cup children]
  BY DEF Assign
<1>2. DOMAIN parents = Options /\ OfferedBySet
  BY DEF OptionsInv, Shape
<1>3. DOMAIN parents' = Options
  BY <1>1, <1>2
<1>4. parents'[o] = (IF o \in isSet THEN {} ELSE parents[o]) \cup children
  BY <1>1, <1>2
<1>5. \A p \in Options \ {o} : parents'[p] = parents[p]
  BY <1>1, <1>2
<1> HIDE DEF children
<1>6. ASSUME NEW x \in (available \ Roots)'
      PROVE  \E p \in isSet' : x \in parents'[p]
  <2>1. CASE x \in children
    BY <1>1, <1>4, <2>1
  <2>2. CASE x \notin children
    <3>1. x \in available \ Roots
      BY <1>1, <2>2 DEF Roots
    <3>2. PICK p \in isSet : x \in parents[p]
      BY <1>2, <3>1 DEF OfferedBySet
    <3>3. p # o
      BY <1>1, <1>6, <2>2, <3>2
    <3>4. parents'[p] = parents[p]
      BY <1>1, <3>3
    <3> QED
      BY <1>1, <3>2, <3>4
  <2> QED
    BY <2>1, <2>2
<1>7. \A p \in Options \ isSet' : parents'[p] = {}
  BY <1>1, <1>2, <1>5 DEF OfferedBySet
<1>8. o \notin isSet => Needed \ {o} \subseteq Needed'
  BY <1>1 DEF Needed
<1> QED
  BY <1>3, <1>6, <1>7, <1>8 DEF OfferedBySet

\* Unsetting one takes away what it alone had made available.
LEMMA UnsetKeeps ==
  ASSUME OptionsInv, NEW o \in Options, UnsetWithChildren(o), UNCHANGED fitCompleted
  PROVE  DOMAIN parents' = Options /\ OfferedBySet'
PROOF
<1>1. /\ isSet' = isSet \ {o}
      /\ available' = available \ parents[o]
      /\ parents' = [parents EXCEPT ![o] = {}]
  BY DEF UnsetWithChildren
<1>2. DOMAIN parents = Options /\ OfferedBySet
  BY DEF OptionsInv, Shape
<1>3. ASSUME NEW x \in (available \ Roots)'
      PROVE  \E p \in isSet' : x \in parents'[p]
  <2>1. x \in available \ Roots /\ x \notin parents[o]
    BY <1>1 DEF Roots
  <2>2. PICK p \in isSet : x \in parents[p]
    BY <1>2, <2>1 DEF OfferedBySet
  <2>3. p # o
    BY <2>1, <2>2
  <2>4. parents'[p] = parents[p]
    BY <1>1, <2>3
  <2> QED
    BY <1>1, <2>2, <2>3, <2>4
<1>4. \A p \in Options \ isSet' : parents'[p] = {}
  BY <1>1, <1>2 DEF OfferedBySet
<1> QED
  BY <1>1, <1>2, <1>3, <1>4 DEF OfferedBySet

LEMMA RefuseKeeps ==
  ASSUME OptionsInv, NEW o \in Options, RefuseOption(o), UNCHANGED fitCompleted
  PROVE  DOMAIN parents' = Options /\ OfferedBySet'
PROOF
<1>1. CASE o \in isSet
  BY <1>1, UnsetKeeps DEF RefuseOption
<1>2. CASE UNCHANGED optionVars
  BY <1>2 DEF optionVars, OptionsInv, Shape, OfferedBySet, Roots
<1> QED
  BY <1>1, <1>2 DEF RefuseOption

\* Steps that leave the options as they are.
LEMMA OptionsInvOther ==
  ASSUME OptionsInv, UNCHANGED <<optionVars, fitCompleted>>,
         todo' \in {{}, todo, Needed}, todo' # {} => call' \in Configuring
  PROVE  OptionsInv'
BY DEF optionVars, OptionsInv, Shape, OfferedBySet, SnapshotStands, Roots, Needed

LEMMA OptionsInvNext == OptionsInv /\ [PrimitiveNext]_primitiveVars => OptionsInv'
PROOF
<1> SUFFICES ASSUME OptionsInv, [PrimitiveNext]_primitiveVars PROVE OptionsInv'
  OBVIOUS
<1>0. ~(call \in Configuring) => todo = {}
  BY DEF OptionsInv, Shape
<1>1. ASSUME NEW c \in {"fit", "load", "execute"}, NEW kw, NEW d, Begin(c, kw, d)
      PROVE  OptionsInv'
  BY <1>0, <1>1, OptionsInvOther DEF Begin, Idle, Configuring
<1>2. CASE ExecuteDirectly
  BY <1>2, OptionsInvOther DEF ExecuteDirectly, Leave
<1>3. ASSUME NEW o \in Options, NEW v, SetDirectly(o, v)
      PROVE  OptionsInv'
  <2>1. UNCHANGED <<fitCompleted, callVars>> /\ todo = {}
    BY <1>0, <1>3 DEF SetDirectly, Idle, Configuring
  <2>2. DOMAIN parents' = Options /\ OfferedBySet'
    BY <1>3, <2>1, AssignKeeps, RefuseKeeps DEF SetDirectly
  <2> QED
    BY <2>1, <2>2 DEF OptionsInv, Shape, SnapshotStands, callVars
<1>4. ASSUME NEW o \in Options, UnsetDirectly(o)
      PROVE  OptionsInv'
  <2>1. UNCHANGED <<fitCompleted, callVars>> /\ todo = {}
    BY <1>0, <1>4 DEF UnsetDirectly, Idle, Configuring
  <2>2. DOMAIN parents' = Options /\ OfferedBySet'
    BY <1>4, <2>1, UnsetKeeps DEF UnsetDirectly
  <2> QED
    BY <2>1, <2>2 DEF OptionsInv, Shape, SnapshotStands, callVars
<1>5. CASE TakeNeeded
  BY <1>5, OptionsInvOther DEF TakeNeeded
<1>6. ASSUME NEW o \in Options, SetNext(o)
      PROVE  OptionsInv'
  <2>1. UNCHANGED fitCompleted /\ call \in Configuring
    BY <1>6 DEF SetNext
  <2>2. o \in Needed
    BY <1>6 DEF SetNext, OptionsInv, SnapshotStands
  <2>3. CASE todo' = {}
    <3>1. DOMAIN parents' = Options /\ OfferedBySet'
      <4>1. CASE Assign(o, Given(o, args[o]))
        BY <2>1, <4>1, AssignKeeps
      <4>2. CASE RefuseOption(o)
        BY <2>1, <4>2, RefuseKeeps
      <4> QED
        BY <1>6, <2>2, <4>1, <4>2 DEF SetNext, Needed
    <3> QED
      BY <2>3, <3>1 DEF OptionsInv, Shape, SnapshotStands
  <2>4. CASE todo' # {}
    <3>1. Assign(o, Given(o, args[o])) /\ todo' = todo \ {o} /\ call' = call
      BY <1>6, <2>4 DEF SetNext, Leave
    <3>2. /\ DOMAIN parents' = Options /\ OfferedBySet'
          /\ Needed \ {o} \subseteq Needed'
      BY <2>1, <2>2, <3>1, AssignKeeps DEF Needed
    <3> QED
      BY <2>1, <3>1, <3>2 DEF OptionsInv, Shape, SnapshotStands
  <2> QED
    BY <2>3, <2>4
<1>7. CASE Fit
  <2>1. todo' = {}
    BY <1>7 DEF Fit, Configured, Leave
  <2>2. CASE ExecutePrepare
    <3>1. /\ available' = ExecuteOptions /\ Roots' = ExecuteOptions
          /\ parents' = [x \in Options |-> {}]
      BY <2>2 DEF ExecutePrepare, Roots
    <3> QED
      BY <2>1, <3>1 DEF OptionsInv, Shape, OfferedBySet, SnapshotStands
  <2>3. CASE UNCHANGED <<optionVars, fitCompleted>>
    BY <2>1, <2>3, OptionsInvOther
  <2> QED
    BY <1>7, <2>2, <2>3 DEF Fit
<1>8. CASE Settle \/ Execute \/ Finish
  BY <1>8, OptionsInvOther DEF Settle, Execute, Finish, Leave
<1>9. CASE UNCHANGED primitiveVars
  BY <1>9, <1>0, OptionsInvOther DEF primitiveVars, callVars
<1> QED
  BY <1>1, <1>2, <1>3, <1>4, <1>5, <1>6, <1>7, <1>8, <1>9 DEF PrimitiveNext, Working

\* GetNeededOptions, SetOption, UnsetOption, Fit and ConfigureFromMap in any
\* order keep the tree of options and the loop's snapshot of it.
THEOREM OptionsCorrect == PrimitiveSpec => []OptionsInv
PROOF
<1>1. PrimitiveInit => OptionsInv
  BY OptionsInvInit
<1>2. OptionsInv /\ [PrimitiveNext]_primitiveVars => OptionsInv'
  BY OptionsInvNext
<1> QED
  BY <1>1, <1>2, PTL DEF PrimitiveSpec

\* A conditional option of primitive.cpp is available because an option that
\* is set asked for it, after any calls, refusals and failed fits.
THEOREM OptionsOffered == PrimitiveSpec => []OfferedBySet
PROOF
<1>1. OptionsInv => OfferedBySet
  BY DEF OptionsInv
<1> QED
  BY <1>1, OptionsCorrect, PTL

\* No option of the set ConfigureFromMap goes through is withdrawn, or set,
\* before its turn: SetOption does not throw for being late.
THEOREM SnapshotSound == PrimitiveSpec => []SnapshotStands
PROOF
<1>1. OptionsInv => SnapshotStands
  BY DEF OptionsInv
<1> QED
  BY <1>1, OptionsCorrect, PTL

-----------------------------------------------------------------------------
(* Coherence needs to know which options a check reads.  Before is what Fit    *)
(* needs, Reads[o] the options whose values decide whether a value of o is     *)
(* accepted and what it offers.                                                *)

\* A table of options in which the options that are read are those on the way
\* from the start to the reader, and in which Fit and Execute share none.
Layered(Before, Reads) ==
  /\ FitOptions \subseteq Before /\ ExecuteOptions \cap Before = {}
  /\ \A o \in Options : \A v, val :
       Offers(o, v, val) \subseteq IF o \in Before THEN Before ELSE Options \ Before
  /\ \A o \in ExecuteOptions : Reads[o] = {}
  /\ \A o \in Options \ Before : \A v, val :
       \A c \in Offers(o, v, val) : Reads[c] \subseteq Reads[o] \cup {o}
  /\ \A o \in Options \ Before : \A v, val1, val2 :
       (\A r \in Reads[o] : val1[r] = val2[r]) =>
         /\ \A d : Accepts(o, v, val1, d) => Accepts(o, v, val2, d)
         /\ Offers(o, v, val1) = Offers(o, v, val2)

\* The options of Execute while none was revised: those that are available come
\* after all they read, those that are set were accepted with the values the others
\* still have, and each is there from the start or is offered by one that is set.
Consistent(Before, Reads) ==
  /\ available \subseteq Options \ Before
  /\ isSet \subseteq Before \cup available
  /\ \A o \in available : Reads[o] \subseteq isSet
  /\ \A o \in available \cap isSet :
       /\ Accepts(o, value[o], value, data)
       /\ Offers(o, value[o], value) \subseteq available
  /\ \A o \in available \ ExecuteOptions :
       \E p \in available \cap isSet : o \in Offers(p, value[p], value)

CoherentInv(Before, Reads) ==
  /\ DOMAIN value = Options
  /\ ~fitCompleted => available \cup isSet \subseteq Before
  /\ fitCompleted /\ ~revised => call \notin {"fit", "load"} /\ Consistent(Before, Reads)
  /\ call = "running" => fitCompleted /\ Needed = {}

\* Setting an option that was not set, to a value it accepts, leaves all others as
\* they are.
LEMMA AssignConsistent ==
  ASSUME NEW Before, NEW Reads, Layered(Before, Reads), Consistent(Before, Reads),
         DOMAIN value = Options, NEW o \in available \ isSet, NEW v,
         Accepts(o, v, value, data), Assign(o, v), UNCHANGED data
  PROVE  Consistent(Before, Reads)'
PROOF
<1> DEFINE children == Offers(o, v, value')
<1>1. /\ value' = [value EXCEPT ![o] = v] /\ isSet' = isSet \cup {o}
      /\ available' = available \cup children
  BY DEF Assign
<1>2. o \in Options /\ o \notin Before
  BY DEF Consistent
<1>3. value'[o] = v /\ \A p \in Options \ {o} : value'[p] = value[p]
  BY <1>1, <1>2
<1>4. children \subseteq Options \ Before /\ \A c \in children : Reads[c] \subseteq Reads[o] \cup {o}
  BY <1>2 DEF Layered
<1>5. Reads[o] \subseteq isSet
  BY DEF Consistent
<1>6. ASSUME NEW x \in available, NEW w
      PROVE  /\ Accepts(x, w, value, data) => Accepts(x, w, value', data')
             /\ Offers(x, w, value) = Offers(x, w, value')
  <2>1. \A r \in Reads[x] : value[r] = value'[r]
    <3> SUFFICES ASSUME NEW r \in Reads[x] PROVE value[r] = value'[r]
      OBVIOUS
    <3>1. r # o
      BY DEF Consistent
    <3> QED
      BY <1>1, <3>1
  <2> QED
    BY <2>1 DEF Layered, Consistent
<1> HIDE DEF children
<1>7. available' \subseteq Options \ Before /\ isSet' \subseteq Before \cup available'
  BY <1>1, <1>4 DEF Consistent
<1>8. \A x \in available' : Reads[x] \subseteq isSet'
  BY <1>1, <1>4, <1>5 DEF Consistent
<1>9. ASSUME NEW x \in available' \cap isSet'
      PROVE  /\ Accepts(x, value'[x], value', data')
             /\ Offers(x, value'[x], value') \subseteq available'
  <2>1. CASE x = o
    BY <1>1, <1>3, <1>6, <2>1 DEF children
  <2>2. CASE x # o
    <3>1. x \in available \cap isSet
      BY <1>1, <1>7, <2>2 DEF Consistent
    <3>2. value'[x] = value[x]
      BY <1>3, <2>2, <3>1 DEF Consistent
    <3>3. Accepts(x, value[x], value, data) /\ Offers(x, value[x], value) \subseteq available
      BY <3>1 DEF Consistent
    <3> QED
      BY <1>1, <1>6, <3>1, <3>2, <3>3
  <2> QED
    BY <2>1, <2>2
<1>10. ASSUME NEW x \in available' \ ExecuteOptions
       PROVE  \E p \in available' \cap isSet' : x \in Offers(p, value'[p], value')
  <2>1. CASE x \in children
    BY <1>1, <1>3, <2>1 DEF children
  <2>2. CASE x \in available
    <3>1. PICK p \in available \cap isSet : x \in Offers(p, value[p], value)
      BY <1>10, <2>2 DEF Consistent
    <3>2. p # o /\ p \in Options
      BY <3>1 DEF Consistent
    <3>3. x \in Offers(p, value'[p], value')
      BY <1>3, <1>6, <3>1, <3>2
    <3> QED
      BY <1>1, <3>1, <3>3
  <2> QED
    BY <1>1, <2>1, <2>2
<1> QED
  BY <1>7, <1>8, <1>9, <1>10 DEF Consistent

\* One option is set, or its value is refused.
LEMMA SetConsistent ==
  ASSUME NEW Before, NEW Reads, Layered(Before, Reads), CoherentInv(Before, Reads), OptionsInv,
         NEW o \in Options, o \in available, NEW v,
         \/ ~Refused(o, v) /\ Assign(o, Given(o, v))
         \/ RefuseOption(o),
         UNCHANGED <<fitCompleted, data>>
  PROVE  /\ DOMAIN value' = Options
         /\ ~fitCompleted => available' \cup isSet' \subseteq Before
         /\ fitCompleted /\ ~revised /\ o \notin isSet => Consistent(Before, Reads)'
PROOF
<1>1. CASE ~Refused(o, v) /\ Assign(o, Given(o, v))
  <2> DEFINE w == Given(o, v)
             children == Offers(o, w, [value EXCEPT ![o] = w])
  <2>1. /\ value' = [value EXCEPT ![o] = w] /\ isSet' = isSet \cup {o}
        /\ available' \subseteq available \cup children
    BY <1>1 DEF Assign
  <2>2. Accepts(o, w, value, data)
    BY <1>1 DEF Refused
  <2>3. DOMAIN value' = Options
    BY <2>1 DEF CoherentInv
  <2>4. o \in Before => children \subseteq Before
    BY DEF Layered
  <2>5. ~fitCompleted => available' \cup isSet' \subseteq Before
    <3> HIDE DEF children
    <3> QED
      BY <2>1, <2>4 DEF CoherentInv
  <2>6. fitCompleted /\ ~revised /\ o \notin isSet => Consistent(Before, Reads)'
    <3> HIDE DEF w
    <3> QED
      BY <1>1, <2>2, AssignConsistent DEF CoherentInv, w
  <2> QED
    BY <2>3, <2>5, <2>6
<1>2. CASE RefuseOption(o)
  <2>1. CASE o \in isSet
    <3>1. UNCHANGED value /\ available' \subseteq available /\ isSet' \subseteq isSet
      BY <1>2, <2>1 DEF RefuseOption, UnsetWithChildren
    <3> QED
      BY <2>1, <3>1 DEF CoherentInv
  <2>2. CASE o \notin isSet
    <3>1. UNCHANGED <<available, isSet, value>>
      BY <1>2, <2>2 DEF RefuseOption, optionVars
    <3> QED
      BY <2>2, <3>1 DEF CoherentInv, Consistent
  <2> QED
    BY <2>1, <2>2
<1> QED
  BY <1>1, <1>2

LEMMA CoherentInvInit ==
  ASSUME NEW Before, NEW Reads, Layered(Before, Reads), PrimitiveInit
  PROVE  CoherentInv(Before, Reads)
BY DEF Layered, PrimitiveInit, CoherentInv

\* Steps that leave the options and the data as they are.
LEMMA CoherentInvOther ==
  ASSUME NEW Before, NEW Reads, CoherentInv(Before, Reads),
         UNCHANGED <<optionVars, fitCompleted, data>>, revised => revised',
         call' \in {"fit", "load"} => call' = call \/ revised' \/ ~fitCompleted,
         call' = "running" => call = "running" \/ (fitCompleted /\ Needed = {})
  PROVE  CoherentInv(Before, Reads)'
BY DEF optionVars, CoherentInv, Consistent, Needed

LEMMA CoherentInvNext ==
  ASSUME NEW Before, NEW Reads, Layered(Before, Reads), CoherentInv(Before, Reads), OptionsInv,
         [PrimitiveNext]_primitiveVars
  PROVE  CoherentInv(Before, Reads)'
PROOF
<1>1. ASSUME NEW c \in {"fit", "load", "execute"}, NEW kw, NEW d, Begin(c, kw, d)
      PROVE  CoherentInv(Before, Reads)'
  <2>1. /\ UNCHANGED <<optionVars, fitCompleted, data>>
        /\ call' = c /\ revised' = (revised \/ (c # "execute" /\ fitCompleted))
    BY <1>1 DEF Begin
  <2> QED
    BY <2>1, CoherentInvOther
<1>2. CASE ExecuteDirectly
  BY <1>2, CoherentInvOther DEF ExecuteDirectly, Leave
<1>3. ASSUME NEW o \in Options, NEW v, SetDirectly(o, v)
      PROVE  CoherentInv(Before, Reads)'
  <2>1. /\ UNCHANGED <<fitCompleted, data, call>> /\ call = "idle" /\ o \in available
        /\ revised' = (revised \/ o \in isSet)
        /\ \/ ~Refused(o, v) /\ Assign(o, Given(o, v))
           \/ RefuseOption(o)
    BY <1>3 DEF SetDirectly, Idle, callVars
  <2>2. /\ DOMAIN value' = Options
        /\ ~fitCompleted => available' \cup isSet' \subseteq Before
        /\ fitCompleted /\ ~revised /\ o \notin isSet => Consistent(Before, Reads)'
    BY <2>1, SetConsistent
  <2> QED
    BY <2>1, <2>2 DEF CoherentInv
<1>4. ASSUME NEW o \in Options, UnsetDirectly(o)
      PROVE  CoherentInv(Before, Reads)'
  <2>1. /\ UNCHANGED <<fitCompleted, data, call>> /\ call = "idle"
        /\ revised' = (revised \/ o \in isSet)
        /\ UnsetWithChildren(o)
    BY <1>4 DEF UnsetDirectly, Idle, callVars
  <2>2. UNCHANGED value /\ available' \subseteq available /\ isSet' \subseteq isSet
    BY <2>1 DEF UnsetWithChildren
  <2>3. o \notin isSet => UNCHANGED <<available, isSet>>
    BY <2>1 DEF UnsetWithChildren, OptionsInv, OfferedBySet
  <2> QED
    BY <2>1, <2>2, <2>3 DEF CoherentInv, Consistent
<1>5. CASE TakeNeeded
  BY <1>5, CoherentInvOther DEF TakeNeeded
<1>6. ASSUME NEW o \in Options, SetNext(o)
      PROVE  CoherentInv(Before, Reads)'
  <2>1. /\ UNCHANGED <<fitCompleted, data, revised>> /\ call \in Configuring
        /\ call' \in {call, "idle"}
    BY <1>6 DEF SetNext, Leave
  <2>2. o \in available /\ o \notin isSet
    BY <1>6 DEF SetNext, OptionsInv, SnapshotStands, Needed
  <2>3. \/ ~Refused(o, args[o]) /\ Assign(o, Given(o, args[o]))
        \/ RefuseOption(o)
    BY <1>6, <2>2 DEF SetNext
  <2>4. /\ DOMAIN value' = Options
        /\ ~fitCompleted => available' \cup isSet' \subseteq Before
        /\ fitCompleted /\ ~revised => Consistent(Before, Reads)'
    BY <2>1, <2>2, <2>3, SetConsistent
  <2> QED
    BY <2>1, <2>4 DEF CoherentInv, Configuring
<1>7. CASE Fit
  <2>1. call \in {"fit", "load"} /\ UNCHANGED revised
    BY <1>7 DEF Fit
  <2>2. CASE Fittable(input)
    <3>1. /\ fitCompleted' /\ available' = ExecuteOptions /\ UNCHANGED <<isSet, value>>
          /\ call' \in {"settle", "idle"}
      BY <1>7, <2>2 DEF Fit, ExecutePrepare, Leave
    <3>2. ~revised => isSet \subseteq Before
      BY <2>1 DEF CoherentInv
    <3>3. ~revised => Consistent(Before, Reads)'
      BY <3>1, <3>2, PrimitiveAssumption DEF Layered, Consistent
    <3> QED
      BY <2>1, <3>1, <3>3 DEF CoherentInv
  <2>3. CASE ~Fittable(input)
    <3>1. UNCHANGED <<optionVars, fitCompleted>> /\ call' = "idle"
      BY <1>7, <2>3 DEF Fit, Leave
    <3> QED
      BY <2>1, <3>1 DEF CoherentInv, optionVars
  <2> QED
    BY <2>2, <2>3
<1>8. CASE Settle \/ Execute \/ Finish
  BY <1>8, CoherentInvOther DEF Settle, Execute, Finish, Leave, Configured
<1>9. CASE UNCHANGED primitiveVars
  BY <1>9, CoherentInvOther DEF primitiveVars, callVars
<1> QED
  BY <1>1, <1>2, <1>3, <1>4, <1>5, <1>6, <1>7, <1>8, <1>9 DEF PrimitiveNext, Working

LEMMA CoherentRun ==
  ASSUME NEW Before, NEW Reads, CoherentInv(Before, Reads)
  PROVE  CoherentUntilRevised
PROOF
<1> SUFFICES ASSUME call = "running", ~revised PROVE Coherent
  BY DEF CoherentUntilRevised
<1>1. fitCompleted /\ Consistent(Before, Reads) /\ available \subseteq isSet
  BY DEF CoherentInv, Needed
<1> QED
  BY <1>1 DEF Coherent, Consistent, Roots

\* For every layered table of options: when an algorithm runs and nothing was set
\* again, unset or fitted again, its options agree with each other and with the
\* data, whatever was refused before and in whatever order they were set
\* (Primitive::SetOption, UnsetOption, Fit and Execute, ConfigureFromMap).
THEOREM RunsCoherent ==
  ASSUME NEW Before, NEW Reads, Layered(Before, Reads)
  PROVE  PrimitiveSpec => []CoherentUntilRevised
PROOF
<1>1. PrimitiveInit => CoherentInv(Before, Reads)
  BY CoherentInvInit
<1>2. CoherentInv(Before, Reads) /\ OptionsInv /\ [PrimitiveNext]_primitiveVars
        => CoherentInv(Before, Reads)'
  BY CoherentInvNext
<1>3. CoherentInv(Before, Reads) => CoherentUntilRevised
  BY CoherentRun
<1> QED
  BY <1>1, <1>2, <1>3, OptionsCorrect, PTL DEF PrimitiveSpec

-----------------------------------------------------------------------------
(* The options of the metric verifier. *)

\* The parameters of Primitive are the table of metric_verifier.cpp.
MetricParameters ==
  /\ Options = MetricOptions
  /\ FitOptions = MetricFitOptions
  /\ ExecuteOptions = MetricExecuteOptions
  /\ \A o, v, val, d : Accepts(o, v, val, d) = MetricAccepts(o, v, val, d)
  /\ \A o, v, val : Offers(o, v, val) = MetricOffers(o, v, val)

MetricReads ==
  [o \in MetricOptions |->
     CASE o = "rhs_indices" -> {"metric"}
       [] o \in {"metric_algorithm", "q"} -> {"metric", "rhs_indices"}
       [] OTHER -> {}]

\* What the table of the metric verifier reads is set before the reader is there.
LEMMA MetricLayered ==
  ASSUME MetricParameters
  PROVE  Layered(MetricFitOptions, MetricReads)
PROOF
<1> USE DEF MetricParameters, MetricOptions, MetricFitOptions, MetricExecuteOptions
<1>1. ASSUME NEW o \in Options, NEW v, NEW val
      PROVE  /\ Offers(o, v, val) \subseteq {"rhs_indices", "metric_algorithm", "q"}
             /\ o # "metric" => "rhs_indices" \notin Offers(o, v, val)
             /\ o \notin {"metric", "rhs_indices"} => Offers(o, v, val) = {}
  BY DEF MetricOffers
<1>2. /\ MetricReads["rhs_indices"] = {"metric"}
      /\ MetricReads["metric_algorithm"] = {"metric", "rhs_indices"}
      /\ MetricReads["q"] = {"metric", "rhs_indices"}
      /\ \A o \in MetricExecuteOptions : MetricReads[o] = {}
  BY DEF MetricReads
<1>3. ASSUME NEW o \in Options \ MetricFitOptions, NEW v, NEW val1, NEW val2,
             \A r \in MetricReads[o] : val1[r] = val2[r]
      PROVE  /\ \A d : Accepts(o, v, val1, d) => Accepts(o, v, val2, d)
             /\ Offers(o, v, val1) = Offers(o, v, val2)
  <2>1. CASE o = "rhs_indices"
    BY <1>2, <1>3, <2>1 DEF MetricAccepts, MetricOffers
  <2>2. CASE o = "metric_algorithm"
    BY <1>2, <1>3, <2>2 DEF MetricAccepts, MetricOffers
  <2>3. CASE o \notin {"rhs_indices", "metric_algorithm"}
    BY <2>3 DEF MetricAccepts, MetricOffers
  <2> QED
    BY <2>1, <2>2, <2>3
<1>4. \A o \in Options \ MetricFitOptions : \A v, val :
        \A c \in Offers(o, v, val) : MetricReads[c] \subseteq MetricReads[o] \cup {o}
  <2> SUFFICES ASSUME NEW o \in Options \ MetricFitOptions, NEW v, NEW val,
                      NEW c \in Offers(o, v, val)
               PROVE  MetricReads[c] \subseteq MetricReads[o] \cup {o}
    OBVIOUS
  <2>1. CASE o = "metric"
    <3>1. c = "rhs_indices"
      BY <2>1 DEF MetricOffers
    <3> QED
      BY <1>2, <2>1, <3>1
  <2>2. CASE o = "rhs_indices"
    <3>1. c \in {"metric_algorithm", "q"}
      BY <1>1, <2>2
    <3> QED
      BY <1>2, <2>2, <3>1
  <2> QED
    BY <1>1, <2>1, <2>2
<1> QED
  BY <1>1, <1>2, <1>3, <1>4 DEF Layered

\* A run of the metric verifier that was not reconfigured checks columns its metric
\* and its algorithm can compare.
THEOREM MetricRunsCoherent ==
  ASSUME MetricParameters
  PROVE  PrimitiveSpec => []CoherentUntilRevised
BY MetricLayered, RunsCoherent

=============================================================================
