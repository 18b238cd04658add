------------------------------ MODULE Primitive ------------------------------
(***************************************************************************)
(* The life cycle of an algorithm object (algos::Primitive): options are   *)
(* set, data is loaded (Fit), more options are set, the algorithm runs     *)
(* (Execute).  Some options are available from the start, some after Fit,  *)
(* and some only while another option has a value that asks for them.      *)
(*                                                                         *)
(* The callers are the Python bindings, whose fit and execute first set    *)
(* the options that are needed from the keyword arguments, LoadPrimitive,  *)
(* which the server's container uses, and C++ code that sets options by    *)
(* itself.  What an option accepts and which options it makes available    *)
(* are parameters: MetricVerifier has a table of them.                     *)
(***************************************************************************)

CONSTANTS
  Options,          \* possible_options_
  FitOptions,       \* available in a new object
  ExecuteOptions,   \* made available by MakeExecuteOptsAvailable
  Values(_),        \* Values(o): what a caller may give for o
  Default,          \* Default[o], NoValue if there is none
  Accepts(_, _, _, _), \* Accepts(o, v, value, data): normalize_ and instance_check_
  Offers(_, _, _),  \* Offers(o, v, value): the children by opt_cond_
  Datasets,
  Fittable(_),      \* whether FitInternal takes the dataset
  KeywordArgs,      \* functions on Options, NoValue where no argument is given
  DirectUse,        \* whether callers use SetOption and UnsetOption themselves
  NoValue,
  NoData

ASSUME PrimitiveAssumption ==
  /\ FitOptions \subseteq Options
  /\ ExecuteOptions \subseteq Options
  /\ DOMAIN Default = Options
  /\ NoData \notin Datasets
  /\ DirectUse \in BOOLEAN

VARIABLES
  available,     \* available_options
  parents,       \* opt_parents_: the children each option has made available
  isSet,         \* the options whose is_set_ is true
  value,         \* value[o]: what value_ptr_ of o points to
  fitCompleted,  \* fit_completed_
  data,          \* relation_ and the like
  call,          \* what the object is doing
  args,          \* the keyword arguments of the call
  input,         \* the dataset given to fit
  todo,          \* `needed` in ConfigureFromMap: what the loop has not set yet
  revised        \* whether something was set, unset or fitted a second time

optionVars == <<available, parents, isSet, value>>
callVars == <<call, args, input, todo>>
primitiveVars == <<optionVars, fitCompleted, data, callVars, revised>>

Configuring == {"fit", "load", "settle", "execute"}

PrimitiveInit ==
  /\ available = FitOptions
  /\ parents = [o \in Options |-> {}]
  /\ isSet = {}
  /\ value = [o \in Options |-> NoValue]
  /\ fitCompleted = FALSE
  /\ data = NoData
  /\ call = "idle"
  /\ args = Default
  /\ input = NoData
  /\ todo = {}
  /\ revised = FALSE

\* Mutant: options that are set are needed again.
NeededAll == available

\* GetNeededOptions
Needed == available \ isSet

-----------------------------------------------------------------------------
\* Mutant: the children stay available.
UnsetOnly(o) ==
  /\ isSet' = isSet \ {o}
  /\ UNCHANGED <<available, parents, value>>

\* UnsetOption of an available option, and ExcludeOptions for its children:
\* they are erased from available_options first, so that the UnsetOption of a
\* child returns at once; the child stays set, and so do its own children.
UnsetWithChildren(o) ==
  /\ isSet' = isSet \ {o}
  /\ available' = available \ parents[o]
  /\ parents' = [parents EXCEPT ![o] = {}]
  /\ UNCHANGED value

\* Mutant: the children become known and not available.
AssignAlone(o, v) ==
  LET excluded == IF o \in isSet THEN parents[o] ELSE {}
      children == Offers(o, v, [value EXCEPT ![o] = v])
  IN  /\ value' = [value EXCEPT ![o] = v]
      /\ isSet' = isSet \cup {o}
      /\ available' = available \ excluded
      /\ parents' = [parents EXCEPT ![o] = (IF o \in isSet THEN {} ELSE @) \cup children]

\* SetOption with a value the option takes: unset first, if it was set.
Assign(o, v) ==
  LET excluded == IF o \in isSet THEN parents[o] ELSE {}
      children == Offers(o, v, [value EXCEPT ![o] = v])
  IN  /\ value' = [value EXCEPT ![o] = v]
      /\ isSet' = isSet \cup {o}
      /\ available' = (available \ excluded) \cup children
      /\ parents' = [parents EXCEPT ![o] = (IF o \in isSet THEN {} ELSE @) \cup children]

Given(o, v) == IF v = NoValue THEN Default[o] ELSE v

\* No default, or normalize_ or instance_check_ throws.
Refused(o, v) == Given(o, v) = NoValue \/ ~Accepts(o, Given(o, v), value, data)

\* A refused value leaves the option unset.
RefuseOption(o) ==
  IF o \in isSet THEN UnsetWithChildren(o) ELSE UNCHANGED optionVars

-----------------------------------------------------------------------------
\* The caller's turn.

Idle == call = "idle"

\* The arguments of a call go with it.
Leave(c) ==
  /\ call' = c
  /\ args' = Default
  /\ input' = NoData
  /\ todo' = {}

\* fit(...) and execute(...) of the bindings; LoadPrimitive of a new object.
Begin(c, kw, d) ==
  /\ Idle
  /\ c = "load" => isSet = {} /\ data = NoData
  /\ call' = c
  /\ args' = kw
  /\ input' = d
  /\ revised' = (revised \/ (c # "execute" /\ fitCompleted))
  /\ UNCHANGED <<optionVars, fitCompleted, data, todo>>

\* Execute() itself, as the server's container calls it.
ExecuteDirectly ==
  /\ Idle
  /\ fitCompleted
  /\ Needed = {}
  /\ Leave("running")
  /\ UNCHANGED <<optionVars, fitCompleted, data, revised>>

SetDirectly(o, v) ==
  /\ DirectUse
  /\ Idle
  /\ o \in available
  /\ IF Refused(o, v) THEN RefuseOption(o) ELSE Assign(o, Given(o, v))
  /\ revised' = (revised \/ o \in isSet)
  /\ UNCHANGED <<fitCompleted, data, callVars>>

UnsetDirectly(o) ==
  /\ DirectUse
  /\ Idle
  /\ o \in available
  /\ UnsetWithChildren(o)
  /\ revised' = (revised \/ o \in isSet)
  /\ UNCHANGED <<fitCompleted, data, callVars>>

-----------------------------------------------------------------------------
\* ConfigureFromMap.

\* Mutant: every available option is taken.
TakeAvailable ==
  /\ call \in Configuring
  /\ todo = {}
  /\ Needed # {}
  /\ todo' = available
  /\ UNCHANGED <<optionVars, fitCompleted, data, call, args, input, revised>>

\* while (!(needed = primitive.GetNeededOptions()).empty())
TakeNeeded ==
  /\ call \in Configuring
  /\ todo = {}
  /\ Needed # {}
  /\ todo' = Needed
  /\ UNCHANGED <<optionVars, fitCompleted, data, call, args, input, revised>>

\* One option of the unordered set; an exception ends the whole call.
SetNext(o) ==
  /\ call \in Configuring
  /\ o \in todo
  /\ IF o \notin available \/ Refused(o, args[o])
       THEN /\ IF o \in available THEN RefuseOption(o) ELSE UNCHANGED optionVars
            /\ Leave("idle")
       ELSE /\ Assign(o, Given(o, args[o]))
            /\ todo' = todo \ {o}
            /\ UNCHANGED <<call, args, input>>
  /\ UNCHANGED <<fitCompleted, data, revised>>

Configured == call \in Configuring /\ todo = {} /\ Needed = {}

\* ExecutePrepare: what was available before is forgotten, values are not.
ExecutePrepare ==
  /\ fitCompleted' = TRUE
  /\ available' = ExecuteOptions
  /\ parents' = [o \in Options |-> {}]
  /\ UNCHANGED <<isSet, value>>

\* Fit: FitInternal replaces the relation before it looks at it and throws.
Fit ==
  /\ Configured
  /\ call \in {"fit", "load"}
  /\ data' = input
  /\ IF Fittable(input)
       THEN ExecutePrepare
       ELSE UNCHANGED <<optionVars, fitCompleted>>
  /\ IF Fittable(input) /\ call = "load"
       THEN call' = "settle" /\ UNCHANGED <<args, input, todo>>
       ELSE Leave("idle")
  /\ UNCHANGED revised

\* The second ConfigureFromMap of LoadPrimitive.
Settle ==
  /\ Configured
  /\ call = "settle"
  /\ Leave("idle")
  /\ UNCHANGED <<optionVars, fitCompleted, data, revised>>

\* Execute, which throws when nothing was fitted.
Execute ==
  /\ Configured
  /\ call = "execute"
  /\ Leave(IF fitCompleted THEN "running" ELSE "idle")
  /\ UNCHANGED <<optionVars, fitCompleted, data, revised>>

Finish ==
  /\ call = "running"
  /\ Leave("idle")
  /\ UNCHANGED <<optionVars, fitCompleted, data, revised>>

Working ==
  \/ TakeNeeded
  \/ \E o \in Options : SetNext(o)
  \/ Fit
  \/ Settle
  \/ Execute
  \/ Finish

PrimitiveNext ==
  \/ \E kw \in KeywordArgs :
       \/ \E c \in {"fit", "load"}, d \in Datasets : Begin(c, kw, d)
       \/ Begin("execute", kw, NoData)
  \/ ExecuteDirectly
  \/ \E o \in Options : UnsetDirectly(o) \/ \E v \in Values(o) : SetDirectly(o, v)
  \/ Working

PrimitiveSpec == PrimitiveInit /\ [][PrimitiveNext]_primitiveVars

\* The call is sequential code that nothing else waits in.
FairPrimitiveSpec == PrimitiveSpec /\ WF_primitiveVars(Working)

-----------------------------------------------------------------------------
\* Types; an option that is set has a value.
PrimitiveTypeOK ==
  /\ available \subseteq Options
  /\ parents \in [Options -> SUBSET Options]
  /\ isSet \subseteq Options
  /\ \A o \in isSet : value[o] # NoValue
  /\ fitCompleted \in BOOLEAN
  /\ data \in Datasets \cup {NoData}
  /\ call \in Configuring \cup {"idle", "running"}
  /\ todo \subseteq Options
  /\ revised \in BOOLEAN

Roots == IF fitCompleted THEN ExecuteOptions ELSE FitOptions

\* available_options and opt_parents_ agree through any sequence of calls and
\* errors: a conditional option is available because an option that is set
\* asked for it, and an option that is not set has asked for none.
OfferedBySet ==
  /\ \A o \in available \ Roots : \E p \in isSet : o \in parents[p]
  /\ \A p \in Options \ isSet : parents[p] = {}

\* ConfigureFromMap goes through a set that was taken before its loop, while
\* each round changes which options are available and set.  No option of it is
\* withdrawn or set before its turn.
SnapshotStands == todo \subseteq Needed

\* The options agree with each other and with the data: each was accepted with
\* the values the others have, and the available ones are those asked for.
Coherent ==
  /\ available \subseteq isSet
  /\ \A o \in available :
       /\ Accepts(o, value[o], value, data)
       /\ Offers(o, value[o], value) \subseteq available
  /\ \A o \in available \ Roots : \E p \in available : o \in Offers(p, value[p], value)

\* Whatever attempts were refused before it and in whatever order the options
\* were set, a run has coherent options, unless one was set again or unset or
\* the object was fitted again.
CoherentUntilRevised == call = "running" /\ ~revised => Coherent

\* ConfigureFromMap ends.
ConfigureEnds == call \in Configuring ~> call \notin Configuring

=============================================================================
