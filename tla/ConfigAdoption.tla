----------------------------- MODULE ConfigAdoption -----------------------------
(***************************************************************************)
(* Adopting manual changes of config.yaml into override.yaml,              *)
(* internal/manager/adopt.go, between the things that happen around it:    *)
(* the user edits config.yaml or override.yaml, the subscription is        *)
(* updated, the config is rendered and applied.                            *)
(*                                                                         *)
(* Every operation is one step: each holds the instance lock from          *)
(* beginning to end, and override.yaml is replaced by a rename.  Comments, *)
(* anchors and the texts of errors are left out.  The transaction that     *)
(* applies a config is ConfigPipeline's.                                   *)
(***************************************************************************)
EXTENDS OverrideMerge, FiniteSets

CONSTANTS Subscriptions,  \* what the provider may serve: mappings
          Overrides,      \* what the user may write into override.yaml
          EditValues,     \* EditValues[field]: what the user may set it to; Missing
                          \* removes it
          LargeAt         \* the number of fields that needs --force: 5 in the code

\* The provider serves mappings; tags in config.yaml mean nothing to AdoptConfig.
ASSUME AdoptionAssumption ==
    /\ IsFiniteSet(Keys) /\ LargeAt \in Nat
    /\ Subscriptions \subseteq {n \in Configs[Depth] : IsMap(n)}
    /\ Overrides \subseteq Overlays[Depth] \cup {Missing, Unparsable, Legacy}
    /\ DOMAIN EditValues \subseteq Keys
    /\ \A f \in DOMAIN EditValues : EditValues[f] \subseteq Configs[Depth - 1] \cup {Missing}

VARIABLES base,      \* the subscription data
          override,  \* override.yaml
          config,    \* config.yaml
          outcome,   \* of the last command
          kept       \* what was adopted: field -> its node in config.yaml then

vars == <<base, override, config, outcome, kept>>

Rendered == MergeConfig(base, override)

BaseMap  == IF IsMap(base) THEN base ELSE Mapping(<<>>)

\* What AdoptConfig compares, config.yaml and what is rendered now: the top-level
\* fields that differ.
Differing(old, new) == {k \in KeysOf(old) \cup KeysOf(new) : Get(old, k) # Get(new, k)}

\* Mutant: only an array in config.yaml counts as one.
ArrayInConfig(k, old, new) == IsList(Get(old, k))

IsArray(k, old, new) == IsList(Get(old, k)) \/ IsList(Get(new, k))

ArrayDiff(old, new) == {k \in Differing(old, new) : IsArray(k, old, new)}
Fields(old, new)    == {k \in Differing(old, new) : ~IsArray(k, old, new)}

\* Mutant: one field more is let through.
LargerDiff(fields) == Cardinality(fields) > LargeAt

LargeDiff(fields) == Cardinality(fields) >= LargeAt

\* Mutant: what the subscription says already is not written.
AdoptDifference(current, b, below, k) ==
    IF Get(b, k) = Get(current, k) THEN Missing
    ELSE IF Get(current, k) # Missing THEN below[<<Get(current, k), Get(b, k)>>] ELSE Delete("null")

\* What is written for a key of a mapping, given what is for the values below.
AdoptEntry(current, b, below, k) ==
    IF Get(current, k) # Missing THEN below[<<Get(current, k), Get(b, k)>>]
    ELSE IF Get(b, k) # Missing THEN Delete("null") ELSE Missing

\* adoptValueNode, one node.
Adopt(current, b, below) ==
    IF IsMap(current) THEN Map([k \in Keys |-> AdoptEntry(current, b, below, k)]) ELSE current

adopt[d \in 0..Depth] ==
    IF d = 0 THEN <<>>
    ELSE [node \in Configs[d] \X (Configs[d] \cup {Missing}) |-> Adopt(node[1], node[2], adopt[d - 1])]

\* What is written for a field of config.yaml.
AdoptValue(current, b) == adopt[Depth - 1][<<current, b>>]

\* Mutant: a field that is gone is always deleted by directive.
NoRemovals(fields) == {}

\* writeOverrideFields: fields only the override had are removed from it, the
\* others are set, and nothing else is touched.
Removals(fields) == {k \in fields : k \notin KeysOf(config) /\ k \notin KeysOf(BaseMap)}

Adopted(k) == IF k \in KeysOf(config) THEN AdoptValue(Get(config, k), Get(BaseMap, k))
              ELSE Delete("null")

Written(fields) ==
    LET old  == IF override = Missing THEN Mapping(<<>>) ELSE override
        gone == Removals(fields)
    IN  [old EXCEPT !.at = [k \in Keys |-> IF k \in gone THEN Missing
                                          ELSE IF k \in fields THEN Adopted(k) ELSE @[k]]]
-------------------------------------------------------------------------------
Init == /\ base \in Subscriptions
        /\ override \in Overrides
        /\ config = IF IsMap(Rendered) THEN Rendered ELSE Missing
        /\ outcome = "none"
        /\ kept = <<>>

\* The user edits one field of config.yaml.
EditConfig == \E f \in DOMAIN EditValues : \E v \in EditValues[f] :
    /\ IsMap(config)
    /\ config' = [config EXCEPT !.at[f] = v]
    /\ outcome' = "none"
    /\ UNCHANGED <<base, override, kept>>

\* The user writes override.yaml.
EditOverride == /\ override' \in Overrides
                /\ outcome' = "none"
                /\ kept' = <<>>
                /\ UNCHANGED <<base, config>>

\* FetchSubscription.
Fetch == /\ base' \in Subscriptions
         /\ outcome' = "none"
         /\ UNCHANGED <<override, config, kept>>

\* ApplyConfig: a config that cannot be rendered changes nothing.
Apply == /\ config' = Rendered
         /\ IsMap(config')
         /\ outcome' = "none"
         /\ UNCHANGED <<base, override, kept>>

\* AdoptConfig: nothing to adopt, a large difference that is not forced, or the
\* fields written.
AdoptConfig(force) ==
    /\ LET new    == Rendered
           fields == Fields(config, new)
       IN  /\ IsMap(new) /\ IsMap(config)
           /\ IF fields = {} \/ (LargeDiff(fields) /\ ~force)
              THEN /\ outcome' = IF fields # {} THEN "confirm"
                                 ELSE IF ArrayDiff(config, new) # {} THEN "arrays" ELSE "none"
                   /\ UNCHANGED <<override, kept>>
              ELSE /\ override' = Written(fields)
                   /\ outcome' = IF force THEN "forced" ELSE "adopted"
                   /\ kept' = [k \in (DOMAIN kept \ fields) \cup (fields \cap KeysOf(config)) |->
                                 IF k \in fields THEN Get(config, k) ELSE kept[k]]
    /\ UNCHANGED <<base, config>>

\* A config that cannot be rendered, or an override that cannot be written.
AdoptFails == /\ outcome' = "none"
              /\ UNCHANGED <<base, override, config, kept>>

Next == \/ EditConfig \/ EditOverride \/ Fetch \/ Apply \/ AdoptFails
        \/ \E force \in BOOLEAN : AdoptConfig(force)

Spec == Init /\ [][Next]_vars
-------------------------------------------------------------------------------
Adopts == outcome' \in {"adopted", "forced"}

\* adopt.go:26-28: once adopted, config.yaml and what is rendered differ in no
\* field any more, arrays aside, so that a second run finds nothing and the
\* next apply does not undo the user's edits.
AdoptionSettles == [][Adopts => LET new == MergeConfig(base', override') IN Fields(config', new) = {}]_vars

\* An adoption changes nothing else of what is rendered: no array, also where
\* the user has put something else in the place of one, and, without --force,
\* fewer than LargeAt fields (adopt.go:26-27, 65-105).
AdoptsNothingElse ==
    [][Adopts => LET old     == Rendered
                     new     == MergeConfig(base', override')
                     changed == Differing(old, new)
                 IN  /\ \A k \in changed : ~IsArray(k, old, config)
                     /\ outcome' = "adopted" => Cardinality(changed) < LargeAt]_vars

\* Every value inside n is at its place in m.
KeepsNode(m, n, below) ==
    IF IsMap(n) THEN IsMap(m) /\ \A k \in KeysOf(n) : below[<<Get(m, k), Get(n, k)>>] ELSE m = n

keeps[d \in 0..Depth] ==
    IF d = 0 THEN <<>>
    ELSE [node \in (Configs[d] \cup {Missing}) \X Configs[d] |-> KeepsNode(node[1], node[2], keeps[d - 1])]

Keeps(m, n) == keeps[Depth - 1][<<m, n>>]

\* What the user has adopted is in every config rendered later, however often
\* the subscription is updated, until the user adopts something else in its
\* place or writes the override by hand.
AdoptedValuesSurvive ==
    LET new == Rendered
    IN  IsNode(new) => \A f \in DOMAIN kept : Keeps(Get(new, f), kept[f])
=============================================================================
