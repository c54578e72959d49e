----------------------------- MODULE RenderReference -----------------------------
(***************************************************************************)
(* One render (previewConfig, internal/manager/config.go) of every pair of *)
(* subscription data and override in Inputs, and what README.md:85-97      *)
(* promises of the result, stated without following the merge item by      *)
(* item.                                                                   *)
(***************************************************************************)
EXTENDS OverrideMerge

CONSTANT Inputs  \* pairs of subscription data and contents of override.yaml

ASSUME InputsAssumption ==
    Inputs \subseteq (Configs[Depth] \cup {Missing, Unparsable})
                        \X (Overlays[Depth] \cup {Missing, Unparsable, Legacy})

VARIABLES data,      \* the subscription data
          overlay,   \* override.yaml
          rendered

renderVars == <<data, overlay, rendered>>

RenderInit == /\ \E input \in Inputs : data = input[1] /\ overlay = input[2]
              /\ rendered = Missing

\* previewConfig.
Render == /\ rendered = Missing
          /\ rendered' = MergeConfig(data, overlay)
          /\ UNCHANGED <<data, overlay>>

RenderSpec == RenderInit /\ [][Render]_renderVars
-------------------------------------------------------------------------------
\* What the documentation promises, stated on the place a value is at.

Done       == rendered # Missing /\ IsMap(data) /\ IsNode(overlay)
WellMerged == Done /\ rendered # Failed /\ IsMap(overlay)

At(n, path) ==
    LET at[i \in 0..Len(path)] == IF i = 0 THEN n ELSE Get(at[i - 1], path[i])
    IN  at[Len(path)]

Paths(n) ==
    LET of[d \in 0..Depth] ==
            IF d = 0 THEN {<<>>}
            ELSE {<<>>} \cup UNION {{Append(p, k) : k \in KeysOf(At(n, p))} : p \in of[d - 1]}
    IN  of[Depth]

\* The override has the last word on a value it replaces, deletes or gives no
\* mapping for, and on every provider it names.
Decides(path) ==
    LET n == At(overlay, path)
    IN  /\ IsNode(n)
        /\ \/ n.tag # "plain" \/ ~IsMap(n)
           \/ Len(path) = 2 /\ path[1] \in {"proxy-providers", "rule-providers"}
Deciding(path) == {i \in 0..Len(path) : Decides(SubSeq(path, 1, i))}

ByItsName(path)  == Len(path) = 1 /\ path[1] \in IdentityArrays \cup {"rules"}

\* Nodes of the same kind, value and length.
Alike(m, n) == /\ m.kind = n.kind
               /\ IsScalar(m) => m.value = n.value
               /\ IsList(m) => Len(m.items) = Len(n.items)
               /\ IsMap(m) => KeysOf(m) = KeysOf(n)

\* In a rendered config a value comes from the override exactly where the
\* override decides, whole mappings and lists included, and from the
\* subscription everywhere else: nothing of a replaced or deleted value
\* survives beside or below it, and nothing else of the subscription is lost.
FieldsComeFromTheRightSide ==
    WellMerged => \A p \in Paths(data) \cup Paths(overlay) \cup Paths(rendered) :
        LET r == At(rendered, p)
            o == At(overlay, p)
        IN  IF Deciding(p) # {}
            THEN LET top == SubSeq(p, 1, CHOOSE i \in Deciding(p) : \A j \in Deciding(p) : i <= j)
                 IN  IF At(overlay, top).tag = "delete" THEN r = Missing
                     ELSE Alike(r, o) \/ (ByItsName(p) /\ o.tag = "plain" /\ IsList(o) /\ IsList(r))
            ELSE IF IsNode(o) THEN IsMap(r) ELSE r = At(data, p)

Items(n, key)   == LET l == Get(n, key) IN IF IsList(l) THEN l.items ELSE <<>>
Additions(list) == Without(list, {x \in ItemsOf(list) : x.tag = "delete"})
Deletions(list) == {x.value : x \in {y \in ItemsOf(list) : y.tag = "delete"}}
Final(list)     == [i \in DOMAIN list |-> Stripped(list[i])]

\* The fields whose arrays are merged item by item here.
MergedByName ==
    {f \in IdentityArrays \cup {"rules"} :
        LET o == Get(overlay, f) IN IsList(o) /\ o.tag = "plain"}

\* proxies and proxy-groups: the subscription's items stay in their order
\* without the deleted ones; an item the override names takes the first place
\* its name had, and the name occurs once; new names follow in the override's
\* order.
ItemsAreMergedByName ==
    WellMerged => \A f \in MergedByName \ {"rules"} :
        LET old  == Items(data, f)
            new  == Items(overlay, f)
            more == Additions(new)
            mine == [i \in DOMAIN more |-> Name(more[i])]
            Seen(i) == \E j \in 1..(i - 1) : HasName(old[j]) /\ Name(old[j]) = Name(old[i])
            Gone(i) == /\ HasName(old[i])
                       /\ \/ Name(old[i]) \in Deletions(new)
                          \/ Name(old[i]) \in ItemsOf(mine) /\ Seen(i)
            Last(i) == IF HasName(old[i]) /\ Name(old[i]) \in ItemsOf(mine)
                       THEN Stripped(more[CHOOSE j \in DOMAIN more : mine[j] = Name(old[i])])
                       ELSE old[i]
            stay == Without([i \in DOMAIN old |-> i], {i \in DOMAIN old : Gone(i)})
            known == {x \in ItemsOf(more) : ItemsNamed(old, Name(x)) # {}}
        IN  Items(rendered, f) = [i \in DOMAIN stay |-> Last(stay[i])] \o Final(Without(more, known))

\* rules: those of the override stand together in their order, right before the
\* first MATCH rule the subscription is left with, or at the end; the
\* subscription's own rules keep their order and lose exactly the deleted ones.
RulesPrecedeTheFallback ==
    WellMerged /\ "rules" \in MergedByName =>
        LET new  == Items(overlay, "rules")
            old  == Items(data, "rules")
            kept == Without(old, {x \in ItemsOf(old) : IsScalar(x) /\ x.value \in Deletions(new)})
        IN  \E n \in 0..Len(kept) :
              /\ Fallback(kept, n)
              /\ Items(rendered, "rules") =
                   SubSeq(kept, 1, n) \o Final(Additions(new)) \o SubSeq(kept, n + 1, Len(kept))

\* The mistakes README.md:94 says are errors.
Twice(list) == \E i, j \in DOMAIN list : i < j /\ HasName(list[i]) /\ HasName(list[j])
                                         /\ Name(list[i]) = Name(list[j])

ArrayMistake(f) ==
    LET old == Items(data, f)
        new == Items(overlay, f)
        Is(x, v) == IF f = "rules" THEN IsRule(x, v) ELSE Named(x, v)
        add == Additions(new)
        DeleteMistake(i) ==
            \/ ~IsScalar(new[i]) \/ new[i].value = Blank
            \/ ~\E x \in ItemsOf(old) : Is(x, new[i].value)
            \/ \E x \in ItemsOf(add) : Is(x, new[i].value)
            \/ \E j \in DOMAIN new \ {i} : new[j] = new[i]
    IN  \/ f # "rules" /\ (Twice(add) \/ \E x \in ItemsOf(add) : ~HasName(x))
        \/ \E x \in ItemsOf(add) : Stripped(x) = Failed
        \/ \E i \in DOMAIN new : new[i].tag = "delete" /\ DeleteMistake(i)

FieldMistake(p) ==
    LET n == At(overlay, p)
        decided == {i \in Deciding(p) : i < Len(p)}
    IN  \/ IsMap(n) /\ n.flaw # "none"
        \/ IsList(n) /\ HasDuplicateKey(n)
        \/ n.tag = "delete" /\ (p = <<>> \/ ~IsNull(n) \/ At(data, p) = Missing \/ decided # {})
        \/ n.tag = "replace" /\ p = <<>>
        \/ IsList(n) /\ ~(ByItsName(p) /\ n.tag = "plain") /\ Stripped(n) = Failed

\* A config is rendered exactly when the subscription data can be read and the
\* override makes no mistake: no target to delete that is not there, no name deleted
\* and added or added twice, no repeated key, no directive on a key, on the document
\* or inside a value that is replaced.  A mistake anywhere fails the whole render.
\* Items of an array go unlooked at when there is no mapping to merge with and no
\* directive: merge.go:61-63.
MistakesAreRejected ==
    rendered # Missing /\ IsNode(overlay) =>
      (rendered = Failed <=>
        \/ data = Unparsable
        \/ \E p \in Paths(overlay) : FieldMistake(p)
        \/ /\ IsMap(data) \/ HasDirective(overlay)
           /\ \E f \in MergedByName : ArrayMistake(f))

\* An override that names an item twice in one array is an error, whatever the
\* subscription is: README.md:94.
RepeatedItemsAreRejected ==
    rendered # Missing /\ (\E f \in MergedByName : f # "rules" /\ Twice(Additions(Items(overlay, f)))) =>
        rendered = Failed

\* No directive of the override reaches the config the core reads, whatever the
\* override does with the subscription's data: merge.go:29-30.
NoDirectiveLeaks == IsNode(rendered) => ~HasDirective(rendered)
=============================================================================
