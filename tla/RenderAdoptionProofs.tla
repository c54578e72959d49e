-------------------------- MODULE RenderAdoptionProofs --------------------------
(***************************************************************************)
(* What a render and an adoption promise, proved for every subscription,   *)
(* every override, every edit of config.yaml, any keys and texts and any   *)
(* depth.                                                                  *)
(*                                                                         *)
(* Of a render: that it has no directives, where its rules stand, what     *)
(* arrays merged by name are (MergedRules, MergedArray), which side the    *)
(* value at a place is from (Walked), and that it fails exactly when there *)
(* is a mistake (SettledFails, MergeFails).  Of an adoption: that what is  *)
(* adopted is in every config rendered later (AdoptInv, KeptInMerge), and  *)
(* that the next config has no difference left (AfterAdopting).            *)
(***************************************************************************)
EXTENDS RenderReference, ConfigAdoption, OverrideMergeProofs

\* What is rendered is nothing yet, or the merge.
RenderInv == /\ data \in Configs[Depth] \cup {Missing, Unparsable}
             /\ overlay \in Overlays[Depth] \cup {Missing, Unparsable, Legacy}
             /\ rendered = Missing \/ rendered = MergeConfig(data, overlay)

\* It stays so.
THEOREM RenderInvariant == RenderSpec => []RenderInv
<1>1. RenderInit => RenderInv
  <2>1. \A input \in Inputs : /\ input[1] \in Configs[Depth] \cup {Missing, Unparsable}
                              /\ input[2] \in Overlays[Depth] \cup {Missing, Unparsable, Legacy}
    BY InputsAssumption DEF InputsAssumption
  <2> QED
    BY <2>1 DEF RenderInit, RenderInv
<1>2. RenderInv /\ [Render]_renderVars => RenderInv'
  BY DEF RenderInv, Render, renderVars
<1> QED
  BY <1>1, <1>2, PTL DEF RenderSpec

\* No directive of the override reaches the core: whatever is rendered is a config,
\* and a config has none.
THEOREM NoDirectiveIsRendered == RenderSpec => []NoDirectiveLeaks
<1>1. RenderInv => NoDirectiveLeaks
  <2> SUFFICES ASSUME RenderInv, IsNode(rendered)
               PROVE  ~HasDirective(rendered)
    BY DEF NoDirectiveLeaks
  <2>1. rendered = MergeConfig(data, overlay)
    BY DEF RenderInv, IsNode, Missing
  <2>2. rendered \in Configs[Depth]
    <3>1. rendered \in Configs[Depth] \cup {Missing, Unparsable, Legacy, Failed}
      BY <2>1, MergeMakesConfigs DEF RenderInv
    <3> QED
      BY <3>1 DEF IsNode, Missing, Unparsable, Legacy, Failed
  <2> QED
    BY <2>2, ConfigsHaveNoDirective
<1> QED
  BY <1>1, RenderInvariant, PTL

-------------------------------------------------------------------------------
\* The items of a list and one more.
LEMMA AppendItems ==
  ASSUME NEW X, NEW s \in Seq(X), NEW x \in X
  PROVE  ItemsOf(Append(s, x)) = ItemsOf(s) \cup {x}
<1>1. /\ Append(s, x) \in Seq(X) /\ Len(Append(s, x)) = Len(s) + 1
      /\ \A j \in 1..Len(s) : Append(s, x)[j] = s[j]
      /\ Append(s, x)[Len(s) + 1] = x
  OBVIOUS
<1>2. DOMAIN s = 1..Len(s) /\ DOMAIN Append(s, x) = 1..(Len(s) + 1) /\ Len(s) \in Nat
  BY <1>1
<1> QED
  BY <1>1, <1>2 DEF ItemsOf

\* The items the overlay adds, with one more.
LEMMA AppendAdditions ==
  ASSUME NEW X, NEW s \in Seq(X), NEW x \in X
  PROVE  Additions(Append(s, x)) = IF x.tag = "delete" THEN Additions(s) ELSE Append(Additions(s), x)
<1> DEFINE r == Append(s, x)
           G == {y \in ItemsOf(r) : y.tag = "delete"}
           H == {y \in ItemsOf(s) : y.tag = "delete"}
<1>1. ItemsOf(r) = ItemsOf(s) \cup {x}
  BY AppendItems
<1> HIDE DEF r
<1>2. \A i \in 1..Len(s) : s[i] \in ItemsOf(s)
  BY DEF ItemsOf
<1>3. x \in G <=> x.tag = "delete"
  BY <1>1
<1>4. \A i \in 1..Len(s) : s[i] \in G <=> s[i] \in H
  BY <1>1, <1>2
<1>5. Additions(r) = Without(r, G) /\ Additions(s) = Without(s, H)
  BY DEF Additions
<1> HIDE DEF G, H
<1>6. Without(s, G) = Without(s, H)
  BY <1>4, WithoutSame
<1>7. CASE x \in G
  <2>1. Without(Append(s, x), G) = Without(s, G)
    BY <1>7, WithoutGone
  <2> QED
    BY <1>3, <1>5, <1>6, <1>7, <2>1 DEF r
<1>8. CASE x \notin G
  <2>1. Without(Append(s, x), G) = Append(Without(s, G), x)
    BY <1>8, WithoutLeft
  <2> QED
    BY <1>3, <1>5, <1>6, <1>8, <2>1 DEF r
<1> QED
  BY <1>7, <1>8

\* The texts it deletes.
LEMMA AppendDeletions ==
  ASSUME NEW X, NEW s \in Seq(X), NEW x \in X
  PROVE  Deletions(Append(s, x)) = IF x.tag = "delete" THEN Deletions(s) \cup {x.value} ELSE Deletions(s)
BY AppendItems DEF Deletions

\* What they are in the result.
LEMMA AppendFinal ==
  ASSUME NEW X, NEW s \in Seq(X), NEW x \in X
  PROVE  Final(Append(s, x)) = Append(Final(s), Stripped(x))
<1>1. /\ Append(s, x) \in Seq(X) /\ Len(Append(s, x)) = Len(s) + 1
      /\ \A j \in 1..Len(s) : Append(s, x)[j] = s[j]
      /\ Append(s, x)[Len(s) + 1] = x
  OBVIOUS
<1>2. DOMAIN s = 1..Len(s) /\ DOMAIN Append(s, x) = 1..(Len(s) + 1) /\ Len(s) \in Nat
  BY <1>1
<1> DEFINE Y == {Stripped(s[i]) : i \in 1..Len(s)} \cup {Stripped(x)}
           f == [i \in 1..Len(s) |-> Stripped(s[i])]
           g == [i \in 1..(Len(s) + 1) |-> Stripped(Append(s, x)[i])]
<1>3. Final(s) = f /\ Final(Append(s, x)) = g
  BY <1>2 DEF Final
<1>4. f \in Seq(Y) /\ Len(f) = Len(s) /\ Stripped(x) \in Y
  BY <1>2
<1>5. \A i \in 1..Len(s) : g[i] = f[i]
  BY <1>1, <1>2
<1>6. g[Len(s) + 1] = Stripped(x)
  BY <1>1, <1>2
<1> DEFINE h == Append(f, Stripped(x))
           z == Stripped(x)
<1> HIDE DEF Y, f, z
<1>7. /\ h \in Seq(Y) /\ Len(h) = Len(s) + 1 /\ h[Len(s) + 1] = Stripped(x)
      /\ \A i \in 1..Len(s) : h[i] = f[i]
  BY <1>2, <1>4 DEF z
<1>8. h = [i \in 1..(Len(s) + 1) |-> h[i]] /\ g = [i \in 1..(Len(s) + 1) |-> g[i]]
  <2> HIDE DEF h
  <2> QED
    BY <1>7
<1> HIDE DEF g, h
<1>9. \A i \in 1..(Len(s) + 1) : g[i] = h[i]
  BY <1>2, <1>5, <1>6, <1>7
<1>10. g = h
  BY <1>8, <1>9
<1> QED
  BY <1>3, <1>10 DEF h

\* The subscription's rules without those the overlay deletes.
Left(old, new) == Without(old, {x \in ItemsOf(old) : IsScalar(x) /\ x.value \in Deletions(new)})

\* One rule of the overlay more.
LEMMA RuleStep ==
  ASSUME NEW e \in 0..Depth, NEW old \in Seq(Configs[e]), NEW p \in Seq(Overlays[e]), NEW item \in Overlays[e],
         NEW acc \in States(Configs[e], AllTextsOf), acc.list = Left(old, p), acc.more = Final(Additions(p)),
         RuleItem(acc, item).ok
  PROVE  /\ RuleItem(acc, item).list = Left(old, Append(p, item))
         /\ RuleItem(acc, item).more = Final(Additions(Append(p, item)))
<1> DEFINE next == RuleItem(acc, item)
           q == Append(p, item)
<1>1. /\ acc.list \in Seq(Configs[e]) /\ acc.deleted \in SUBSET AllTextsOf /\ acc.added \in SUBSET AllTextsOf
      /\ acc.more \in Seq(Configs[e]) /\ acc.ok \in BOOLEAN
      /\ acc = [list |-> acc.list, deleted |-> acc.deleted, added |-> acc.added,
                more |-> acc.more, ok |-> acc.ok]
  BY DEF States
<1>2. Reject(acc).ok = FALSE
  BY <1>1 DEF Reject
<1>3. Additions(q) = IF item.tag = "delete" THEN Additions(p) ELSE Append(Additions(p), item)
  BY AppendAdditions, Zenon
<1>4. Deletions(q) = IF item.tag = "delete" THEN Deletions(p) \cup {item.value} ELSE Deletions(p)
  BY AppendDeletions, Zenon
<1> HIDE DEF q
<1>5. CASE item.tag = "delete"
  <2> DEFINE A == {x \in ItemsOf(old) : IsScalar(x) /\ x.value \in Deletions(p)}
             C == {x \in ItemsOf(old) : IsScalar(x) /\ x.value \in Deletions(q)}
             B == RulesOf(acc.list, item.value)
  <2>1. next = [acc EXCEPT !.list = Without(@, B), !.deleted = @ \cup {item.value}]
    BY <1>2, <1>5 DEF RuleItem
  <2>2. next.list = Without(acc.list, B) /\ next.more = acc.more
    <3> HIDE DEF B
    <3> QED
      BY <1>1, <2>1
  <2>3. acc.list = Without(old, A) /\ Left(old, q) = Without(old, C)
    BY DEF Left
  <2>4. ItemsOf(acc.list) = ItemsOf(old) \ A
    <3> HIDE DEF A
    <3> QED
      BY <2>3, WithoutItems
  <2>5. B = {x \in ItemsOf(acc.list) : IsScalar(x) /\ x.value = item.value}
    BY DEF RulesOf, IsRule
  <2>6. A \cup B = C
    BY <1>4, <1>5, <2>4, <2>5
  <2> HIDE DEF A, B, C
  <2>7. Without(Without(old, A), B) = Without(old, C)
    <3>1. old \in Seq(Configs[e])
      OBVIOUS
    <3>2. C = A \cup B
      BY <2>6
    <3> QED
      BY <3>1, <3>2, WithoutBoth
  <2> QED
    BY <1>3, <1>5, <2>2, <2>3, <2>7 DEF q
<1>6. CASE item.tag # "delete"
  <2> DEFINE names == IF IsScalar(item) THEN {item.value} ELSE {}
  <2>1. next = [acc EXCEPT !.more = Append(@, Stripped(item)), !.added = @ \cup names]
    BY <1>2, <1>6 DEF RuleItem
  <2>2. next.list = acc.list /\ next.more = Append(acc.more, Stripped(item))
    <3> HIDE DEF names
    <3> QED
      BY <1>1, <2>1
  <2>3. Left(old, q) = Left(old, p)
    BY <1>4, <1>6 DEF Left
  <2>4. Additions(p) \in Seq(Overlays[e])
    BY WithoutItems DEF Additions
  <2>5. Final(Append(Additions(p), item)) = Append(Final(Additions(p)), Stripped(item))
    <3> DEFINE a == Additions(p)
    <3>1. a \in Seq(Overlays[e])
      BY <2>4
    <3> HIDE DEF a
    <3>2. Final(Append(a, item)) = Append(Final(a), Stripped(item))
      BY <3>1, AppendFinal, Zenon
    <3> QED
      BY <3>2 DEF a
  <2> QED
    BY <1>3, <1>6, <2>2, <2>3, <2>5 DEF q
<1> QED
  BY <1>5, <1>6

\* The rules of the overlay merged: what is left of the subscription's, with the
\* overlay's before the fallback.
LEMMA MergedRules ==
  ASSUME NEW e \in 0..Depth, NEW b, b.items \in Seq(Configs[e]), NEW o, o.items \in Seq(Overlays[e]),
         MergeRules(b, o) # Failed
  PROVE  \E n \in 0..Len(Left(b.items, o.items)) :
           /\ Fallback(Left(b.items, o.items), n)
           /\ MergeRules(b, o) =
                List(SubSeq(Left(b.items, o.items), 1, n) \o Final(Additions(o.items))
                       \o SubSeq(Left(b.items, o.items), n + 1, Len(Left(b.items, o.items))))
<1> DEFINE old == b.items
           new == o.items
           P(i) == SubSeq(new, 1, i)
           St == States(Configs[e], AllTextsOf)
<1>0. Len(new) \in Nat /\ Len(new) \in 0..Len(new)
  OBVIOUS
<1>1. PICK acc \in [0..Len(new) -> St] :
        /\ acc[0] = Start(old)
        /\ \A i \in 1..Len(new) : acc[i] = IF acc[i - 1].ok THEN RuleItem(acc[i - 1], new[i]) ELSE acc[i - 1]
        /\ MergeRules(b, o) = IF acc[Len(new)].ok
                              THEN List(InsertRules(acc[Len(new)].list, acc[Len(new)].more)) ELSE Failed
  BY RuleFold
<1> DEFINE S == {i \in 0..Len(new) : acc[i].ok => /\ acc[i].list = Left(old, P(i))
                                                  /\ acc[i].more = Final(Additions(P(i)))}
<1>2. 0 \in S
  <2>1. P(0) = <<>> /\ acc[0].list = old /\ acc[0].more = <<>>
    BY <1>1 DEF Start
  <2>2. ItemsOf(<<>>) = {}
    BY DEF ItemsOf
  <2>3. Deletions(<<>>) = {} /\ Additions(<<>>) = <<>>
    BY <2>2, WithoutEmpty DEF Deletions, Additions
  <2>4. Final(<<>>) = <<>>
    BY DEF Final
  <2>5. Left(old, <<>>) = old
    BY <2>3, WithoutNone DEF Left
  <2>6. acc[0].list = Left(old, P(0))
    BY <2>1, <2>5
  <2>7. acc[0].more = Final(Additions(P(0)))
    BY <2>1, <2>3, <2>4
  <2> HIDE DEF P, old, new
  <2> QED
    BY <1>0, <2>6, <2>7
<1>3. ASSUME NEW i \in 1..Len(new), i - 1 \in S
      PROVE  i \in S
  <2> DEFINE p == P(i - 1)
             item == new[i]
             t == acc[i - 1]
  <2>1. P(i) = Append(p, item) /\ i \in 0..Len(new) /\ i - 1 \in 0..Len(new)
    BY Prefix
  <2>2. p \in Seq(Overlays[e])
    BY Prefix
  <2>3. item \in Overlays[e]
    BY Prefix
  <2>4. t \in St
    BY <1>1, <2>1
  <2>5. t.ok => t.list = Left(old, p) /\ t.more = Final(Additions(p))
    BY <1>3
  <2>6. acc[i] = IF t.ok THEN RuleItem(t, item) ELSE t
    BY <1>1
  <2>7. old \in Seq(Configs[e])
    OBVIOUS
  <2> HIDE DEF old, new, P, p, item, t, St
  <2>8. ASSUME t.ok, RuleItem(t, item).ok
        PROVE  /\ RuleItem(t, item).list = Left(old, Append(p, item))
               /\ RuleItem(t, item).more = Final(Additions(Append(p, item)))
    BY <2>2, <2>3, <2>4, <2>5, <2>7, <2>8, RuleStep, Zenon DEF St
  <2> QED
    BY <2>1, <2>6, <2>8
<1>4. 0..Len(new) \subseteq S
  <2> HIDE DEF S
  <2> QED
    BY <1>0, <1>2, <1>3, Climb
<1> DEFINE list == acc[Len(new)].list
           more == acc[Len(new)].more
<1>5. list = Left(old, new) /\ more = Final(Additions(new)) /\ MergeRules(b, o) = List(InsertRules(list, more))
  <2>1. P(Len(new)) = new
    BY Prefix
  <2>2. acc[Len(new)].ok
    BY <1>1
  <2>3. MergeRules(b, o) = List(InsertRules(list, more))
    BY <1>1, <2>2
  <2>4. list = Left(old, P(Len(new))) /\ more = Final(Additions(P(Len(new))))
    <3> HIDE DEF P, old, new
    <3>1. Len(new) \in S
      <4> HIDE DEF S
      <4> QED
        BY <1>0, <1>4
    <3> QED
      BY <2>2, <3>1
  <2> HIDE DEF P, list, more, old, new
  <2> QED
    BY <2>1, <2>3, <2>4
<1>6. list \in Seq(Configs[e]) /\ more \in Seq(Configs[e])
  <2>1. acc[Len(new)] \in St
    BY <1>0, <1>1
  <2> QED
    BY <2>1 DEF States
<1> HIDE DEF list, more
<1>7. PICK n \in 0..Len(list) :
        /\ Fallback(list, n)
        /\ InsertRules(list, more) = SubSeq(list, 1, n) \o more \o SubSeq(list, n + 1, Len(list))
  BY <1>6, InsertRulesIs
<1> QED
  BY <1>5, <1>7

\* rules: the override's stand together right before the fallback of what the
\* subscription is left with.
THEOREM RulesStandBeforeTheFallback == RenderSpec => []RulesPrecedeTheFallback
<1>1. RenderInv => RulesPrecedeTheFallback
  <2> DEFINE new  == Items(overlay, "rules")
             old  == Items(data, "rules")
             left == Left(old, new)
  <2> SUFFICES ASSUME RenderInv, WellMerged, "rules" \in MergedByName
               PROVE  \E n \in 0..Len(left) :
                        /\ Fallback(left, n)
                        /\ Items(rendered, "rules") =
                             SubSeq(left, 1, n) \o Final(Additions(new)) \o SubSeq(left, n + 1, Len(left))
    BY DEF RulesPrecedeTheFallback, Left
  <2> DEFINE o == overlay.at["rules"]
             b == Get(data, "rules")
             bl == IF IsList(b) THEN b ELSE List(<<>>)
  <2>0. Depth \in 1..Depth /\ Depth \in 0..Depth
    BY DepthNat
  <2>1. /\ data \in Configs[Depth] /\ IsMap(data) /\ overlay \in Overlays[Depth] /\ IsMap(overlay)
        /\ rendered = MergeConfig(data, overlay) /\ rendered # Failed
    BY DEF RenderInv, WellMerged, Done, IsMap, Missing, Unparsable, Legacy
  <2>2. "rules" \in Keys /\ Get(overlay, "rules") = o /\ IsList(o) /\ o.tag = "plain"
    BY <2>1 DEF MergedByName, Get, IsList, Missing
  <2>3. o # Missing /\ ~IsDeletion(o)
    BY <2>2 DEF IsDeletion, IsList, Missing
  <2>4. /\ Depth - 1 \in 1..Depth /\ o \in Overlays[Depth - 1] /\ b \in Configs[Depth - 1] \cup {Missing}
        /\ Get(rendered, "rules") = Merge(b, o, "rules", merge[(Depth - 1) - 1])
    BY <2>1, <2>2, <2>3, MergedField
  <2>5. Get(rendered, "rules") = MergeList(bl, o, "rules")
    <3>1. o.tag # "replace"
      BY <2>2
    <3> HIDE DEF b, o
    <3> QED
      BY <2>2, <2>4, <3>1, MergeOfLists
  <2>6. Get(rendered, "rules") = MergeRules(bl, o) /\ Get(rendered, "rules") # Failed
    <3>1. MergeList(bl, o, "rules") = MergeRules(bl, o)
      BY DEF MergeList, IdentityArrays
    <3>2. Get(rendered, "rules") # Failed
      BY <2>1, <2>2, MergedKey
    <3> QED
      BY <2>5, <3>1, <3>2
  <2>7. bl.items = old /\ o.items = new
    BY <2>2 DEF Items, List
  <2>8. bl \in Configs[Depth - 1] /\ IsList(bl)
    <3>1. List(<<>>) \in Configs[Depth - 1]
      BY <2>4, EmptyType
    <3> QED
      BY <2>4, <3>1 DEF IsList, Missing, List
  <2>9. bl.items \in Seq(Configs[Depth - 2]) /\ o.items \in Seq(Overlays[Depth - 2]) /\ Depth - 2 \in 0..Depth
    <3>1. (Depth - 1) - 1 = Depth - 2 /\ Depth - 2 \in 0..Depth
      BY <2>4, DepthNat
    <3> HIDE DEF bl, o
    <3>2. bl.items \in Seq(Configs[(Depth - 1) - 1])
      BY <2>4, <2>8, ConfigShape
    <3>3. o.items \in Seq(Overlays[(Depth - 1) - 1])
      BY <2>2, <2>4, OverlayShape
    <3> QED
      BY <3>1, <3>2, <3>3
  <2> HIDE DEF bl, o, b
  <2>10. PICK n \in 0..Len(Left(bl.items, o.items)) :
           /\ Fallback(Left(bl.items, o.items), n)
           /\ MergeRules(bl, o) =
                List(SubSeq(Left(bl.items, o.items), 1, n) \o Final(Additions(o.items))
                       \o SubSeq(Left(bl.items, o.items), n + 1, Len(Left(bl.items, o.items))))
    <3>1. MergeRules(bl, o) # Failed
      BY <2>6
    <3> QED
      BY <2>9, <3>1, MergedRules
  <2> HIDE DEF old, new
  <2>11. n \in 0..Len(left) /\ Fallback(left, n)
    BY <2>7, <2>10
  <2>12. Get(rendered, "rules") =
           List(SubSeq(left, 1, n) \o Final(Additions(new)) \o SubSeq(left, n + 1, Len(left)))
    BY <2>6, <2>7, <2>10
  <2>13. Items(rendered, "rules") = SubSeq(left, 1, n) \o Final(Additions(new)) \o SubSeq(left, n + 1, Len(left))
    <3> DEFINE r == SubSeq(left, 1, n) \o Final(Additions(new)) \o SubSeq(left, n + 1, Len(left))
    <3> HIDE DEF r
    <3>1. Get(rendered, "rules") = List(r)
      BY <2>12 DEF r
    <3>2. Items(rendered, "rules") = r
      BY <3>1 DEF Items, List, IsList
    <3> QED
      BY <3>2 DEF r
  <2> QED
    BY <2>11, <2>13
<1> QED
  BY <1>1, RenderInvariant, PTL

-------------------------------------------------------------------------------
\* What the overlay's additions amount to, for arrays merged by name: the names, the
\* places of the subscription's items that are dropped, what stands at a place, and the
\* additions whose name is new.
Mine(p) == {Name(x) : x \in ItemsOf(Additions(p))}

Dropped(old, p) ==
  {i \in DOMAIN old :
     /\ HasName(old[i])
     /\ \/ Name(old[i]) \in Deletions(p)
        \/ /\ Name(old[i]) \in Mine(p)
           /\ \E j \in 1..(i - 1) : HasName(old[j]) /\ Name(old[j]) = Name(old[i])}

Follows(old, p, last) ==
  \A i \in DOMAIN old :
     IF HasName(old[i]) /\ Name(old[i]) \in Mine(p)
     THEN \A x \in ItemsOf(Additions(p)) : Name(x) = Name(old[i]) => last[i] = Stripped(x)
     ELSE last[i] = old[i]

Fresh(old, p) ==
  Without(Additions(p), {x \in ItemsOf(Additions(p)) : ItemsNamed(old, Name(x)) # {}})

\* The additions so far have names, and are accepted.
Accepted(p) == \A x \in ItemsOf(Additions(p)) : HasName(x) /\ Stripped(x) # Failed

SameNames(old, last) == \A i \in DOMAIN old : \A v : Named(last[i], v) <=> Named(old[i], v)

\* The list merged so far.
NamesMerged(old, p, last) ==
  Listed(Len(old), last, Dropped(old, p), Final(Fresh(old, p)))

\* Final, item by item.
LEMMA FinalIs ==
  ASSUME NEW e \in 0..Depth, NEW s \in Seq(Overlays[e]), \A x \in ItemsOf(s) : Stripped(x) # Failed
  PROVE  /\ Final(s) \in Seq(Configs[e]) /\ Len(Final(s)) = Len(s)
         /\ \A i \in 1..Len(s) : Final(s)[i] = Stripped(s[i])
<1>1. DOMAIN s = 1..Len(s) /\ Len(s) \in Nat /\ \A i \in 1..Len(s) : s[i] \in Overlays[e] /\ s[i] \in ItemsOf(s)
  BY DEF ItemsOf
<1>2. Final(s) = [i \in 1..Len(s) |-> Stripped(s[i])]
  BY <1>1 DEF Final
<1>3. ASSUME NEW i \in 1..Len(s)
      PROVE  Stripped(s[i]) \in Configs[e]
  <2>1. Stripped(s[i]) \in Configs[e] \cup {Failed}
    BY <1>1, StrippedType
  <2> QED
    BY <1>1, <2>1
<1> QED
  BY <1>1, <1>2, <1>3

\* The new items have the names they were added with.
LEMMA FreshIs ==
  ASSUME NEW e \in 0..Depth, NEW p \in Seq(Overlays[e]), Accepted(p), NEW old, NEW name, name \notin Mine(p)
  PROVE  /\ Fresh(old, p) \in Seq(Overlays[e]) /\ Final(Fresh(old, p)) \in Seq(Configs[e])
         /\ NoneNamed(Final(Fresh(old, p)), name)
<1> DEFINE a == Additions(p)
           f == Fresh(old, p)
           g == Final(f)
<1>1. a \in Seq(Overlays[e])
  BY WithoutItems DEF Additions
<1> HIDE DEF a
<1>2. f \in Seq(Overlays[e]) /\ ItemsOf(f) \subseteq ItemsOf(a)
  <2> DEFINE G == {x \in ItemsOf(a) : ItemsNamed(old, Name(x)) # {}}
  <2>1. f = Without(a, G)
    BY DEF Fresh, a
  <2> HIDE DEF f, G
  <2>2. Without(a, G) \in Seq(Overlays[e]) /\ ItemsOf(Without(a, G)) = ItemsOf(a) \ G
    BY <1>1, WithoutItems
  <2> QED
    BY <2>1, <2>2
<1> HIDE DEF f
<1>3. \A x \in ItemsOf(f) : HasName(x) /\ Stripped(x) # Failed /\ Name(x) \in Mine(p)
  BY <1>2 DEF Accepted, Mine, a
<1>4. g \in Seq(Configs[e]) /\ Len(g) = Len(f) /\ \A i \in 1..Len(f) : g[i] = Stripped(f[i])
  <2>1. f \in Seq(Overlays[e]) /\ \A x \in ItemsOf(f) : Stripped(x) # Failed
    BY <1>2, <1>3
  <2> QED
    BY <2>1, FinalIs
<1> HIDE DEF g
<1>5. ASSUME NEW i \in 1..Len(g)
      PROVE  ~Named(g[i], name)
  <2>1. f[i] \in ItemsOf(f) /\ f[i] \in Overlays[e] /\ g[i] = Stripped(f[i])
    BY <1>2, <1>4 DEF ItemsOf
  <2> DEFINE x == f[i]
  <2>2. x \in Overlays[e]
    BY <2>1
  <2>3. HasName(x) /\ Stripped(x) # Failed /\ Name(x) \in Mine(p)
    BY <1>3, <2>1
  <2>4. g[i] = Stripped(x)
    BY <2>1
  <2> HIDE DEF x
  <2>5. HasName(Stripped(x)) /\ Name(Stripped(x)) = Name(x)
    BY <2>2, <2>3, StrippedName
  <2> QED
    BY <2>3, <2>4, <2>5 DEF Named
<1> QED
  BY <1>2, <1>4, <1>5 DEF NoneNamed, f, g

\* The additions' names, with one item more.
LEMMA AppendMine ==
  ASSUME NEW X, NEW p \in Seq(X), NEW x \in X
  PROVE  Mine(Append(p, x)) = IF x.tag = "delete" THEN Mine(p) ELSE Mine(p) \cup {Name(x)}
<1> DEFINE a == Additions(p)
<1>1. a \in Seq(X)
  BY WithoutItems DEF Additions
<1>2. Additions(Append(p, x)) = IF x.tag = "delete" THEN a ELSE Append(a, x)
  BY AppendAdditions, Zenon
<1> HIDE DEF a
<1>3. ItemsOf(Append(a, x)) = ItemsOf(a) \cup {x}
  BY <1>1, AppendItems
<1> QED
  BY <1>2, <1>3 DEF Mine, a

\* A name is in the merged list exactly when the subscription has it, unless the
\* override has spoken of it.
LEMMA NamedLeft ==
  ASSUME NEW e \in 0..Depth, NEW old \in Seq(Configs[e]), NEW p \in Seq(Overlays[e]), Accepted(p),
         NEW last, Finds(1..Len(old), Configs[e], last), SameNames(old, last),
         NEW name, name \notin Mine(p), name \notin Deletions(p)
  PROVE  ItemsNamed(NamesMerged(old, p, last), name) = {} <=> ItemsNamed(old, name) = {}
<1> DEFINE X == 1..Len(old)
           w == Without(Numbers(Len(old)), Dropped(old, p))
           a == Mapped(last, w)
           b == Final(Fresh(old, p))
<1>0. Len(old) \in Nat /\ DOMAIN old = X
  OBVIOUS
<1>1. w \in Seq(X) /\ ItemsOf(w) = X \ Dropped(old, p)
  BY <1>0, NumbersLeft
<1>2. b \in Seq(Configs[e]) /\ NoneNamed(b, name)
  BY FreshIs
<1> HIDE DEF w, X
<1>3. a \in Seq(Configs[e]) /\ ItemsOf(a) = {last[x] : x \in ItemsOf(w)}
  <2>1. a \in Seq(Configs[e])
    BY <1>1, MappedIs DEF X
  <2>2. ItemsOf(a) = {last[x] : x \in ItemsOf(w)}
    BY <1>1, MappedItems DEF X
  <2> QED
    BY <2>1, <2>2
<1> HIDE DEF a, b
<1>4. ItemsOf(a \o b) = ItemsOf(a) \cup ItemsOf(b)
  BY <1>2, <1>3, ConcatItems
<1>5. \A x \in ItemsOf(b) : ~Named(x, name)
  BY <1>2 DEF NoneNamed, ItemsOf
<1>6. ItemsOf(old) = {old[i] : i \in X}
  BY <1>0 DEF ItemsOf
<1>7. ASSUME NEW i \in X, Named(old[i], name)
      PROVE  i \in ItemsOf(w) /\ Named(last[i], name)
  <2>1. i \notin Dropped(old, p)
    BY <1>7 DEF Dropped, Named
  <2>2. Named(last[i], name)
    BY <1>0, <1>7 DEF SameNames
  <2> QED
    BY <1>1, <2>1, <2>2
<1>8. ASSUME NEW x \in ItemsOf(a), Named(x, name)
      PROVE  \E i \in X : Named(old[i], name)
  <2>1. PICK i \in ItemsOf(w) : x = last[i]
    BY <1>3
  <2>2. i \in X
    BY <1>1
  <2>3. Named(old[i], name)
    BY <1>0, <1>8, <2>1, <2>2 DEF SameNames
  <2> QED
    BY <2>2, <2>3
<1>9. ItemsNamed(a \o b, name) = {} <=> \A i \in X : ~Named(old[i], name)
  BY <1>3, <1>4, <1>5, <1>7, <1>8 DEF ItemsNamed
<1>10. ItemsNamed(old, name) = {} <=> \A i \in X : ~Named(old[i], name)
  BY <1>6 DEF ItemsNamed
<1> QED
  BY <1>9, <1>10 DEF NamesMerged, Listed, a, b, w

\* The override deletes a name.
LEMMA DeleteName ==
  ASSUME NEW e \in 0..Depth, NEW old \in Seq(Configs[e]), NEW p \in Seq(Overlays[e]), Accepted(p),
         NEW item \in Overlays[e], item.tag = "delete", item.value \notin Mine(p),
         NEW last, Finds(1..Len(old), Configs[e], last), SameNames(old, last), Follows(old, p, last)
  PROVE  /\ Follows(old, Append(p, item), last) /\ Accepted(Append(p, item))
         /\ Without(NamesMerged(old, p, last), ItemsNamed(NamesMerged(old, p, last), item.value))
              = NamesMerged(old, Append(p, item), last)
<1> DEFINE q == Append(p, item)
           X == 1..Len(old)
           name == item.value
           gone == Dropped(old, p)
           mine == {i \in X : Named(last[i], name)}
           b == Final(Fresh(old, p))
           list == NamesMerged(old, p, last)
<1>1. Additions(q) = Additions(p) /\ Deletions(q) = Deletions(p) \cup {name}
  <2>1. Additions(q) = IF item.tag = "delete" THEN Additions(p) ELSE Append(Additions(p), item)
    BY AppendAdditions, Zenon
  <2>2. Deletions(q) = IF item.tag = "delete" THEN Deletions(p) \cup {item.value} ELSE Deletions(p)
    BY AppendDeletions, Zenon
  <2> HIDE DEF q
  <2> QED
    BY <2>1, <2>2
<1> HIDE DEF q
<1>2. Mine(q) = Mine(p) /\ Fresh(old, q) = Fresh(old, p)
  BY <1>1 DEF Mine, Fresh
<1>3. DOMAIN old = X /\ Len(old) \in Nat
  OBVIOUS
<1>4. Dropped(old, q) = gone \cup mine
  <2>1. \A i \in X : i \in mine <=> HasName(old[i]) /\ Name(old[i]) = name
    BY <1>3 DEF SameNames, Named
  <2> HIDE DEF name, mine
  <2>2. \A i \in X : i \in Dropped(old, q) <=> i \in gone \/ i \in mine
    BY <1>1, <1>2, <1>3, <2>1 DEF Dropped
  <2>3. Dropped(old, q) \subseteq X /\ gone \subseteq X
    BY <1>3 DEF Dropped
  <2>4. mine \subseteq X
    BY DEF mine
  <2> QED
    BY <2>2, <2>3, <2>4
<1>5. b \in Seq(Configs[e]) /\ NoneNamed(b, name)
  BY FreshIs
<1>6. list = Listed(Len(old), last, gone, b)
  BY DEF NamesMerged
<1> HIDE DEF b, name, list, gone
<1>7. Without(list, ItemsNamed(list, name)) = Listed(Len(old), last, gone \cup mine, b)
  <2> DEFINE m == Len(old)
  <2>1. m \in Nat
    BY <1>3
  <2>2. Finds(1..m, Configs[e], last)
    OBVIOUS
  <2>3. b \in Seq(Configs[e])
    BY <1>5
  <2>4. NoneNamed(b, name)
    BY <1>5
  <2>5. mine = PlacesNamed(m, last, name)
    BY DEF PlacesNamed
  <2> HIDE DEF m, mine
  <2>6. Without(Listed(m, last, gone, b), ItemsNamed(Listed(m, last, gone, b), name))
          = Listed(m, last, gone \cup PlacesNamed(m, last, name), b)
    BY <2>1, <2>2, <2>3, <2>4, DeleteStep
  <2> QED
    BY <1>6, <2>5, <2>6 DEF m
<1>8. NamesMerged(old, q, last) = Listed(Len(old), last, gone \cup mine, b)
  <2> HIDE DEF mine
  <2> QED
    BY <1>2, <1>4 DEF NamesMerged, b
<1>9. Follows(old, q, last) /\ Accepted(q)
  BY <1>1, <1>2 DEF Follows, Accepted
<1> QED
  BY <1>7, <1>8, <1>9 DEF q, list, name

\* The override adds a name that the subscription does not have.
LEMMA NewName ==
  ASSUME NEW e \in 0..Depth, NEW old \in Seq(Configs[e]), NEW p \in Seq(Overlays[e]), Accepted(p),
         NEW item \in Overlays[e], item.tag # "delete", HasName(item), Stripped(item) # Failed,
         Name(item) \notin Mine(p), Name(item) \notin Deletions(p), ItemsNamed(old, Name(item)) = {},
         NEW last, Finds(1..Len(old), Configs[e], last), SameNames(old, last), Follows(old, p, last)
  PROVE  /\ Follows(old, Append(p, item), last) /\ Accepted(Append(p, item))
         /\ ReplaceNamed(NamesMerged(old, p, last), Name(item), Stripped(item))
              = NamesMerged(old, Append(p, item), last)
<1> DEFINE q == Append(p, item)
           X == 1..Len(old)
           name == Name(item)
           new == Stripped(item)
           a == Additions(p)
           A == Mapped(last, Without(Numbers(Len(old)), Dropped(old, p)))
           f == Fresh(old, p)
           b == Final(f)
           list == NamesMerged(old, p, last)
           known == {x \in ItemsOf(a) : ItemsNamed(old, Name(x)) # {}}
<1>1. Additions(q) = Append(a, item) /\ Deletions(q) = Deletions(p)
  <2>1. Additions(q) = IF item.tag = "delete" THEN Additions(p) ELSE Append(Additions(p), item)
    BY AppendAdditions, Zenon
  <2>2. Deletions(q) = IF item.tag = "delete" THEN Deletions(p) \cup {item.value} ELSE Deletions(p)
    BY AppendDeletions, Zenon
  <2> HIDE DEF q
  <2> QED
    BY <2>1, <2>2
<1>2. Mine(q) = Mine(p) \cup {name}
  <2>1. Mine(q) = IF item.tag = "delete" THEN Mine(p) ELSE Mine(p) \cup {Name(item)}
    BY AppendMine, Zenon
  <2> HIDE DEF q
  <2> QED
    BY <2>1
<1>3. a \in Seq(Overlays[e])
  BY WithoutItems DEF Additions
<1> HIDE DEF q, a
<1>4. ItemsOf(Additions(q)) = ItemsOf(a) \cup {item}
  BY <1>1, <1>3, AppendItems
<1>5. DOMAIN old = X /\ Len(old) \in Nat
  OBVIOUS
<1>6. ASSUME NEW i \in DOMAIN old, HasName(old[i])
      PROVE  Name(old[i]) # name
  <2>1. old[i] \in ItemsOf(old)
    BY DEF ItemsOf
  <2> QED
    BY <1>6, <2>1 DEF ItemsNamed, Named
<1>7. Dropped(old, q) = Dropped(old, p)
  <2> HIDE DEF name, X
  <2> QED
    BY <1>1, <1>2, <1>6 DEF Dropped
<1>8. Fresh(old, q) = Append(f, item)
  <2> DEFINE G == {x \in ItemsOf(Additions(q)) : ItemsNamed(old, Name(x)) # {}}
  <2>1. Fresh(old, q) = Without(Append(a, item), G)
    BY <1>1 DEF Fresh
  <2>2. item \notin G
    OBVIOUS
  <2>3. \A i \in 1..Len(a) : a[i] \in G <=> a[i] \in known
    <3>1. \A i \in 1..Len(a) : a[i] \in ItemsOf(a)
      BY <1>3 DEF ItemsOf
    <3> QED
      BY <1>4, <3>1
  <2> HIDE DEF G, known
  <2>4. Without(Append(a, item), G) = Append(Without(a, G), item)
    BY <1>3, <2>2, WithoutLeft
  <2>5. Without(a, G) = Without(a, known)
    BY <1>3, <2>3, WithoutSame
  <2>6. f = Without(a, known)
    BY DEF Fresh, a, known
  <2> QED
    BY <2>1, <2>4, <2>5, <2>6
<1>9. f \in Seq(Overlays[e]) /\ b \in Seq(Configs[e])
  BY FreshIs
<1>10. new \in Configs[e]
  <2>1. new \in Configs[e] \cup {Failed}
    BY StrippedType
  <2> QED
    BY <2>1
<1>11. A \in Seq(Configs[e])
  <2> DEFINE w == Without(Numbers(Len(old)), Dropped(old, p))
  <2>1. w \in Seq(X)
    BY <1>5, NumbersLeft
  <2> HIDE DEF w
  <2>2. Mapped(last, w) \in Seq(Configs[e])
    BY <2>1, MappedIs
  <2> QED
    BY <2>2 DEF w
<1>12. Final(Append(f, item)) = Append(b, new)
  <2>1. f \in Seq(Overlays[e])
    BY <1>9
  <2> HIDE DEF f
  <2> QED
    BY <2>1, AppendFinal
<1>13. ReplaceNamed(list, name, new) = Append(list, new)
  <2>1. ItemsNamed(list, name) = {}
    BY NamedLeft
  <2> HIDE DEF list, name, new
  <2> QED
    BY <2>1 DEF ReplaceNamed
<1>14. list = A \o b /\ NamesMerged(old, q, last) = A \o Final(Append(f, item))
  BY <1>7, <1>8 DEF NamesMerged, Listed
<1>15. A \o Append(b, new) = Append(A \o b, new)
  <2>1. b \in Seq(Configs[e])
    BY <1>9
  <2> HIDE DEF A, b, new
  <2> QED
    BY <1>10, <1>11, <2>1, ConcatAppend
<1>16. Follows(old, q, last)
  <2> HIDE DEF name
  <2>1. ASSUME NEW i \in DOMAIN old
        PROVE  HasName(old[i]) /\ Name(old[i]) \in Mine(q) <=> HasName(old[i]) /\ Name(old[i]) \in Mine(p)
    BY <1>2, <1>6
  <2>2. ASSUME NEW i \in DOMAIN old, HasName(old[i]), NEW x \in ItemsOf(Additions(q)), Name(x) = Name(old[i])
        PROVE  x \in ItemsOf(a)
    BY <1>4, <1>6, <2>2 DEF name
  <2> QED
    BY <2>1, <2>2 DEF Follows, a
<1>17. Accepted(q)
  BY <1>4 DEF Accepted, a
<1> HIDE DEF A, b, list, name, new, f
<1>18. ReplaceNamed(list, name, new) = NamesMerged(old, q, last)
  BY <1>12, <1>13, <1>14, <1>15
<1> QED
  BY <1>16, <1>17, <1>18 DEF q, list, name, new

\* The override adds a name that the subscription has.
LEMMA OldName ==
  ASSUME NEW e \in 0..Depth, NEW old \in Seq(Configs[e]), NEW p \in Seq(Overlays[e]), Accepted(p),
         NEW item \in Overlays[e], item.tag # "delete", HasName(item), Stripped(item) # Failed,
         Name(item) \notin Mine(p), Name(item) \notin Deletions(p), ItemsNamed(old, Name(item)) # {},
         NEW last, Finds(1..Len(old), Configs[e], last), SameNames(old, last), Follows(old, p, last)
  PROVE  \E next : /\ Finds(1..Len(old), Configs[e], next) /\ SameNames(old, next)
                   /\ Follows(old, Append(p, item), next) /\ Accepted(Append(p, item))
                   /\ ReplaceNamed(NamesMerged(old, p, last), Name(item), Stripped(item))
                        = NamesMerged(old, Append(p, item), next)
<1> DEFINE q == Append(p, item)
           m == Len(old)
           X == 1..m
           name == Name(item)
           new == Stripped(item)
           a == Additions(p)
           f == Fresh(old, p)
           b == Final(f)
           list == NamesMerged(old, p, last)
           gone == Dropped(old, p)
           known == {x \in ItemsOf(a) : ItemsNamed(old, Name(x)) # {}}
           next == PutAt(m, last, name, new)
<1>1. Additions(q) = Append(a, item) /\ Deletions(q) = Deletions(p)
  <2>1. Additions(q) = IF item.tag = "delete" THEN Additions(p) ELSE Append(Additions(p), item)
    BY AppendAdditions, Zenon
  <2>2. Deletions(q) = IF item.tag = "delete" THEN Deletions(p) \cup {item.value} ELSE Deletions(p)
    BY AppendDeletions, Zenon
  <2> HIDE DEF q
  <2> QED
    BY <2>1, <2>2
<1>2. Mine(q) = Mine(p) \cup {name}
  <2>1. Mine(q) = IF item.tag = "delete" THEN Mine(p) ELSE Mine(p) \cup {Name(item)}
    BY AppendMine, Zenon
  <2> HIDE DEF q
  <2> QED
    BY <2>1
<1>3. a \in Seq(Overlays[e])
  BY WithoutItems DEF Additions
<1> HIDE DEF q, a
<1>4. ItemsOf(Additions(q)) = ItemsOf(a) \cup {item}
  BY <1>1, <1>3, AppendItems
<1>5. DOMAIN old = X /\ m \in Nat
  OBVIOUS
<1> HIDE DEF m
<1>6. PICK k \in X : FirstNamed(k, last, name)
  <2> DEFINE P == {i \in X : Named(old[i], name)}
  <2>1. P # {}
    BY <1>5 DEF ItemsNamed, ItemsOf
  <2>2. P \in SUBSET (1..m)
    OBVIOUS
  <2> HIDE DEF P
  <2>3. PICK i \in P : \A j \in 1..(i - 1) : j \notin P
    BY <1>5, <2>1, <2>2, FirstOf
  <2>4. i \in X /\ Named(old[i], name)
    BY <2>3 DEF P
  <2>5. ASSUME NEW j \in 1..(i - 1)
        PROVE  ~Named(last[j], name)
    <3>1. j \in X
      BY <1>5, <2>4
    <3>2. ~Named(old[j], name)
      BY <2>3, <3>1 DEF P
    <3> QED
      BY <1>5, <3>1, <3>2 DEF SameNames
  <2>6. Named(last[i], name)
    BY <1>5, <2>4 DEF SameNames
  <2> QED
    BY <2>4, <2>5, <2>6 DEF FirstNamed
<1>7. \A i \in X : Named(last[i], name) <=> HasName(old[i]) /\ Name(old[i]) = name
  BY <1>5 DEF SameNames, Named
<1>8. k \notin gone
  BY <1>5, <1>6, <1>7 DEF Dropped, FirstNamed
<1>9. Dropped(old, q) = gone \cup (PlacesNamed(m, last, name) \ {k})
  <2> DEFINE mine == PlacesNamed(m, last, name)
  <2>1. \A i \in X : i \in mine <=> HasName(old[i]) /\ Name(old[i]) = name
    BY <1>7 DEF PlacesNamed
  <2>2. \A i \in X : i \in mine /\ i # k <=>
          /\ HasName(old[i]) /\ Name(old[i]) = name
          /\ \E j \in 1..(i - 1) : HasName(old[j]) /\ Name(old[j]) = Name(old[i])
    <3>1. ASSUME NEW i \in X, HasName(old[i]), Name(old[i]) = name
          PROVE  i # k <=> \E j \in 1..(i - 1) : HasName(old[j]) /\ Name(old[j]) = Name(old[i])
      <4>1. ASSUME i # k
            PROVE  k \in 1..(i - 1) /\ HasName(old[k]) /\ Name(old[k]) = Name(old[i])
        <5>1. ~(i < k)
          <6>1. i < k => i \in 1..(k - 1)
            BY <1>5, <1>6
          <6> QED
            BY <1>6, <1>7, <3>1, <6>1 DEF FirstNamed
        <5>2. HasName(old[k]) /\ Name(old[k]) = name
          BY <1>6, <1>7 DEF FirstNamed
        <5> QED
          BY <1>5, <1>6, <3>1, <4>1, <5>1, <5>2
      <4>2. ASSUME NEW j \in 1..(i - 1), HasName(old[j]), Name(old[j]) = Name(old[i])
            PROVE  i # k
        <5>1. j \in X
          BY <1>5
        <5>2. Named(last[j], name)
          BY <1>7, <3>1, <4>2, <5>1
        <5> QED
          BY <1>6, <4>2, <5>2 DEF FirstNamed
      <4> QED
        BY <4>1, <4>2
    <3> HIDE DEF mine, name
    <3> QED
      BY <2>1, <3>1
  <2> HIDE DEF name, mine
  <2>3. \A i \in X : i \in Dropped(old, q) <=> i \in gone \/ (i \in mine /\ i # k)
    BY <1>1, <1>2, <1>5, <2>2 DEF Dropped
  <2>4. Dropped(old, q) \subseteq X /\ gone \subseteq X
    BY <1>5 DEF Dropped
  <2>5. mine \subseteq X
    BY DEF mine, PlacesNamed
  <2> QED
    BY <2>3, <2>4, <2>5 DEF mine
<1>10. Fresh(old, q) = f
  <2> DEFINE G == {x \in ItemsOf(Additions(q)) : ItemsNamed(old, Name(x)) # {}}
  <2>1. Fresh(old, q) = Without(Append(a, item), G)
    BY <1>1 DEF Fresh
  <2>2. item \in G
    BY <1>4
  <2>3. \A i \in 1..Len(a) : a[i] \in G <=> a[i] \in known
    <3>1. \A i \in 1..Len(a) : a[i] \in ItemsOf(a)
      BY <1>3 DEF ItemsOf
    <3> QED
      BY <1>4, <3>1
  <2> HIDE DEF G, known
  <2>4. Without(Append(a, item), G) = Without(a, G)
    BY <1>3, <2>2, WithoutGone
  <2>5. Without(a, G) = Without(a, known)
    BY <1>3, <2>3, WithoutSame
  <2>6. f = Without(a, known)
    BY DEF Fresh, a, known
  <2> QED
    BY <2>1, <2>4, <2>5, <2>6
<1>11. b \in Seq(Configs[e]) /\ NoneNamed(b, name)
  BY FreshIs
<1>12. new \in Configs[e]
  <2>1. new \in Configs[e] \cup {Failed}
    BY StrippedType
  <2> QED
    BY <2>1
<1>13. HasName(new) /\ Name(new) = name
  BY StrippedName
<1> HIDE DEF b, f, gone, name, new
<1>14. ReplaceNamed(list, name, new) = NamesMerged(old, q, next)
  <2> DEFINE Y == Configs[e]
  <2>1. b \in Seq(Y)
    BY <1>11
  <2>2. Finds(1..m, Y, last)
    BY DEF m
  <2>3. NoneNamed(b, name)
    BY <1>11
  <2>4. FirstNamed(k, last, name)
    BY <1>6
  <2>5. m \in Nat /\ k \in 1..m
    BY <1>5, <1>6
  <2>6. new \in Y
    BY <1>12
  <2> HIDE DEF Y, X
  <2>7. ReplaceNamed(Listed(m, last, gone, b), name, new)
          = Listed(m, PutAt(m, last, name, new), gone \cup (PlacesNamed(m, last, name) \ {k}), b)
    BY <1>8, <2>1, <2>2, <2>3, <2>4, <2>5, <2>6, ReplaceStep
  <2> QED
    BY <1>9, <1>10, <2>7 DEF NamesMerged, b, f, gone, m
<1>15. \A i \in X : next[i] = IF Named(last[i], name) THEN new ELSE last[i]
  BY DEF PutAt
<1> HIDE DEF next
<1>16. Finds(X, Configs[e], next)
  BY <1>12, <1>15 DEF Finds, m
<1>17. SameNames(old, next)
  BY <1>5, <1>7, <1>13, <1>15 DEF SameNames, Named
<1>18. Follows(old, q, next)
  <2>1. ASSUME NEW i \in X, HasName(old[i]), Name(old[i]) \in Mine(q),
               NEW x \in ItemsOf(Additions(q)), Name(x) = Name(old[i])
        PROVE  next[i] = Stripped(x)
    <3>1. CASE Name(old[i]) = name
      <4>1. next[i] = new
        BY <1>7, <1>15, <2>1, <3>1
      <4>2. x = item
        <5>1. x \notin ItemsOf(a)
          BY <2>1, <3>1 DEF Mine, a, name
        <5> QED
          BY <1>4, <5>1
      <4> QED
        BY <4>1, <4>2 DEF new
    <3>2. CASE Name(old[i]) # name
      <4>1. x \in ItemsOf(a)
        BY <1>4, <2>1, <3>2 DEF name
      <4>2. Name(old[i]) \in Mine(p)
        BY <1>2, <2>1, <3>2
      <4>3. next[i] = last[i]
        BY <1>7, <1>15, <3>2
      <4> QED
        BY <1>5, <2>1, <4>1, <4>2, <4>3 DEF Follows, a
    <3> QED
      BY <3>1, <3>2
  <2>2. ASSUME NEW i \in X, ~(HasName(old[i]) /\ Name(old[i]) \in Mine(q))
        PROVE  next[i] = old[i]
    <3>1. ~(HasName(old[i]) /\ Name(old[i]) \in Mine(p)) /\ ~(HasName(old[i]) /\ Name(old[i]) = name)
      BY <1>2, <2>2
    <3>2. next[i] = last[i]
      BY <1>7, <1>15, <3>1
    <3> QED
      BY <1>5, <3>1, <3>2 DEF Follows
  <2> QED
    BY <1>5, <2>1, <2>2 DEF Follows
<1>19. Accepted(q)
  BY <1>4 DEF Accepted, a
<1> QED
  BY <1>14, <1>16, <1>17, <1>18, <1>19 DEF q, name, new, m, list

\* What merging the items of the overlay so far amounts to.
MergedSoFar(e, old, p, acc) ==
  /\ acc.added = Mine(p) /\ acc.deleted = Deletions(p) /\ Accepted(p)
  /\ \E last : /\ Finds(1..Len(old), Configs[e], last) /\ SameNames(old, last)
               /\ Follows(old, p, last) /\ acc.list = NamesMerged(old, p, last)

\* One item of the overlay more.
LEMMA ArrayStep ==
  ASSUME NEW e \in 0..Depth, NEW old \in Seq(Configs[e]), NEW p \in Seq(Overlays[e]), NEW item \in Overlays[e],
         NEW acc \in States(Configs[e], AllTextsOf), MergedSoFar(e, old, p, acc), IdentityItem(acc, item).ok
  PROVE  MergedSoFar(e, old, Append(p, item), IdentityItem(acc, item))
<1> DEFINE next == IdentityItem(acc, item)
           q == Append(p, item)
<1>1. /\ acc.ok \in BOOLEAN
      /\ acc = [list |-> acc.list, deleted |-> acc.deleted, added |-> acc.added,
                more |-> acc.more, ok |-> acc.ok]
  BY DEF States
<1>2. Reject(acc).ok = FALSE
  BY <1>1 DEF Reject
<1>3. Deletions(q) = IF item.tag = "delete" THEN Deletions(p) \cup {item.value} ELSE Deletions(p)
  BY AppendDeletions, Zenon
<1>4. Mine(q) = IF item.tag = "delete" THEN Mine(p) ELSE Mine(p) \cup {Name(item)}
  <2>1. item \in Overlays[e]
    OBVIOUS
  <2> HIDE DEF next
  <2> QED
    BY <2>1, AppendMine
<1>5. acc.added = Mine(p) /\ acc.deleted = Deletions(p) /\ Accepted(p)
  BY DEF MergedSoFar
<1>6. PICK last : /\ Finds(1..Len(old), Configs[e], last) /\ SameNames(old, last)
                  /\ Follows(old, p, last) /\ acc.list = NamesMerged(old, p, last)
  BY DEF MergedSoFar
<1> DEFINE list == NamesMerged(old, p, last)
<1>7. CASE item.tag = "delete"
  <2> DEFINE G == ItemsNamed(acc.list, item.value)
  <2>1. next = [acc EXCEPT !.list = Without(@, G), !.deleted = @ \cup {item.value}]
        /\ item.value \notin acc.added
    BY <1>2, <1>7 DEF IdentityItem
  <2>2. next.list = Without(acc.list, G) /\ next.deleted = acc.deleted \cup {item.value} /\ next.added = acc.added
    <3> HIDE DEF G, next
    <3> QED
      BY <1>1, <2>1
  <2>3. /\ Follows(old, q, last) /\ Accepted(q)
        /\ Without(list, ItemsNamed(list, item.value)) = NamesMerged(old, q, last)
    <3>1. item.value \notin Mine(p)
      BY <1>5, <2>1
    <3> QED
      BY <1>5, <1>6, <1>7, <3>1, DeleteName
  <2> HIDE DEF next, q
  <2> QED
    BY <1>3, <1>4, <1>5, <1>6, <1>7, <2>2, <2>3 DEF MergedSoFar, next, q
<1>8. CASE item.tag # "delete"
  <2> DEFINE name == Name(item)
             new == Stripped(item)
  <2>1. /\ next = [acc EXCEPT !.list = ReplaceNamed(@, name, new), !.added = @ \cup {name}]
        /\ HasName(item) /\ name \notin acc.deleted \cup acc.added /\ new # Failed
    BY <1>2, <1>8 DEF IdentityItem
  <2>2. next.list = ReplaceNamed(acc.list, name, new) /\ next.deleted = acc.deleted /\ next.added = acc.added \cup {name}
    <3> HIDE DEF name, new, next
    <3> QED
      BY <1>1, <2>1
  <2>3. name \notin Mine(p) /\ name \notin Deletions(p)
    BY <1>5, <2>1
  <2>4. \E n : /\ Finds(1..Len(old), Configs[e], n) /\ SameNames(old, n)
               /\ Follows(old, q, n) /\ Accepted(q)
               /\ ReplaceNamed(list, name, new) = NamesMerged(old, q, n)
    <3>1. CASE ItemsNamed(old, name) = {}
      <4>1. /\ Follows(old, q, last) /\ Accepted(q)
            /\ ReplaceNamed(list, name, new) = NamesMerged(old, q, last)
        BY <1>5, <1>6, <1>8, <2>1, <2>3, <3>1, NewName
      <4> HIDE DEF name, new, list, q
      <4> QED
        BY <1>6, <4>1
    <3>2. CASE ItemsNamed(old, name) # {}
      BY <1>5, <1>6, <1>8, <2>1, <2>3, <3>2, OldName
    <3> QED
      BY <3>1, <3>2
  <2> HIDE DEF next, q, name, new
  <2> QED
    BY <1>3, <1>4, <1>5, <1>6, <1>8, <2>2, <2>4 DEF MergedSoFar, next, q, name
<1> QED
  BY <1>7, <1>8

\* Before the first item of the overlay nothing is merged.
LEMMA NothingMerged ==
  ASSUME NEW e \in 0..Depth, NEW old \in Seq(Configs[e])
  PROVE  MergedSoFar(e, old, <<>>, Start(old))
<1> DEFINE m == Len(old)
           last == [i \in 1..m |-> old[i]]
<1>1. Start(old).list = old /\ Start(old).deleted = {} /\ Start(old).added = {}
  BY DEF Start
<1>2. ItemsOf(<<>>) = {}
  BY DEF ItemsOf
<1>3. Deletions(<<>>) = {} /\ Additions(<<>>) = <<>>
  BY <1>2, WithoutEmpty DEF Deletions, Additions
<1>4. Mine(<<>>) = {} /\ Accepted(<<>>)
  BY <1>2, <1>3 DEF Mine, Accepted
<1>5. Fresh(old, <<>>) = <<>>
  BY <1>3, WithoutEmpty DEF Fresh
<1>6. Final(<<>>) = <<>>
  BY DEF Final
<1>7. Dropped(old, <<>>) = {}
  BY <1>3, <1>4 DEF Dropped
<1>8. DOMAIN old = 1..m /\ m \in Nat /\ \A i \in 1..m : old[i] \in Configs[e]
  OBVIOUS
<1>9. \A i \in 1..m : last[i] = old[i]
  OBVIOUS
<1> HIDE DEF last
<1>10. Finds(1..m, Configs[e], last) /\ SameNames(old, last) /\ Follows(old, <<>>, last)
  BY <1>4, <1>8, <1>9 DEF Finds, SameNames, Follows
<1>11. NamesMerged(old, <<>>, last) = old
  <2> DEFINE N == Numbers(m)
             mapped == Mapped(last, N)
  <2>1. N \in Seq(1..m) /\ Len(N) = m /\ \A i \in 1..m : N[i] = i
    BY <1>8 DEF Numbers
  <2> HIDE DEF N
  <2>2. Without(N, {}) = N
    BY <2>1, WithoutNone
  <2>3. mapped \in Seq(Configs[e]) /\ Len(mapped) = Len(N) /\ \A i \in 1..Len(N) : mapped[i] = last[N[i]]
    BY <1>10, <2>1, MappedIs
  <2>4. NamesMerged(old, <<>>, last) = mapped \o <<>>
    BY <1>5, <1>6, <1>7, <2>2 DEF NamesMerged, Listed, N
  <2> HIDE DEF mapped
  <2>5. mapped \o <<>> = mapped
    <3> DEFINE Y == Configs[e]
    <3>1. mapped \in Seq(Y)
      BY <2>3
    <3> HIDE DEF Y
    <3> QED
      BY <3>1, ConcatNothing, Zenon
  <2>6. ASSUME NEW i \in 1..Len(mapped)
        PROVE  mapped[i] = old[i]
    <3>1. i \in 1..m /\ i \in 1..Len(N)
      BY <2>1, <2>3
    <3>2. mapped[i] = last[N[i]]
      BY <2>3, <3>1
    <3>3. N[i] = i
      BY <2>1, <3>1
    <3> HIDE DEF m, N
    <3> QED
      BY <1>9, <3>1, <3>2, <3>3
  <2>7. mapped = old
    <3>1. old \in Seq(Configs[e]) /\ Len(mapped) = Len(old)
      BY <2>1, <2>3
    <3> QED
      BY <2>3, <2>6, <3>1, SameList
  <2> QED
    BY <2>4, <2>5, <2>7
<1> QED
  BY <1>1, <1>3, <1>4, <1>10, <1>11 DEF MergedSoFar, m

\* An array merged by name: what stands at the places of the subscription's items that
\* are left, and the items with new names.
LEMMA MergedArray ==
  ASSUME NEW e \in 0..Depth, NEW b, b.items \in Seq(Configs[e]), NEW o, o.items \in Seq(Overlays[e]),
         MergeIdentityArray(b, o) # Failed
  PROVE  /\ Accepted(o.items)
         /\ \E last : /\ Follows(b.items, o.items, last)
                      /\ MergeIdentityArray(b, o) = List(NamesMerged(b.items, o.items, last))
<1> DEFINE old == b.items
           new == o.items
           P(i) == SubSeq(new, 1, i)
           St == States(Configs[e], AllTextsOf)
<1>0. Len(new) \in Nat /\ Len(new) \in 0..Len(new) /\ 0 \in 0..Len(new)
  OBVIOUS
<1>1. PICK acc \in [0..Len(new) -> St] :
        /\ acc[0] = Start(old)
        /\ \A i \in 1..Len(new) :
             acc[i] = IF acc[i - 1].ok THEN IdentityItem(acc[i - 1], new[i]) ELSE acc[i - 1]
        /\ MergeIdentityArray(b, o) = IF acc[Len(new)].ok THEN List(acc[Len(new)].list) ELSE Failed
  BY IdentityFold
<1> DEFINE S == {i \in 0..Len(new) : acc[i].ok => MergedSoFar(e, old, P(i), acc[i])}
<1>2. 0 \in S
  <2>1. P(0) = <<>>
    OBVIOUS
  <2>2. MergedSoFar(e, old, <<>>, Start(old))
    <3> HIDE DEF old
    <3> QED
      BY NothingMerged DEF old
  <2> QED
    BY <1>0, <1>1, <2>1, <2>2
<1>3. ASSUME NEW i \in 1..Len(new), i - 1 \in S
      PROVE  i \in S
  <2> DEFINE p == P(i - 1)
             item == new[i]
             t == acc[i - 1]
  <2>1. P(i) = Append(p, item) /\ i \in 0..Len(new) /\ i - 1 \in 0..Len(new)
    BY Prefix
  <2>2. p \in Seq(Overlays[e])
    BY Prefix
  <2>3. item \in Overlays[e]
    BY Prefix
  <2>4. t \in St
    BY <1>1, <2>1
  <2>5. t.ok => MergedSoFar(e, old, p, t)
    BY <1>3
  <2>6. acc[i] = IF t.ok THEN IdentityItem(t, item) ELSE t
    BY <1>1
  <2>7. old \in Seq(Configs[e])
    OBVIOUS
  <2> HIDE DEF old, new, P, p, item, t, St
  <2>8. ASSUME t.ok, IdentityItem(t, item).ok
        PROVE  MergedSoFar(e, old, Append(p, item), IdentityItem(t, item))
    BY <2>2, <2>3, <2>4, <2>5, <2>7, <2>8, ArrayStep DEF St
  <2> QED
    BY <2>1, <2>6, <2>8
<1>4. 0..Len(new) \subseteq S
  <2> HIDE DEF S
  <2> QED
    BY <1>0, <1>2, <1>3, Climb
<1>5. P(Len(new)) = new
  BY Prefix
<1>6. Len(new) \in S
  <2> HIDE DEF S
  <2> QED
    BY <1>0, <1>4
<1>7. acc[Len(new)].ok /\ MergeIdentityArray(b, o) = List(acc[Len(new)].list)
  BY <1>1
<1> HIDE DEF P
<1>8. MergedSoFar(e, old, new, acc[Len(new)])
  BY <1>5, <1>6, <1>7
<1> QED
  BY <1>7, <1>8 DEF MergedSoFar

\* The list that ItemsAreMergedByName promises.
Promised(old, new) ==
  LET more == Additions(new)
      mine == [i \in DOMAIN more |-> Name(more[i])]
      Seen(i) == \E j \in 1..(i - 1) : HasName(old[j]) /\ Name(old[j]) = Name(old[i])
      Gone(i) == /\ HasName(old[i])
                 /\ \/ Name(old[i]) \in Deletions(new)
                    \/ Name(old[i]) \in ItemsOf(mine) /\ Seen(i)
      Last(i) == IF HasName(old[i]) /\ Name(old[i]) \in ItemsOf(mine)
                 THEN Stripped(more[CHOOSE j \in DOMAIN more : mine[j] = Name(old[i])])
                 ELSE old[i]
      stay == Without([i \in DOMAIN old |-> i], {i \in DOMAIN old : Gone(i)})
      known == {x \in ItemsOf(more) : ItemsNamed(old, Name(x)) # {}}
  IN  [i \in DOMAIN stay |-> Last(stay[i])] \o Final(Without(more, known))

\* It is the list that the merge ends with.
LEMMA PromisedIs ==
  ASSUME NEW X, NEW old \in Seq(X), NEW Y, NEW new \in Seq(Y), NEW last, Follows(old, new, last)
  PROVE  NamesMerged(old, new, last) = Promised(old, new)
<1> DEFINE more == Additions(new)
           mine == [i \in DOMAIN more |-> Name(more[i])]
           Seen(i) == \E j \in 1..(i - 1) : HasName(old[j]) /\ Name(old[j]) = Name(old[i])
           Gone(i) == /\ HasName(old[i])
                      /\ \/ Name(old[i]) \in Deletions(new)
                         \/ Name(old[i]) \in ItemsOf(mine) /\ Seen(i)
           Last(i) == IF HasName(old[i]) /\ Name(old[i]) \in ItemsOf(mine)
                      THEN Stripped(more[CHOOSE j \in DOMAIN more : mine[j] = Name(old[i])])
                      ELSE old[i]
           stay == Without([i \in DOMAIN old |-> i], {i \in DOMAIN old : Gone(i)})
           known == {x \in ItemsOf(more) : ItemsNamed(old, Name(x)) # {}}
<1>1. Promised(old, new) = [i \in DOMAIN stay |-> Last(stay[i])] \o Final(Without(more, known))
  BY DEF Promised
<1>2. DOMAIN old = 1..Len(old) /\ Len(old) \in Nat
  OBVIOUS
<1>3. ItemsOf(mine) = Mine(new)
  BY DEF ItemsOf, Mine
<1>4. [i \in DOMAIN old |-> i] = Numbers(Len(old))
  BY <1>2 DEF Numbers
<1>5. {i \in DOMAIN old : Gone(i)} = Dropped(old, new)
  <2> HIDE DEF mine
  <2> QED
    BY <1>3 DEF Dropped
<1>6. Fresh(old, new) = Without(more, known)
  BY DEF Fresh
<1>7. stay = Without(Numbers(Len(old)), Dropped(old, new))
  BY <1>4, <1>5
<1>8. ASSUME NEW i \in DOMAIN old
      PROVE  Last(i) = last[i]
  <2>1. CASE HasName(old[i]) /\ Name(old[i]) \in Mine(new)
    <3> DEFINE j == CHOOSE j \in DOMAIN more : mine[j] = Name(old[i])
    <3>1. Last(i) = Stripped(more[j])
      <4> HIDE DEF mine, more
      <4> QED
        BY <1>3, <2>1
    <3>2. \E x \in DOMAIN more : mine[x] = Name(old[i])
      BY <2>1 DEF Mine, ItemsOf
    <3>3. j \in DOMAIN more /\ mine[j] = Name(old[i])
      <4> HIDE DEF mine, more
      <4> QED
        BY <3>2
    <3> HIDE DEF j, Last
    <3>4. more[j] \in ItemsOf(more) /\ Name(more[j]) = Name(old[i])
      BY <3>3 DEF ItemsOf
    <3>5. last[i] = Stripped(more[j])
      <4>1. \A x \in ItemsOf(more) : Name(x) = Name(old[i]) => last[i] = Stripped(x)
        BY <2>1 DEF Follows
      <4> HIDE DEF more
      <4> QED
        BY <3>4, <4>1
    <3> QED
      BY <3>1, <3>5
  <2>2. CASE ~(HasName(old[i]) /\ Name(old[i]) \in Mine(new))
    <3>1. Last(i) = old[i]
      <4> HIDE DEF mine, more
      <4> QED
        BY <1>3, <2>2
    <3>2. last[i] = old[i]
      BY <2>2 DEF Follows
    <3> HIDE DEF Last
    <3> QED
      BY <3>1, <3>2
  <2> HIDE DEF Last
  <2> QED
    BY <2>1, <2>2
<1> DEFINE w == Without(Numbers(Len(old)), Dropped(old, new))
<1>9. w \in Seq(1..Len(old))
  BY <1>2, NumbersLeft
<1>10. [i \in DOMAIN stay |-> Last(stay[i])] = Mapped(last, w)
  <2>1. \A i \in DOMAIN w : w[i] \in DOMAIN old
    <3> HIDE DEF w
    <3> QED
      BY <1>2, <1>9
  <2>2. stay = w
    BY <1>7
  <2> HIDE DEF stay, w, Last
  <2>3. \A i \in DOMAIN w : Last(w[i]) = last[w[i]]
    BY <1>8, <2>1
  <2> QED
    BY <2>2, <2>3 DEF Mapped
<1>11. Promised(old, new) = Mapped(last, w) \o Final(Fresh(old, new))
  <2> HIDE DEF stay, w, Last, more, known
  <2> QED
    BY <1>1, <1>6, <1>10
<1> QED
  BY <1>11 DEF NamesMerged, Listed

\* Arrays merged by name: the subscription's items stay in their order, those the
\* override names with its values and once, without those it deletes, and what has a
\* new name follows.
THEOREM ItemsStayInTheirOrder == RenderSpec => []ItemsAreMergedByName
<1>1. RenderInv => ItemsAreMergedByName
  <2>1. ASSUME RenderInv, WellMerged, NEW f \in MergedByName \ {"rules"}
        PROVE  Items(rendered, f) = Promised(Items(data, f), Items(overlay, f))
    <3> DEFINE new  == Items(overlay, f)
               old  == Items(data, f)
               o == overlay.at[f]
               b == Get(data, f)
               bl == IF IsList(b) THEN b ELSE List(<<>>)
    <3>0. Depth \in 1..Depth /\ Depth \in 0..Depth
      BY DepthNat
    <3>1. /\ data \in Configs[Depth] /\ IsMap(data) /\ overlay \in Overlays[Depth] /\ IsMap(overlay)
          /\ rendered = MergeConfig(data, overlay) /\ rendered # Failed
      BY <2>1 DEF RenderInv, WellMerged, Done, IsMap, Missing, Unparsable, Legacy
    <3>2. f \in Keys /\ Get(overlay, f) = o /\ IsList(o) /\ o.tag = "plain" /\ f \in IdentityArrays
      BY <2>1, <3>1 DEF MergedByName, Get, IsList, Missing
    <3>3. o # Missing /\ ~IsDeletion(o)
      BY <3>2 DEF IsDeletion, IsList, Missing
    <3>4. /\ Depth - 1 \in 1..Depth /\ o \in Overlays[Depth - 1] /\ b \in Configs[Depth - 1] \cup {Missing}
          /\ Get(rendered, f) = Merge(b, o, f, merge[(Depth - 1) - 1])
      BY <3>1, <3>2, <3>3, MergedField
    <3>5. Get(rendered, f) = MergeList(bl, o, f)
      <4>1. o.tag # "replace"
        BY <3>2
      <4> HIDE DEF b, o
      <4> QED
        BY <3>2, <3>4, <4>1, MergeOfLists
    <3>6. Get(rendered, f) = MergeIdentityArray(bl, o) /\ Get(rendered, f) # Failed
      <4>1. MergeList(bl, o, f) = MergeIdentityArray(bl, o)
        BY <3>2 DEF MergeList
      <4>2. Get(rendered, f) # Failed
        BY <3>1, <3>2, MergedKey
      <4> QED
        BY <3>5, <4>1, <4>2
    <3>7. bl.items = old /\ o.items = new
      BY <3>2 DEF Items, List
    <3>8. bl \in Configs[Depth - 1] /\ IsList(bl)
      <4>1. List(<<>>) \in Configs[Depth - 1]
        BY <3>4, EmptyType
      <4> QED
        BY <3>4, <4>1 DEF IsList, Missing, List
    <3>9. bl.items \in Seq(Configs[Depth - 2]) /\ o.items \in Seq(Overlays[Depth - 2]) /\ Depth - 2 \in 0..Depth
      <4>1. (Depth - 1) - 1 = Depth - 2 /\ Depth - 2 \in 0..Depth
        BY <3>4, DepthNat
      <4> HIDE DEF bl, o
      <4>2. bl.items \in Seq(Configs[(Depth - 1) - 1])
        BY <3>4, <3>8, ConfigShape
      <4>3. o.items \in Seq(Overlays[(Depth - 1) - 1])
        BY <3>2, <3>4, OverlayShape
      <4> QED
        BY <4>1, <4>2, <4>3
    <3> HIDE DEF bl, o, b
    <3>10. PICK last : /\ Follows(bl.items, o.items, last)
                       /\ MergeIdentityArray(bl, o) = List(NamesMerged(bl.items, o.items, last))
      <4>1. MergeIdentityArray(bl, o) # Failed
        BY <3>6
      <4> QED
        BY <3>9, <4>1, MergedArray
    <3> DEFINE r == Promised(old, new)
    <3>11. NamesMerged(bl.items, o.items, last) = r
      <4>1. NamesMerged(bl.items, o.items, last) = Promised(bl.items, o.items)
        BY <3>9, <3>10, PromisedIs
      <4> QED
        BY <3>7, <4>1
    <3> HIDE DEF r, old, new
    <3>12. Get(rendered, f) = List(r)
      BY <3>6, <3>10, <3>11
    <3>13. Items(rendered, f) = r
      BY <3>12 DEF Items, List, IsList
    <3> QED
      BY <3>13 DEF r, old, new
  <2> QED
    BY <2>1 DEF ItemsAreMergedByName, Promised
<1> QED
  BY <1>1, RenderInvariant, PTL

-------------------------------------------------------------------------------
\* What stands at a place of a document: a node of the document, or nothing.
Standing == Overlays[Depth] \cup {Missing}

\* What a mapping has for a key stands in the document.
LEMMA GetStands ==
  ASSUME NEW n \in Standing, NEW k
  PROVE  Get(n, k) \in Standing
<1>0. Depth \in 1..Depth /\ Depth - 1 \in 0..Depth /\ Depth \in (Depth - 1)..Depth
  BY DepthNat
<1>1. CASE IsMap(n) /\ k \in Keys
  <2>1. n \in Overlays[Depth]
    BY <1>1 DEF Standing, IsMap, Missing
  <2>2. n.at \in [Keys -> {Missing} \cup Overlays[Depth - 1]]
    BY <1>0, <1>1, <2>1, OverlayShape
  <2>3. Overlays[Depth - 1] \subseteq Overlays[Depth]
    BY <1>0, MoreLevels DEF Overlays
  <2>4. Get(n, k) = n.at[k]
    BY <1>1 DEF Get
  <2> QED
    BY <1>1, <2>2, <2>3, <2>4 DEF Standing
<1>2. CASE ~(IsMap(n) /\ k \in Keys)
  BY <1>2 DEF Get, Standing
<1> QED
  BY <1>1, <1>2

\* The way along a path, from node to node.
Walk(n, p, at) == at = [i \in 0..Len(p) |-> IF i = 0 THEN n ELSE Get(at[i - 1], p[i])]

\* There is one.
LEMMA WalkExists ==
  ASSUME NEW n \in Standing, NEW p \in Seq(Keys)
  PROVE  \E at : Walk(n, p, at) /\ At(n, p) = at[Len(p)]
<1> DEFINE m == Len(p)
           V == [i \in 0..m |-> Standing]
           step == [i \in 1..m |-> [x \in V[i - 1] |-> Get(x, p[i])]]
<1>0. m \in Nat /\ \A i \in 1..m : i - 1 \in 0..m /\ i \in 0..m /\ i # 0
  OBVIOUS
<1>1. n \in V[0]
  BY <1>0
<1>2. ASSUME NEW i \in 1..m, NEW x \in V[i - 1]
      PROVE  step[i][x] = Get(x, p[i]) /\ Get(x, p[i]) \in V[i]
  <2>1. x \in Standing
    BY <1>0
  <2>2. Get(x, p[i]) \in Standing
    BY <2>1, GetStands
  <2> QED
    BY <1>0, <2>2
<1>3. PICK f : ByLevels(m, n, step, f) /\ f \in Within(m, V)
  <2> HIDE DEF V, m, step
  <2>1. \A i \in 1..m : \A x \in V[i - 1] : step[i][x] \in V[i]
    BY <1>2
  <2>2. Steps(m, V, n, step)
    BY <1>1, <2>1 DEF Steps
  <2> QED
    BY <1>0, <2>2, Recursion
<1>4. f = [i \in 0..m |-> IF i = 0 THEN n ELSE Get(f[i - 1], p[i])]
  <2> HIDE DEF V, m, step
  <2>1. \A i \in 0..m : f[i] \in V[i]
    BY <1>3 DEF Within
  <2>2. \A i \in 0..m : i # 0 => i \in 1..m /\ i - 1 \in 0..m
    BY <1>0
  <2>3. \A i \in 0..m : i # 0 => step[i][f[i - 1]] = Get(f[i - 1], p[i])
    BY <1>2, <2>1, <2>2
  <2> QED
    BY <1>3, <2>3 DEF ByLevels
<1> DEFINE at == CHOOSE g : g = [i \in 0..m |-> IF i = 0 THEN n ELSE Get(g[i - 1], p[i])]
<1>5. at = [i \in 0..m |-> IF i = 0 THEN n ELSE Get(at[i - 1], p[i])]
  BY <1>4, Zenon
<1>6. At(n, p) = at[m]
  BY DEF At
<1>7. Walk(n, p, at)
  BY <1>5 DEF Walk
<1> HIDE DEF at
<1> QED
  BY <1>6, <1>7

\* The first steps of a path.
Way(p, i) == SubSeq(p, 1, i)

\* Where a path begins, and how it goes on.
LEMMA AtStep ==
  ASSUME NEW n \in Standing, NEW p \in Seq(Keys)
  PROVE  /\ Way(p, 0) = <<>> /\ Way(p, Len(p)) = p
         /\ At(n, Way(p, 0)) = n
         /\ \A i \in 1..Len(p) : Way(p, i)[1] = p[1]
         /\ \A i \in 1..Len(p) : p[i] \in Keys /\ At(n, Way(p, i)) = Get(At(n, Way(p, i - 1)), p[i])
         /\ \A i \in 0..Len(p) : Way(p, i) \in Seq(Keys) /\ Len(Way(p, i)) = i /\ At(n, Way(p, i)) \in Standing
<1>0. Len(p) \in Nat
  OBVIOUS
<1>1. ASSUME NEW i \in 0..Len(p)
      PROVE  /\ Way(p, i) \in Seq(Keys) /\ Len(Way(p, i)) = i
             /\ \A j \in 1..i : Way(p, i)[j] = p[j]
  <2>1. 1 \in 1..(Len(p) + 1) /\ i \in (1 - 1)..Len(p) /\ i - 1 + 1 = i /\ \A j \in 1..i : 1 + j - 1 = j
    BY <1>0
  <2>2. /\ SubSeq(p, 1, i) \in Seq(Keys) /\ Len(SubSeq(p, 1, i)) = i - 1 + 1
        /\ \A j \in 1..(i - 1 + 1) : SubSeq(p, 1, i)[j] = p[1 + j - 1]
    BY <2>1, Part
  <2> QED
    BY <2>1, <2>2 DEF Way
<1>2. Way(p, 0) = <<>> /\ Way(p, Len(p)) = p
  BY Prefix DEF Way
<1>3. PICK at : Walk(n, p, at)
  BY WalkExists
<1>4. ASSUME NEW i \in 0..Len(p)
      PROVE  At(n, Way(p, i)) = at[i]
  <2> DEFINE q == Way(p, i)
  <2>1. q \in Seq(Keys) /\ Len(q) = i /\ \A j \in 1..i : q[j] = p[j]
    BY <1>1
  <2> HIDE DEF q
  <2>2. PICK to : Walk(n, q, to) /\ At(n, q) = to[Len(q)]
    BY <2>1, WalkExists
  <2> DEFINE S == {j \in 0..i : to[j] = at[j]}
  <2>3. 0 \in S
    BY <1>0, <1>3, <2>1, <2>2 DEF Walk
  <2>4. ASSUME NEW j \in 1..i, j - 1 \in S
        PROVE  j \in S
    <3>1. j \in 0..i /\ j \in 0..Len(p) /\ j # 0
      BY <1>0
    <3>2. to[j] = Get(to[j - 1], q[j])
      BY <2>1, <2>2, <3>1 DEF Walk
    <3>3. at[j] = Get(at[j - 1], p[j])
      BY <1>3, <3>1 DEF Walk
    <3> QED
      BY <2>1, <2>4, <3>1, <3>2, <3>3
  <2>5. i \in S
    <3>1. i \in Nat /\ i \in 0..i
      BY <1>0
    <3> HIDE DEF S
    <3>2. 0..i \subseteq S
      BY <2>3, <2>4, <3>1, Climb
    <3> QED
      BY <3>1, <3>2
  <2> QED
    BY <2>1, <2>2, <2>5 DEF q
<1>5. at[0] = n /\ \A i \in 1..Len(p) : at[i] = Get(at[i - 1], p[i])
  BY <1>0, <1>3 DEF Walk
<1>6. \A i \in 0..Len(p) : at[i] \in Standing
  <2> DEFINE S == {i \in 0..Len(p) : at[i] \in Standing}
  <2>1. 0 \in S
    BY <1>0, <1>5
  <2>2. ASSUME NEW i \in 1..Len(p), i - 1 \in S
        PROVE  i \in S
    <3>1. at[i - 1] \in Standing
      BY <2>2
    <3>2. Get(at[i - 1], p[i]) \in Standing
      BY <3>1, GetStands
    <3> QED
      BY <1>0, <1>5, <3>2
  <2> HIDE DEF S
  <2>3. 0..Len(p) \subseteq S
    BY <1>0, <2>1, <2>2, Climb
  <2> QED
    BY <2>3 DEF S
<1>7. \A i \in 1..Len(p) : p[i] \in Keys /\ i \in 0..Len(p) /\ i - 1 \in 0..Len(p)
  BY <1>0
<1>8. 0 \in 0..Len(p)
  BY <1>0
<1>9. At(n, Way(p, 0)) = n
  BY <1>4, <1>5, <1>8
<1>10. ASSUME NEW i \in 1..Len(p)
       PROVE  p[i] \in Keys /\ At(n, Way(p, i)) = Get(At(n, Way(p, i - 1)), p[i])
  <2>1. At(n, Way(p, i)) = at[i] /\ At(n, Way(p, i - 1)) = at[i - 1]
    BY <1>4, <1>7
  <2> QED
    BY <1>5, <1>7, <2>1
<1>11. ASSUME NEW i \in 0..Len(p)
       PROVE  Way(p, i) \in Seq(Keys) /\ Len(Way(p, i)) = i /\ At(n, Way(p, i)) \in Standing
  BY <1>1, <1>4, <1>6
<1>12. \A i \in 1..Len(p) : Way(p, i)[1] = p[1]
  BY <1>1, <1>7
<1> QED
  BY <1>2, <1>9, <1>10, <1>11, <1>12

\* The paths, one key longer on every level.
LongerPaths(n, ps) == {<<>>} \cup UNION {{Append(p, k) : k \in KeysOf(At(n, p))} : p \in ps}

\* All paths are those of the last level.
LEMMA PathLevels ==
  ASSUME NEW n
  PROVE  \E of : /\ of[0] = {<<>>} /\ Paths(n) = of[Depth]
                 /\ \A d \in 1..Depth : of[d] = LongerPaths(n, of[d - 1]) /\ of[d - 1] \subseteq Seq(Keys)
                 /\ of[Depth] \subseteq Seq(Keys)
<1> DEFINE V == [d \in 0..Depth |-> SUBSET Seq(Keys)]
           step == [d \in 1..Depth |-> [ps \in V[d - 1] |-> LongerPaths(n, ps)]]
<1>0. Depth \in Nat /\ 0 \in 0..Depth /\ Depth \in 0..Depth
      /\ \A d \in 1..Depth : d - 1 \in 0..Depth /\ d \in 0..Depth /\ d # 0
  BY DepthNat
<1>1. {<<>>} \in V[0]
  BY <1>0
<1>2. ASSUME NEW d \in 1..Depth, NEW ps \in V[d - 1]
      PROVE  step[d][ps] = LongerPaths(n, ps) /\ LongerPaths(n, ps) \in V[d]
  <2>1. ps \subseteq Seq(Keys)
    BY <1>0
  <2>2. ASSUME NEW q \in LongerPaths(n, ps)
        PROVE  q \in Seq(Keys)
    <3>1. CASE q = <<>>
      BY <3>1
    <3>2. CASE q # <<>>
      <4>1. PICK p \in ps : q \in {Append(p, k) : k \in KeysOf(At(n, p))}
        BY <2>2, <3>2 DEF LongerPaths
      <4>2. PICK k \in KeysOf(At(n, p)) : q = Append(p, k)
        BY <4>1
      <4>3. p \in Seq(Keys) /\ k \in Keys
        BY <2>1 DEF KeysOf
      <4> QED
        BY <4>2, <4>3
    <3> QED
      BY <3>1, <3>2
  <2> QED
    BY <1>0, <2>2
<1>3. PICK f : ByLevels(Depth, {<<>>}, step, f) /\ f \in Within(Depth, V)
  <2> HIDE DEF V, step
  <2>1. \A d \in 1..Depth : \A ps \in V[d - 1] : step[d][ps] \in V[d]
    BY <1>2
  <2>2. Steps(Depth, V, {<<>>}, step)
    BY <1>1, <2>1 DEF Steps
  <2> QED
    BY <1>0, <2>2, Recursion
<1>4. \A d \in 0..Depth : f[d] \subseteq Seq(Keys)
  <2>1. \A d \in 0..Depth : V[d] = SUBSET Seq(Keys)
    BY <1>0
  <2> HIDE DEF V
  <2> QED
    BY <1>3, <2>1 DEF Within
<1>5. f = [d \in 0..Depth |-> IF d = 0 THEN {<<>>} ELSE LongerPaths(n, f[d - 1])]
  <2> HIDE DEF V, step
  <2>1. \A d \in 0..Depth : f[d] \in V[d]
    BY <1>3 DEF Within
  <2>2. \A d \in 0..Depth : d # 0 => d \in 1..Depth /\ d - 1 \in 0..Depth
    BY <1>0
  <2>3. \A d \in 0..Depth : d # 0 => step[d][f[d - 1]] = LongerPaths(n, f[d - 1])
    BY <1>2, <2>1, <2>2
  <2> QED
    BY <1>3, <2>3 DEF ByLevels
<1> DEFINE of == CHOOSE g : g = [d \in 0..Depth |-> IF d = 0 THEN {<<>>} ELSE LongerPaths(n, g[d - 1])]
<1>6. of = [d \in 0..Depth |-> IF d = 0 THEN {<<>>} ELSE LongerPaths(n, of[d - 1])]
  BY <1>5, Zenon
<1>7. Paths(n) = of[Depth]
  BY DEF Paths, LongerPaths
<1> HIDE DEF of
<1>8. of[0] = {<<>>} /\ \A d \in 1..Depth : of[d] = LongerPaths(n, of[d - 1])
  BY <1>0, <1>6
<1> DEFINE S == {d \in 0..Depth : of[d] = f[d]}
<1>9. 0 \in S
  BY <1>0, <1>5, <1>8
<1>10. ASSUME NEW d \in 1..Depth, d - 1 \in S
       PROVE  d \in S
  BY <1>0, <1>5, <1>8, <1>10
<1>11. 0..Depth \subseteq S
  <2> HIDE DEF S
  <2> QED
    BY <1>0, <1>9, <1>10, Climb
<1>12. \A d \in 0..Depth : of[d] \subseteq Seq(Keys)
  BY <1>4, <1>11
<1> QED
  BY <1>0, <1>7, <1>8, <1>12

\* The paths of a document are sequences of keys.
LEMMA PathsAreKeys ==
  ASSUME NEW n
  PROVE  Paths(n) \subseteq Seq(Keys)
BY PathLevels

\* What a value of the override is where it takes the place of what was there.
Shown(r, o) == \/ r = Missing /\ o = Missing
               \/ \E e \in 1..Depth : o \in Overlays[e] /\ r = stripped[e][o] /\ r # Failed

\* Stripping, on any level.
LEMMA StrippedOn ==
  ASSUME NEW e \in 1..Depth, NEW o \in Overlays[e]
  PROVE  stripped[e][o] = Strip(o, stripped[e - 1])
<1>1. stripped[e] = [n \in Overlays[e] |-> Strip(n, stripped[e - 1])]
  BY StrippedType
<1> QED
  BY <1>1

\* A node without its directives.
LEMMA StripKinds ==
  ASSUME NEW o, IsNode(o), NEW below, Strip(o, below) # Failed
  PROVE  /\ o.tag # "delete"
         /\ IsScalar(o) => Strip(o, below) = Scalar(o.value)
         /\ IsList(o) => Strip(o, below) = List([i \in DOMAIN o.items |-> below[o.items[i]]])
         /\ IsMap(o) => Strip(o, below) =
                          Map([k \in Keys |-> IF o.at[k] = Missing THEN Missing ELSE below[o.at[k]]])
         /\ IsMap(o) => \A k \in Keys : o.at[k] # Missing => below[o.at[k]] # Failed
<1>1. o.tag # "delete"
  <2> SUFFICES ASSUME o.tag = "delete" PROVE FALSE
    OBVIOUS
  <2> QED
    BY Zenon DEF Strip
<1>2. CASE IsScalar(o)
  <2>1. ~IsList(o) /\ ~IsMap(o)
    BY <1>2 DEF IsScalar, IsList, IsMap
  <2> QED
    BY <1>1, <1>2, <2>1, Zenon DEF Strip
<1>3. CASE IsList(o)
  <2>1. ~IsScalar(o) /\ ~IsMap(o)
    BY <1>3 DEF IsScalar, IsList, IsMap
  <2> QED
    BY <1>1, <1>3, <2>1 DEF Strip
<1>4. CASE IsMap(o)
  <2>1. ~IsScalar(o) /\ ~IsList(o)
    BY <1>4 DEF IsScalar, IsList, IsMap
  <2> DEFINE Child(k) == IF o.at[k] = Missing THEN Missing ELSE below[o.at[k]]
  <2>2. Strip(o, below) = IF o.flaw = "directive" \/ \E k \in Keys : Child(k) = Failed
                          THEN Failed ELSE Map([k \in Keys |-> Child(k)])
    BY <1>1, <1>4, <2>1 DEF Strip
  <2>3. ~(o.flaw = "directive" \/ \E k \in Keys : Child(k) = Failed)
    BY <2>2, Zenon
  <2>4. Strip(o, below) = Map([k \in Keys |-> Child(k)])
    BY <2>2, <2>3, Zenon
  <2>5. \A k \in Keys : o.at[k] # Missing => below[o.at[k]] # Failed
    BY <2>3
  <2> QED
    BY <1>1, <2>1, <2>4, <2>5, Zenon
<1> QED
  BY <1>1, <1>2, <1>3, <1>4 DEF IsNode, IsScalar, IsList, IsMap

\* What is shown is like what the override has.
LEMMA ShownAlike ==
  ASSUME NEW r, NEW o, Shown(r, o)
  PROVE  Alike(r, o)
<1>1. CASE r = Missing /\ o = Missing
  BY <1>1 DEF Alike, Missing, IsScalar, IsList, IsMap
<1>2. CASE \E e \in 1..Depth : o \in Overlays[e] /\ r = stripped[e][o] /\ r # Failed
  <2>1. PICK e \in 1..Depth : o \in Overlays[e] /\ r = stripped[e][o] /\ r # Failed
    BY <1>2
  <2>2. e - 1 \in 0..Depth /\ e \in 0..Depth
    BY DepthNat
  <2>3. IsNode(o)
    BY <2>1, <2>2, NoNode DEF Overlays
  <2> DEFINE below == stripped[e - 1]
  <2>4. r = Strip(o, below)
    BY <2>1, StrippedOn
  <2> HIDE DEF below
  <2>5. CASE IsScalar(o)
    <3>1. r = Scalar(o.value)
      BY <2>1, <2>3, <2>4, <2>5, StripKinds
    <3> QED
      BY <2>5, <3>1 DEF Alike, Scalar, IsScalar, IsList, IsMap
  <2>6. CASE IsList(o)
    <3> DEFINE s == [i \in DOMAIN o.items |-> below[o.items[i]]]
    <3>1. r = List(s)
      BY <2>1, <2>3, <2>4, <2>6, StripKinds
    <3>2. o.items \in Seq(Overlays[e - 1])
      BY <2>1, <2>6, OverlayShape
    <3>3. Len(s) = Len(o.items)
      BY <3>2
    <3> HIDE DEF s
    <3> QED
      BY <2>6, <3>1, <3>3 DEF Alike, List, IsScalar, IsList, IsMap
  <2>7. CASE IsMap(o)
    <3> DEFINE at == [k \in Keys |-> IF o.at[k] = Missing THEN Missing ELSE below[o.at[k]]]
    <3>1. r = Map(at)
      BY <2>1, <2>3, <2>4, <2>7, StripKinds
    <3>2. o.at \in [Keys -> {Missing} \cup Overlays[e - 1]]
      BY <2>1, <2>7, OverlayShape
    <3>3. ASSUME NEW k \in Keys
          PROVE  at[k] = Missing <=> o.at[k] = Missing
      <4>1. CASE o.at[k] = Missing
        BY <4>1
      <4>2. CASE o.at[k] # Missing
        <5> DEFINE c == o.at[k]
        <5>1. c \in Overlays[e - 1]
          BY <3>2, <4>2
        <5>2. e - 1 \in 1..Depth
          <6>1. Overlays[0] = {}
            BY NoNode DEF Overlays
          <6>2. e - 1 # 0
            BY <5>1, <6>1
          <6> QED
            BY <2>2, <6>2, DepthNat
        <5>3. IsNode(c)
          BY <2>2, <5>1, NoNode DEF Overlays
        <5> HIDE DEF c
        <5>4. below[c] = Strip(c, stripped[(e - 1) - 1])
          BY <5>1, <5>2, StrippedOn DEF below
        <5> DEFINE b == stripped[(e - 1) - 1]
        <5> HIDE DEF b
        <5>5. Strip(c, b) # Missing
          <6>1. CASE Strip(c, b) = Failed
            BY <6>1 DEF Failed, Missing
          <6>2. CASE Strip(c, b) # Failed
            <7>1. IsScalar(c) \/ IsList(c) \/ IsMap(c)
              BY <5>3 DEF IsNode, IsScalar, IsList, IsMap
            <7> QED
              BY <5>3, <6>2, <7>1, StripKinds DEF Scalar, List, Map, Missing
          <6> QED
            BY <6>1, <6>2
        <5>6. at[k] = below[c]
          BY <4>2 DEF c
        <5>7. at[k] # Missing
          BY <5>4, <5>5, <5>6 DEF b
        <5> QED
          BY <4>2, <5>7
      <4> QED
        BY <4>1, <4>2
    <3> HIDE DEF at
    <3>4. IsMap(r) /\ r.at = at /\ r.kind = "map"
      BY <3>1 DEF Map, IsMap
    <3>5. KeysOf(r) = KeysOf(o)
      BY <2>7, <3>3, <3>4 DEF KeysOf, Get
    <3> QED
      BY <2>7, <3>4, <3>5 DEF Alike, IsScalar, IsList, IsMap
  <2> QED
    BY <2>3, <2>5, <2>6, <2>7 DEF IsNode, IsScalar, IsList, IsMap
<1> QED
  BY <1>1, <1>2 DEF Shown

\* So it is for every key of it.
LEMMA ShownBelow ==
  ASSUME NEW r, NEW o, Shown(r, o), NEW k \in Keys
  PROVE  Shown(Get(r, k), Get(o, k))
<1>1. ASSUME NEW x, ~IsMap(x)
      PROVE  Get(x, k) = Missing
  BY <1>1 DEF Get
<1>2. CASE r = Missing /\ o = Missing
  <2>1. ~IsMap(r) /\ ~IsMap(o)
    BY <1>2 DEF Missing, IsMap
  <2> QED
    BY <1>1, <2>1 DEF Shown
<1>3. CASE \E e \in 1..Depth : o \in Overlays[e] /\ r = stripped[e][o] /\ r # Failed
  <2>1. PICK e \in 1..Depth : o \in Overlays[e] /\ r = stripped[e][o] /\ r # Failed
    BY <1>3
  <2>2. e - 1 \in 0..Depth /\ e \in 0..Depth
    BY DepthNat
  <2>3. IsNode(o)
    BY <2>1, <2>2, NoNode DEF Overlays
  <2> DEFINE below == stripped[e - 1]
  <2>4. r = Strip(o, below)
    BY <2>1, StrippedOn
  <2>5. CASE ~IsMap(o)
    <3> HIDE DEF below
    <3>1. IsScalar(o) \/ IsList(o)
      BY <2>3, <2>5 DEF IsNode, IsScalar, IsList, IsMap
    <3>2. ~IsMap(r)
      <4>1. CASE IsScalar(o)
        <5>1. r = Scalar(o.value)
          BY <2>1, <2>3, <2>4, <4>1, StripKinds
        <5> QED
          BY <5>1 DEF Scalar, IsMap
      <4>2. CASE IsList(o)
        <5> DEFINE s == [i \in DOMAIN o.items |-> below[o.items[i]]]
        <5>1. r = List(s)
          BY <2>1, <2>3, <2>4, <4>2, StripKinds
        <5> HIDE DEF s
        <5> QED
          BY <5>1 DEF List, IsMap
      <4> QED
        BY <3>1, <4>1, <4>2
    <3> QED
      BY <1>1, <2>5, <3>2 DEF Shown
  <2>6. CASE IsMap(o)
    <3> HIDE DEF below
    <3> DEFINE at == [x \in Keys |-> IF o.at[x] = Missing THEN Missing ELSE below[o.at[x]]]
    <3>1. r = Map(at) /\ (o.at[k] # Missing => below[o.at[k]] # Failed)
      BY <2>1, <2>3, <2>4, <2>6, StripKinds
    <3>2. o.at \in [Keys -> {Missing} \cup Overlays[e - 1]]
      BY <2>1, <2>6, OverlayShape
    <3>3. Get(r, k) = at[k] /\ Get(o, k) = o.at[k]
      <4> HIDE DEF at
      <4> QED
        BY <2>6, <3>1 DEF Get, Map, IsMap
    <3>4. CASE o.at[k] = Missing
      BY <3>3, <3>4 DEF Shown
    <3>5. CASE o.at[k] # Missing
      <4>1. o.at[k] \in Overlays[e - 1]
        BY <3>2, <3>5
      <4>2. e - 1 \in 1..Depth
        <5>1. Overlays[0] = {}
          BY NoNode DEF Overlays
        <5>2. e - 1 # 0
          BY <4>1, <5>1
        <5> QED
          BY <2>2, <5>2, DepthNat
      <4>3. at[k] = stripped[e - 1][o.at[k]] /\ at[k] # Failed
        BY <3>1, <3>5 DEF below
      <4> HIDE DEF at
      <4> QED
        BY <3>3, <4>1, <4>2, <4>3 DEF Shown
    <3> QED
      BY <3>4, <3>5
  <2> QED
    BY <2>5, <2>6
<1> QED
  BY <1>2, <1>3 DEF Shown

\* What is shown of a value of the override, when it is merged into a config.
LEMMA TakenShown ==
  ASSUME NEW e \in 1..Depth, NEW o \in Overlays[e], Stripped(o) # Failed
  PROVE  Shown(Stripped(o), o) /\ o.tag # "delete"
<1>0. Depth \in 1..Depth /\ Depth \in e..Depth /\ e \in 0..Depth
  BY DepthNat
<1>1. o \in Overlays[Depth]
  <2>1. Overlays[e] \subseteq Overlays[Depth]
    BY <1>0, MoreLevels DEF Overlays
  <2> QED
    BY <2>1
<1>2. Stripped(o) = stripped[Depth][o]
  BY DEF Stripped
<1>3. o.tag # "delete"
  <2>1. IsNode(o)
    BY <1>0, NoNode DEF Overlays
  <2>2. Strip(o, stripped[Depth - 1]) # Failed
    BY <1>0, <1>1, <1>2, StrippedOn
  <2> QED
    BY <2>1, <2>2, StripKinds
<1> QED
  BY <1>0, <1>1, <1>2, <1>3 DEF Shown

\* A mapping of the override merged with what there is at a place.
Mixed(b, o, r, place) ==
  \E e \in 1..Depth : /\ b \in Configs[e] \cup {Missing} /\ o \in Overlays[e] /\ IsMap(o) /\ o.tag = "plain"
                      /\ r = Merge(b, o, place, merge[e - 1]) /\ r # Failed

Arrays == IdentityArrays \cup {"rules"}

\* A list merged at a place.
LEMMA MixedList ==
  ASSUME NEW b, NEW o, IsList(o), NEW place, NEW r, r = MergeList(b, o, place), r # Failed
  PROVE  IF place \in Arrays THEN IsList(r) ELSE r = Stripped(o)
<1>1. CASE place \in IdentityArrays
  <2>1. r = MergeIdentityArray(b, o)
    BY <1>1 DEF MergeList
  <2>2. ASSUME NEW ok, NEW l, (IF ok THEN List(l) ELSE Failed) # Failed
        PROVE  IsList(IF ok THEN List(l) ELSE Failed)
    BY <2>2 DEF List, IsList
  <2>3. IsList(r)
    BY <2>1, <2>2, Zenon DEF MergeIdentityArray
  <2> QED
    BY <1>1, <2>3 DEF Arrays
<1>2. CASE place \notin IdentityArrays /\ place = "rules"
  <2>1. r = MergeRules(b, o)
    BY <1>2 DEF MergeList
  <2> QED
    BY <1>2, <2>1 DEF MergeRules, List, IsList, Arrays
<1>3. CASE place \notin Arrays
  BY <1>3 DEF MergeList, Arrays
<1> QED
  BY <1>1, <1>2, <1>3 DEF Arrays

\* What such a merge has for a key: what there was; nothing, where the override deletes it;
\* the override's value, where the override decides; a merged list; or another such merge.
LEMMA MixedBelow ==
  ASSUME NEW b, NEW o, NEW r, NEW place \in Places, Mixed(b, o, r, place), NEW k \in Keys
  PROVE  /\ IsMap(r)
         /\ \/ Get(o, k) = Missing /\ Get(r, k) = Get(b, k)
            \/ IsNode(Get(o, k)) /\ Get(o, k).tag = "delete" /\ Get(r, k) = Missing
            \/ /\ IsNode(Get(o, k)) /\ Get(o, k).tag # "delete" /\ Shown(Get(r, k), Get(o, k))
               /\ Get(o, k).tag # "plain" \/ ~IsMap(Get(o, k)) \/ place \in ProviderMaps
            \/ /\ IsNode(Get(o, k)) /\ Get(o, k).tag = "plain" /\ IsList(Get(o, k)) /\ IsList(Get(r, k))
               /\ Below(place, k) \in Arrays
            \/ place \notin ProviderMaps /\ Mixed(Get(b, k), Get(o, k), Get(r, k), Below(place, k))
<1>1. PICK e \in 1..Depth : /\ b \in Configs[e] \cup {Missing} /\ o \in Overlays[e] /\ IsMap(o) /\ o.tag = "plain"
                            /\ r = Merge(b, o, place, merge[e - 1]) /\ r # Failed
  BY DEF Mixed
<1> DEFINE below == merge[e - 1]
           bm == IF IsMap(b) THEN b ELSE Mapping(<<>>)
           c == Get(o, k)
           x == Get(b, k)
<1>2. e - 1 \in 0..Depth /\ e \in 0..Depth
  BY DepthNat
<1>3. bm \in Configs[e] /\ Get(bm, k) = x
  <2>1. CASE IsMap(b)
    BY <1>1, <2>1 DEF IsMap, Missing
  <2>2. CASE ~IsMap(b)
    <3>1. Mapping(<<>>) \in Configs[e] /\ Mapping(<<>>) = Map([y \in Keys |-> Missing])
      BY EmptyType
    <3>2. Get(Mapping(<<>>), k) = Missing
      BY <3>1 DEF Get, Map, IsMap
    <3> QED
      BY <2>2, <3>1, <3>2 DEF Get
  <2> QED
    BY <2>1, <2>2
<1>4. c = o.at[k] /\ o.at \in [Keys -> {Missing} \cup Overlays[e - 1]]
  BY <1>1, OverlayShape DEF Get
<1>5. r = MergeMapping(bm, o, place, below)
  <2>1. o.tag # "replace"
    BY <1>1
  <2> HIDE DEF below
  <2>2. Merge(b, o, place, below) = MergeMapping(bm, o, place, below)
    BY <1>1, <2>1, MergeOfMaps
  <2> QED
    BY <1>1, <2>2 DEF below
<1> HIDE DEF below, bm
<1> DEFINE entry == [y \in Keys |-> Entry(bm, o, place, below, y)]
<1>6. r = Map(entry) /\ Entry(bm, o, place, below, k) # Failed
  BY <1>1, <1>5 DEF MergeMapping
<1>7. IsMap(r) /\ Get(r, k) = Entry(bm, o, place, below, k)
  <2>1. entry[k] = Entry(bm, o, place, below, k)
    OBVIOUS
  <2> HIDE DEF entry
  <2> QED
    BY <1>6, <2>1 DEF Map, IsMap, Get
<1> HIDE DEF entry
<1>8. CASE c = Missing
  <2>1. Entry(bm, o, place, below, k) = x
    BY <1>3, <1>4, <1>8, EntryUntouched
  <2> QED
    BY <1>7, <1>8, <2>1
<1>9. CASE c # Missing /\ IsDeletion(c)
  <2>1. Entry(bm, o, place, below, k) = Missing
    BY <1>4, <1>6, <1>9, EntryDeleted
  <2> QED
    BY <1>7, <1>9, <2>1 DEF IsDeletion
<1>10. CASE c # Missing /\ ~IsDeletion(c)
  <2>1. c \in Overlays[e - 1]
    BY <1>4, <1>10
  <2>2. IsNode(c)
    BY <1>2, <2>1, NoNode DEF Overlays
  <2>3. c.tag # "delete"
    BY <1>10, <2>2 DEF IsDeletion
  <2>4. e - 1 \in 1..Depth
    <3>1. Overlays[0] = {}
      BY NoNode DEF Overlays
    <3>2. e - 1 # 0
      BY <2>1, <3>1
    <3> QED
      BY <1>2, <3>2, DepthNat
  <2>5. CASE place \in ProviderMaps
    <3>1. Entry(bm, o, place, below, k) = Stripped(c)
      BY <1>4, <1>10, <2>2, <2>5, EntryOfProviders
    <3>2. Shown(Stripped(c), c)
      <4> HIDE DEF c
      <4> QED
        BY <1>6, <2>1, <2>4, <3>1, TakenShown
    <3> QED
      BY <1>7, <2>2, <2>3, <2>5, <3>1, <3>2
  <2>6. CASE place \notin ProviderMaps
    <3> DEFINE place2 == Below(place, k)
               m == Merge(x, c, place2, merge[(e - 1) - 1])
    <3>1. x \in Configs[e - 1] \cup {Missing}
      <4>1. CASE IsMap(bm)
        <5>1. bm.at \in [Keys -> {Missing} \cup Configs[e - 1]]
          BY <1>3, <4>1, ConfigShape
        <5> QED
          BY <1>3, <4>1, <5>1 DEF Get
      <4>2. CASE ~IsMap(bm)
        BY <1>3, <4>2 DEF Get
      <4> QED
        BY <4>1, <4>2
    <3>2. place2 \in Places
      BY BelowType
    <3>3. Entry(bm, o, place, below, k) = below[<<x, c, place2>>]
      BY <1>3, <1>4, <1>10, <2>2, <2>6 DEF Entry
    <3>4. below[<<x, c, place2>>] = m
      <4> HIDE DEF x, c, place2
      <4>1. <<x, c, place2>> \in Pairs(e - 1)
        BY <2>1, <3>1, <3>2 DEF Pairs
      <4>2. below = Level(e - 1, merge[(e - 1) - 1])
        BY <2>4, MergeLevels DEF below
      <4> DEFINE lower == merge[(e - 1) - 1]
      <4> HIDE DEF lower
      <4>3. Level(e - 1, lower)[<<x, c, place2>>] = Merge(x, c, place2, lower)
        BY <4>1 DEF Level
      <4> QED
        BY <4>2, <4>3 DEF lower
    <3>5. Get(r, k) = m /\ m # Failed
      BY <1>6, <1>7, <3>3, <3>4
    <3> DEFINE lower == merge[(e - 1) - 1]
    <3>6. CASE c.tag = "replace" \/ IsScalar(c)
      <4> HIDE DEF c, x, place2, lower
      <4>1. m = Stripped(c)
        BY <3>6, MergeReplaced
      <4>2. Shown(Stripped(c), c)
        BY <2>1, <2>4, <3>5, <4>1, TakenShown
      <4>3. c.tag # "plain" \/ ~IsMap(c)
        BY <3>6 DEF IsScalar, IsMap
      <4> QED
        BY <1>7, <2>2, <2>3, <3>5, <4>1, <4>2, <4>3 DEF c
    <3>7. CASE c.tag # "replace" /\ IsList(c)
      <4> DEFINE bl == IF IsList(x) THEN x ELSE List(<<>>)
      <4> HIDE DEF c, x, place2, lower
      <4>1. m = MergeList(bl, c, place2)
        BY <3>7, MergeOfLists
      <4> HIDE DEF bl, m
      <4>2. IF place2 \in Arrays THEN IsList(m) ELSE m = Stripped(c)
        BY <3>5, <3>7, <4>1, MixedList
      <4>3. ~IsMap(c)
        BY <3>7 DEF IsList, IsMap
      <4>4. c.tag \in {"plain", "replace", "delete"}
        BY <2>1, <2>4, OverlayShape DEF Tags
      <4>5. CASE place2 \in Arrays
        BY <1>7, <2>2, <2>3, <3>5, <3>7, <4>2, <4>4, <4>5 DEF c, place2
      <4>6. CASE place2 \notin Arrays
        <5>1. m = Stripped(c)
          BY <4>2, <4>6
        <5>2. Shown(Stripped(c), c)
          BY <2>1, <2>4, <3>5, <5>1, TakenShown
        <5> QED
          BY <1>7, <2>2, <2>3, <3>5, <4>3, <5>1, <5>2 DEF c
      <4> QED
        BY <4>5, <4>6
    <3>8. CASE c.tag # "replace" /\ IsMap(c)
      <4>1. c.tag = "plain"
        BY <2>1, <2>3, <2>4, <3>8, OverlayShape DEF Tags
      <4> HIDE DEF c, x, place2
      <4>2. Mixed(x, c, m, place2)
        BY <2>1, <2>4, <3>1, <3>5, <3>8, <4>1 DEF Mixed
      <4> QED
        BY <1>7, <2>6, <3>5, <4>2 DEF c, x, place2
    <3> QED
      BY <2>2, <3>6, <3>7, <3>8 DEF IsNode, IsScalar, IsList, IsMap
  <2> QED
    BY <2>5, <2>6
<1> QED
  BY <1>8, <1>9, <1>10

\* Where in the document the first i steps of a path lead.
PlaceOf(p, i) == IF i = 0 THEN "document" ELSE IF i = 1 THEN p[1] ELSE "nested"

\* Nothing is decided on the first i steps, or first at the j-th.
Undecided(p, i) == \A j \in 0..i : ~Decides(Way(p, j))
TopAt(p, i, j)  == /\ j \in 0..i /\ Decides(Way(p, j))
                   /\ \A k \in 0..(j - 1) : ~Decides(Way(p, k))

\* What is rendered after i steps of a path: what there was, where the override has nothing;
\* a mapping merged of both; nothing, where the override deletes; what the override has,
\* where it decides; or a list merged item by item.
Walked(p, i) ==
    LET o == At(overlay, Way(p, i))
        r == At(rendered, Way(p, i))
        b == At(data, Way(p, i))
    IN  \/ Undecided(p, i) /\ o = Missing /\ r = b
        \/ Undecided(p, i) /\ Mixed(b, o, r, PlaceOf(p, i))
        \/ \E j : TopAt(p, i, j) /\ At(overlay, Way(p, j)).tag = "delete" /\ r = Missing
        \/ \E j : TopAt(p, i, j) /\ At(overlay, Way(p, j)).tag # "delete" /\ Shown(r, o)
        \/ TopAt(p, i, i) /\ ByItsName(Way(p, i)) /\ o.tag = "plain" /\ IsList(o) /\ IsList(r)

\* The places a path leads to.
LEMMA PlacesOnTheWay ==
  ASSUME NEW p \in Seq(Keys), NEW i \in 1..Len(p)
  PROVE  /\ PlaceOf(p, i - 1) \in Places
         /\ PlaceOf(p, i) = Below(PlaceOf(p, i - 1), p[i])
         /\ PlaceOf(p, i - 1) \in ProviderMaps <=> i = 2 /\ p[1] \in ProviderMaps
         /\ PlaceOf(p, i) \in Arrays => i = 1 /\ ByItsName(Way(p, i))
<1>0. Len(p) \in Nat /\ 1 \in 1..Len(p) /\ i \in 0..Len(p)
  OBVIOUS
<1>1. "document" \notin Keys
  BY DocumentsAssumption DEF DocumentsAssumption
<1>2. p[1] \in Keys /\ p[1] # "document" /\ p[i] \in Keys
  BY <1>0, <1>1
<1>3. "document" \notin ProviderMaps /\ "nested" \notin ProviderMaps
  BY DEF ProviderMaps
<1>4. "nested" \notin Arrays
  BY DEF Arrays, IdentityArrays
<1>5. CASE i = 1
  <2>1. PlaceOf(p, i - 1) = "document" /\ PlaceOf(p, i) = p[1]
    BY <1>5 DEF PlaceOf
  <2>2. Len(Way(p, i)) = 1 /\ Way(p, i)[1] = p[1]
    <3>1. Way(p, i) = SubSeq(p, 1, 1)
      BY <1>5 DEF Way
    <3>2. 1 \in 1..(Len(p) + 1) /\ 1 \in (1 - 1)..Len(p)
      BY <1>0
    <3>3. /\ SubSeq(p, 1, 1) \in Seq(Keys) /\ Len(SubSeq(p, 1, 1)) = 1 - 1 + 1
          /\ \A j \in 1..(1 - 1 + 1) : SubSeq(p, 1, 1)[j] = p[1 + j - 1]
      BY <3>2, Part
    <3> QED
      BY <3>1, <3>3
  <2> QED
    BY <1>2, <1>3, <1>5, <2>1, <2>2 DEF Below, Places, ByItsName, Arrays
<1>6. CASE i = 2
  <2>1. PlaceOf(p, i - 1) = p[1] /\ PlaceOf(p, i) = "nested"
    BY <1>6 DEF PlaceOf
  <2> QED
    BY <1>2, <1>4, <1>6, <2>1 DEF Below, Places
<1>7. CASE i > 2
  <2>1. PlaceOf(p, i - 1) = "nested" /\ PlaceOf(p, i) = "nested"
    BY <1>7 DEF PlaceOf
  <2> QED
    BY <1>3, <1>4, <1>7, <2>1 DEF Below, Places
<1> QED
  BY <1>0, <1>5, <1>6, <1>7

\* When the override decides at the end of i steps.
LEMMA DecidesThere ==
  ASSUME NEW p \in Seq(Keys), NEW i \in 1..Len(p)
  PROVE  Decides(Way(p, i)) <=>
           /\ IsNode(At(overlay, Way(p, i)))
           /\ \/ At(overlay, Way(p, i)).tag # "plain" \/ ~IsMap(At(overlay, Way(p, i)))
              \/ PlaceOf(p, i - 1) \in ProviderMaps
<1>1. PlaceOf(p, i - 1) \in ProviderMaps <=> i = 2 /\ p[1] \in ProviderMaps
  BY PlacesOnTheWay
<1>2. 1 \in 1..(Len(p) + 1) /\ i \in (1 - 1)..Len(p) /\ 1 \in 1..(i - 1 + 1) /\ i - 1 + 1 = i
  OBVIOUS
<1>3. /\ SubSeq(p, 1, i) \in Seq(Keys) /\ Len(SubSeq(p, 1, i)) = i - 1 + 1
      /\ \A j \in 1..(i - 1 + 1) : SubSeq(p, 1, i)[j] = p[1 + j - 1]
  BY <1>2, Part
<1>4. Len(Way(p, i)) = i /\ Way(p, i)[1] = p[1]
  BY <1>2, <1>3 DEF Way
<1> QED
  BY <1>1, <1>4 DEF Decides, ProviderMaps

\* One step further, nothing has been decided yet, or the same.
LEMMA FurtherOn ==
  ASSUME NEW p, NEW i \in Nat \ {0}
  PROVE  /\ Undecided(p, i - 1) /\ ~Decides(Way(p, i)) => Undecided(p, i)
         /\ Undecided(p, i - 1) /\ Decides(Way(p, i)) => TopAt(p, i, i)
         /\ \A j : TopAt(p, i - 1, j) => TopAt(p, i, j)
<1>1. \A j \in 0..i : j \in 0..(i - 1) \/ j = i
  OBVIOUS
<1>2. 0..(i - 1) \subseteq 0..i /\ i \in 0..i
  OBVIOUS
<1>3. Undecided(p, i - 1) /\ ~Decides(Way(p, i)) => Undecided(p, i)
  BY <1>1 DEF Undecided
<1>4. Undecided(p, i - 1) /\ Decides(Way(p, i)) => TopAt(p, i, i)
  BY <1>2 DEF Undecided, TopAt
<1>5. \A j : TopAt(p, i - 1, j) => TopAt(p, i, j)
  BY <1>2 DEF TopAt
<1> QED
  BY <1>3, <1>4, <1>5

\* What is rendered, where there is something to render.
LEMMA RenderedStands ==
  ASSUME RenderInv, WellMerged
  PROVE  /\ data \in Standing /\ overlay \in Standing /\ rendered \in Standing
         /\ Mixed(data, overlay, rendered, "document")
<1>0. Depth \in 1..Depth /\ Depth \in 0..Depth
  BY DepthNat
<1>1. IsMap(data) /\ IsMap(overlay) /\ rendered # Missing /\ rendered # Failed /\ rendered = MergeConfig(data, overlay)
  BY DEF WellMerged, Done, RenderInv
<1>2. data \in Configs[Depth] /\ overlay \in Overlays[Depth]
  BY <1>1 DEF RenderInv, IsMap, Missing, Unparsable, Legacy
<1>3. data \in Overlays[Depth]
  BY <1>0, <1>2, ConfigsAreOverlays
<1>4. overlay.tag = "plain"
  BY <1>1, <1>2, MergedMapping
<1>5. rendered = Merge(data, overlay, "document", merge[Depth - 1])
  <2>1. IsNode(overlay) /\ data # Unparsable
    BY <1>0, <1>2, NoNode DEF Configs, Overlays
  <2>2. rendered = MergeNode(data, overlay, "document")
    BY <1>1, <1>4, <2>1 DEF MergeConfig, IsMap, Missing, Legacy
  <2>3. "document" \in Places
    BY DEF Places
  <2> QED
    BY <1>2, <2>2, <2>3, MergeNodeType
<1>6. Mixed(data, overlay, rendered, "document")
  BY <1>0, <1>1, <1>2, <1>4, <1>5 DEF Mixed
<1>7. rendered \in Overlays[Depth]
  <2>1. "document" \in Places
    BY DEF Places
  <2>2. MergeNode(data, overlay, "document") \in Configs[Depth] \cup {Failed}
    BY <1>2, <2>1, MergeNodeType
  <2>3. MergeNode(data, overlay, "document") = rendered
    BY <1>2, <1>5, <2>1, MergeNodeType
  <2> QED
    BY <1>0, <1>1, <2>2, <2>3, ConfigsAreOverlays
<1> QED
  BY <1>2, <1>3, <1>6, <1>7 DEF Standing

\* Another step of a path.
LEMMA WalkedStep ==
  ASSUME RenderInv, WellMerged, NEW p \in Seq(Keys), NEW i \in 1..Len(p), Walked(p, i - 1)
  PROVE  Walked(p, i)
<1> DEFINE k == p[i]
           place == PlaceOf(p, i - 1)
           o == At(overlay, Way(p, i - 1))
           r == At(rendered, Way(p, i - 1))
           b == At(data, Way(p, i - 1))
           o2 == At(overlay, Way(p, i))
           r2 == At(rendered, Way(p, i))
           b2 == At(data, Way(p, i))
<1>0. i \in Nat \ {0} /\ k \in Keys
  OBVIOUS
<1>1. o2 = Get(o, k) /\ r2 = Get(r, k) /\ b2 = Get(b, k)
  <2>1. data \in Standing /\ overlay \in Standing /\ rendered \in Standing
    BY RenderedStands
  <2>2. o2 = Get(o, k)
    BY <2>1, AtStep
  <2>3. r2 = Get(r, k)
    BY <2>1, AtStep
  <2>4. b2 = Get(b, k)
    BY <2>1, AtStep
  <2> QED
    BY <2>2, <2>3, <2>4
<1>2. /\ place \in Places
      /\ PlaceOf(p, i) = Below(place, k)
      /\ PlaceOf(p, i) \in Arrays => i = 1 /\ ByItsName(Way(p, i))
  BY PlacesOnTheWay
<1>3. Decides(Way(p, i)) <=>
        IsNode(o2) /\ (o2.tag # "plain" \/ ~IsMap(o2) \/ place \in ProviderMaps)
  BY DecidesThere
<1>4. /\ Undecided(p, i - 1) /\ ~Decides(Way(p, i)) => Undecided(p, i)
      /\ Undecided(p, i - 1) /\ Decides(Way(p, i)) => TopAt(p, i, i)
      /\ \A j : TopAt(p, i - 1, j) => TopAt(p, i, j)
  BY <1>0, FurtherOn
<1>5. \/ Undecided(p, i - 1) /\ o = Missing /\ r = b
      \/ Undecided(p, i - 1) /\ Mixed(b, o, r, place)
      \/ \E j : TopAt(p, i - 1, j) /\ At(overlay, Way(p, j)).tag = "delete" /\ r = Missing
      \/ \E j : TopAt(p, i - 1, j) /\ At(overlay, Way(p, j)).tag # "delete" /\ Shown(r, o)
      \/ /\ TopAt(p, i - 1, i - 1) /\ ByItsName(Way(p, i - 1)) /\ o.tag = "plain" /\ IsList(o) /\ IsList(r)
  BY DEF Walked
<1> DEFINE decided == At(overlay, Way(p, i - 1))
<1>6. ASSUME NEW x, x = Missing \/ IsList(x)
      PROVE  Get(x, k) = Missing
  BY <1>6 DEF Get, IsMap, IsList, Missing
<1>7. o2 # Missing \/ ~IsNode(o2)
  BY DEF IsNode, Missing
<1> SUFFICES \/ Undecided(p, i) /\ o2 = Missing /\ r2 = b2
             \/ Undecided(p, i) /\ Mixed(b2, o2, r2, PlaceOf(p, i))
             \/ \E j : TopAt(p, i, j) /\ At(overlay, Way(p, j)).tag = "delete" /\ r2 = Missing
             \/ \E j : TopAt(p, i, j) /\ At(overlay, Way(p, j)).tag # "delete" /\ Shown(r2, o2)
             \/ TopAt(p, i, i) /\ ByItsName(Way(p, i)) /\ o2.tag = "plain" /\ IsList(o2) /\ IsList(r2)
  BY DEF Walked
<1>8. CASE Undecided(p, i - 1) /\ o = Missing /\ r = b
  <2>1. o2 = Missing
    BY <1>1, <1>6, <1>8
  <2>2. r2 = b2
    BY <1>1, <1>8
  <2> HIDE DEF o2, r2, b2
  <2> QED
    BY <1>3, <1>4, <1>7, <1>8, <2>1, <2>2
<1>9. CASE Undecided(p, i - 1) /\ Mixed(b, o, r, place)
  <2> HIDE DEF o, r, b, k, place
  <2>1. /\ IsMap(r)
        /\ \/ Get(o, k) = Missing /\ Get(r, k) = Get(b, k)
           \/ IsNode(Get(o, k)) /\ Get(o, k).tag = "delete" /\ Get(r, k) = Missing
           \/ /\ IsNode(Get(o, k)) /\ Get(o, k).tag # "delete" /\ Shown(Get(r, k), Get(o, k))
              /\ Get(o, k).tag # "plain" \/ ~IsMap(Get(o, k)) \/ place \in ProviderMaps
           \/ /\ IsNode(Get(o, k)) /\ Get(o, k).tag = "plain" /\ IsList(Get(o, k)) /\ IsList(Get(r, k))
              /\ Below(place, k) \in Arrays
           \/ place \notin ProviderMaps /\ Mixed(Get(b, k), Get(o, k), Get(r, k), Below(place, k))
    BY <1>0, <1>2, <1>9, MixedBelow
  <2>2. CASE Get(o, k) = Missing /\ Get(r, k) = Get(b, k)
    <3> HIDE DEF o2, r2, b2
    <3> QED
      BY <1>1, <1>3, <1>4, <1>7, <1>9, <2>2
  <2>3. CASE IsNode(Get(o, k)) /\ Get(o, k).tag = "delete" /\ Get(r, k) = Missing
    <3>1. TopAt(p, i, i)
      BY <1>1, <1>3, <1>4, <1>9, <2>3
    <3>2. o2.tag = "delete" /\ r2 = Missing
      BY <1>1, <2>3
    <3> QED
      BY <3>1, <3>2
  <2>4. CASE /\ IsNode(Get(o, k)) /\ Get(o, k).tag # "delete" /\ Shown(Get(r, k), Get(o, k))
             /\ Get(o, k).tag # "plain" \/ ~IsMap(Get(o, k)) \/ place \in ProviderMaps
    <3>1. TopAt(p, i, i)
      BY <1>1, <1>3, <1>4, <1>9, <2>4
    <3>2. o2.tag # "delete" /\ Shown(r2, o2)
      BY <1>1, <2>4
    <3> QED
      BY <3>1, <3>2
  <2>5. CASE /\ IsNode(Get(o, k)) /\ Get(o, k).tag = "plain" /\ IsList(Get(o, k)) /\ IsList(Get(r, k))
             /\ Below(place, k) \in Arrays
    <3>1. ~IsMap(Get(o, k))
      BY <2>5 DEF IsList, IsMap
    <3>2. TopAt(p, i, i)
      BY <1>1, <1>3, <1>4, <1>9, <2>5, <3>1
    <3> QED
      BY <1>1, <1>2, <2>5, <3>2
  <2>6. CASE place \notin ProviderMaps /\ Mixed(Get(b, k), Get(o, k), Get(r, k), Below(place, k))
    <3>1. IsMap(Get(o, k)) /\ Get(o, k).tag = "plain"
      BY <2>6 DEF Mixed
    <3>2. ~Decides(Way(p, i))
      BY <1>1, <1>3, <2>6, <3>1
    <3> QED
      BY <1>1, <1>2, <1>4, <1>9, <2>6, <3>2
  <2> QED
    BY <2>1, <2>2, <2>3, <2>4, <2>5, <2>6
<1>10. CASE \E j : TopAt(p, i - 1, j) /\ At(overlay, Way(p, j)).tag = "delete" /\ r = Missing
  <2>1. PICK j : TopAt(p, i - 1, j) /\ At(overlay, Way(p, j)).tag = "delete" /\ r = Missing
    BY <1>10
  <2>2. r2 = Missing
    BY <1>1, <1>6, <2>1
  <2> QED
    BY <1>4, <2>1, <2>2
<1>11. CASE \E j : TopAt(p, i - 1, j) /\ At(overlay, Way(p, j)).tag # "delete" /\ Shown(r, o)
  <2>1. PICK j : TopAt(p, i - 1, j) /\ At(overlay, Way(p, j)).tag # "delete" /\ Shown(r, o)
    BY <1>11
  <2>2. Shown(r2, o2)
    <3> HIDE DEF r, o, k
    <3> QED
      BY <1>0, <1>1, <2>1, ShownBelow
  <2> QED
    BY <1>4, <2>1, <2>2
<1>12. CASE TopAt(p, i - 1, i - 1) /\ ByItsName(Way(p, i - 1)) /\ o.tag = "plain" /\ IsList(o) /\ IsList(r)
  <2>1. TopAt(p, i, i - 1) /\ At(overlay, Way(p, i - 1)).tag # "delete"
    BY <1>4, <1>12
  <2>2. o2 = Missing /\ r2 = Missing
    BY <1>1, <1>6, <1>12
  <2>3. Shown(r2, o2)
    BY <2>2 DEF Shown
  <2> QED
    BY <2>1, <2>3
<1> QED
  BY <1>5, <1>8, <1>9, <1>10, <1>11, <1>12

\* A value is the override's exactly where the override decides.
THEOREM FieldsAreOnTheRightSide == RenderSpec => []FieldsComeFromTheRightSide
<1>1. ASSUME RenderInv, WellMerged, NEW p \in Seq(Keys)
      PROVE  LET r == At(rendered, p)
                 o == At(overlay, p)
             IN  IF Deciding(p) # {}
                 THEN LET top == SubSeq(p, 1, CHOOSE i \in Deciding(p) : \A j \in Deciding(p) : i <= j)
                      IN  IF At(overlay, top).tag = "delete" THEN r = Missing
                          ELSE Alike(r, o) \/ (ByItsName(p) /\ o.tag = "plain" /\ IsList(o) /\ IsList(r))
                 ELSE IF IsNode(o) THEN IsMap(r) ELSE r = At(data, p)
  <2> DEFINE m == Len(p)
             r == At(rendered, p)
             o == At(overlay, p)
             b == At(data, p)
             S == {i \in 0..m : Walked(p, i)}
  <2>0. m \in Nat /\ m \in 0..m /\ 0 \in 0..m
    OBVIOUS
  <2>1. data \in Standing /\ overlay \in Standing /\ rendered \in Standing
        /\ Mixed(data, overlay, rendered, "document")
    BY <1>1, RenderedStands
  <2>2. /\ Way(p, 0) = <<>> /\ Way(p, m) = p
        /\ At(overlay, Way(p, 0)) = overlay /\ At(data, Way(p, 0)) = data /\ At(rendered, Way(p, 0)) = rendered
    <3>1. At(overlay, Way(p, 0)) = overlay /\ Way(p, 0) = <<>> /\ Way(p, m) = p
      BY <2>1, AtStep
    <3>2. At(data, Way(p, 0)) = data
      BY <2>1, AtStep
    <3>3. At(rendered, Way(p, 0)) = rendered
      BY <2>1, AtStep
    <3> QED
      BY <3>1, <3>2, <3>3
  <2>3. Walked(p, 0)
    <3>1. IsMap(overlay) /\ overlay.tag = "plain"
      BY <2>1 DEF Mixed
    <3>2. Len(Way(p, 0)) = 0
      BY <2>2
    <3>3. ~Decides(Way(p, 0))
      BY <2>2, <3>1, <3>2 DEF Decides
    <3>4. Undecided(p, 0)
      BY <3>3 DEF Undecided
    <3>5. PlaceOf(p, 0) = "document"
      BY DEF PlaceOf
    <3> QED
      BY <2>1, <2>2, <3>4, <3>5 DEF Walked
  <2>4. \A i \in 1..m : i - 1 \in S => i \in S
    <3>1. ASSUME NEW i \in 1..m, Walked(p, i - 1)
          PROVE  Walked(p, i)
      BY <1>1, <3>1, WalkedStep
    <3> QED
      BY <2>0, <3>1
  <2>5. Walked(p, m)
    <3>1. 0 \in S
      BY <2>0, <2>3
    <3> HIDE DEF S, m
    <3>2. 0..m \subseteq S
      BY <2>0, <2>4, <3>1, Climb
    <3> QED
      BY <2>0, <3>2 DEF S
  <2>6. \/ Undecided(p, m) /\ o = Missing /\ r = b
        \/ Undecided(p, m) /\ Mixed(b, o, r, PlaceOf(p, m))
        \/ \E j : TopAt(p, m, j) /\ At(overlay, Way(p, j)).tag = "delete" /\ r = Missing
        \/ \E j : TopAt(p, m, j) /\ At(overlay, Way(p, j)).tag # "delete" /\ Shown(r, o)
        \/ TopAt(p, m, m) /\ ByItsName(p) /\ o.tag = "plain" /\ IsList(o) /\ IsList(r)
    BY <2>2, <2>5 DEF Walked
  <2> DEFINE first == CHOOSE i \in Deciding(p) : \A j \in Deciding(p) : i <= j
  <2>7. ASSUME Undecided(p, m)
        PROVE  Deciding(p) = {}
    BY <2>7 DEF Undecided, Deciding, Way
  <2>8. ASSUME NEW j, TopAt(p, m, j)
        PROVE  Deciding(p) # {} /\ SubSeq(p, 1, first) = Way(p, j)
    <3>1. j \in Deciding(p)
      BY <2>8 DEF TopAt, Deciding, Way
    <3>2. ASSUME NEW i \in Deciding(p), i < j
          PROVE  FALSE
      <4>1. i \in 0..(j - 1) /\ Decides(Way(p, i))
        BY <2>0, <2>8, <3>2 DEF TopAt, Deciding, Way
      <4> QED
        BY <2>8, <4>1 DEF TopAt
    <3>3. \A i \in Deciding(p) : i \in Int
      BY <2>0 DEF Deciding
    <3> HIDE DEF m
    <3>4. \A i \in Deciding(p) : j <= i
      BY <3>1, <3>2, <3>3
    <3>5. first \in Deciding(p) /\ \A i \in Deciding(p) : first <= i
      BY <3>1, <3>4
    <3> HIDE DEF first
    <3>6. first = j
      BY <3>1, <3>3, <3>4, <3>5
    <3> QED
      BY <3>1, <3>6 DEF Way
  <2> HIDE DEF o, r, b, m, first
  <2>9. ASSUME NEW place, Mixed(b, o, r, place)
        PROVE  IsNode(o) /\ IsMap(r)
    <3>1. IsNode(o)
      BY <2>9 DEF Mixed, IsNode, IsMap
    <3>2. PICK e \in 1..Depth : /\ b \in Configs[e] \cup {Missing} /\ o \in Overlays[e] /\ IsMap(o) /\ o.tag = "plain"
                                /\ r = Merge(b, o, place, merge[e - 1]) /\ r # Failed
      BY <2>9 DEF Mixed
    <3> DEFINE bm == IF IsMap(b) THEN b ELSE Mapping(<<>>)
               below == merge[e - 1]
    <3>3. r = Merge(b, o, place, below)
      BY <3>2
    <3> HIDE DEF below
    <3>4. r = MergeMapping(bm, o, place, below)
      BY <3>2, <3>3, MergeOfMaps
    <3> HIDE DEF bm
    <3>5. IsMap(r)
      BY <3>2, <3>4 DEF MergeMapping, Map, IsMap
    <3> QED
      BY <3>1, <3>5
  <2>10. CASE Undecided(p, m) /\ o = Missing /\ r = b
    <3>1. ~IsNode(o)
      BY <2>10 DEF IsNode, Missing
    <3> QED
      BY <2>7, <2>10, <3>1 DEF o, r, b
  <2>11. CASE Undecided(p, m) /\ Mixed(b, o, r, PlaceOf(p, m))
    BY <2>7, <2>9, <2>11 DEF o, r
  <2>12. CASE \E j : TopAt(p, m, j) /\ At(overlay, Way(p, j)).tag = "delete" /\ r = Missing
    BY <2>8, <2>12 DEF first, r
  <2>13. CASE \E j : TopAt(p, m, j) /\ At(overlay, Way(p, j)).tag # "delete" /\ Shown(r, o)
    <3>1. Alike(r, o)
      BY <2>13, ShownAlike
    <3> QED
      BY <2>8, <2>13, <3>1 DEF first, r, o
  <2>14. CASE TopAt(p, m, m) /\ ByItsName(p) /\ o.tag = "plain" /\ IsList(o) /\ IsList(r)
    <3>1. At(overlay, Way(p, m)).tag # "delete"
      BY <2>2, <2>14 DEF o, m
    <3> QED
      BY <2>8, <2>14, <3>1 DEF first, r, o
  <2> QED
    BY <2>6, <2>10, <2>11, <2>12, <2>13, <2>14
<1>2. RenderInv => FieldsComeFromTheRightSide
  <2>1. Paths(data) \cup Paths(overlay) \cup Paths(rendered) \subseteq Seq(Keys)
    BY PathsAreKeys
  <2> QED
    BY <1>1, <2>1 DEF FieldsComeFromTheRightSide
<1> QED
  BY <1>2, RenderInvariant, PTL
-------------------------------------------------------------------------------
\* What an item of a list is called by a deletion.
Called(f, x, v) == IF f = "rules" THEN IsRule(x, v) ELSE Named(x, v)

\* The items p of the overlay make no mistake, merged with the list old of field f.
RightDeletion(f, old, p, x) ==
  /\ IsScalar(x) /\ x.value # Blank
  /\ \E y \in ItemsOf(old) : Called(f, y, x.value)
  /\ \A y \in ItemsOf(Additions(p)) : ~Called(f, y, x.value)

Once(p) == \A i, j \in DOMAIN p : p[i].tag = "delete" /\ j # i => p[j] # p[i]

Sound(f, old, p) ==
  /\ \A x \in ItemsOf(p) : x.tag = "delete" => RightDeletion(f, old, p, x)
  /\ Once(p)
  /\ \A x \in ItemsOf(Additions(p)) : Stripped(x) # Failed
  /\ f # "rules" => ~Twice(Additions(p)) /\ \A x \in ItemsOf(Additions(p)) : HasName(x)

\* That is what ArrayMistake says.
LEMMA SoundIs ==
  ASSUME NEW f
  PROVE  ArrayMistake(f) <=> ~Sound(f, Items(data, f), Items(overlay, f))
<1> DEFINE old == Items(data, f)
           new == Items(overlay, f)
           Wrong(x) == \/ ~IsScalar(x) \/ x.value = Blank
                       \/ ~\E y \in ItemsOf(old) : Called(f, y, x.value)
                       \/ \E y \in ItemsOf(Additions(new)) : Called(f, y, x.value)
           Again(i) == \E j \in DOMAIN new \ {i} : new[j] = new[i]
<1>1. ArrayMistake(f) <=>
        \/ f # "rules" /\ (Twice(Additions(new)) \/ \E x \in ItemsOf(Additions(new)) : ~HasName(x))
        \/ \E x \in ItemsOf(Additions(new)) : Stripped(x) = Failed
        \/ \E i \in DOMAIN new : new[i].tag = "delete" /\ (Wrong(new[i]) \/ Again(i))
  BY DEF ArrayMistake, Called
<1>2. \A x : Wrong(x) <=> ~RightDeletion(f, old, new, x)
  BY DEF RightDeletion
<1> HIDE DEF Wrong, old, new
<1>3. ItemsOf(new) = {new[i] : i \in DOMAIN new}
  BY DEF ItemsOf
<1>4. (\E i \in DOMAIN new : new[i].tag = "delete" /\ Again(i)) <=> ~Once(new)
  BY DEF Once
<1> HIDE DEF Again
<1> QED
  BY <1>1, <1>2, <1>3, <1>4 DEF Sound, old, new

\* What a further item must be.
Fits(f, old, p, x) ==
  IF x.tag = "delete" THEN RightDeletion(f, old, p, x) /\ x \notin ItemsOf(p)
  ELSE /\ Stripped(x) # Failed
       /\ \A y \in ItemsOf(p) : y.tag = "delete" => ~Called(f, x, y.value)
       /\ f # "rules" => HasName(x) /\ Name(x) \notin Mine(p)

\* The names are different, with one item more.
LEMMA AppendTwice ==
  ASSUME NEW X, NEW s \in Seq(X), NEW x \in X, \A y \in ItemsOf(s) : HasName(y), HasName(x)
  PROVE  Twice(Append(s, x)) <=> Twice(s) \/ \E y \in ItemsOf(s) : Name(y) = Name(x)
<1> DEFINE r == Append(s, x)
           m == Len(s)
<1>1. /\ r \in Seq(X) /\ Len(r) = m + 1
      /\ \A j \in 1..m : r[j] = s[j]
      /\ r[m + 1] = x
  OBVIOUS
<1>2. DOMAIN s = 1..m /\ DOMAIN r = 1..(m + 1) /\ m \in Nat
  BY <1>1
<1>3. \A i \in 1..m : HasName(s[i])
  BY <1>2 DEF ItemsOf
<1> HIDE DEF r
<1>4. Twice(r) <=> \E i, j \in 1..(m + 1) : i < j /\ Name(r[i]) = Name(r[j])
  <2>1. \A i \in 1..(m + 1) : HasName(r[i])
    <3>1. \A i \in 1..(m + 1) : i \in 1..m \/ i = m + 1
      BY <1>2
    <3> QED
      BY <1>1, <1>3, <3>1
  <2> QED
    BY <1>2, <2>1 DEF Twice
<1>5. Twice(s) <=> \E i, j \in 1..m : i < j /\ Name(s[i]) = Name(s[j])
  BY <1>2, <1>3 DEF Twice
<1>6. (\E y \in ItemsOf(s) : Name(y) = Name(x)) <=> \E i \in 1..m : Name(s[i]) = Name(x)
  BY <1>2 DEF ItemsOf
<1>7. ASSUME NEW i \in 1..(m + 1), NEW j \in 1..(m + 1), i < j, Name(r[i]) = Name(r[j])
      PROVE  Twice(s) \/ \E y \in ItemsOf(s) : Name(y) = Name(x)
  <2>1. i \in 1..m
    BY <1>2, <1>7
  <2>2. CASE j \in 1..m
    BY <1>1, <1>5, <1>7, <2>1, <2>2
  <2>3. CASE j = m + 1
    <3>1. Name(s[i]) = Name(x)
      BY <1>1, <1>7, <2>1, <2>3
    <3> QED
      BY <1>6, <2>1, <3>1
  <2>4. j \in 1..m \/ j = m + 1
    BY <1>2
  <2> QED
    BY <2>2, <2>3, <2>4
<1>8. ASSUME Twice(s)
      PROVE  Twice(r)
  <2>1. PICK i \in 1..m, j \in 1..m : i < j /\ Name(s[i]) = Name(s[j])
    BY <1>5, <1>8
  <2>2. i \in 1..(m + 1) /\ j \in 1..(m + 1) /\ Name(r[i]) = Name(r[j])
    BY <1>1, <1>2, <2>1
  <2> QED
    BY <1>4, <2>1, <2>2
<1>9. ASSUME \E y \in ItemsOf(s) : Name(y) = Name(x)
      PROVE  Twice(r)
  <2>1. PICK i \in 1..m : Name(s[i]) = Name(x)
    BY <1>6, <1>9
  <2>2. i \in 1..(m + 1) /\ m + 1 \in 1..(m + 1) /\ i < m + 1 /\ Name(r[i]) = Name(r[m + 1])
    BY <1>1, <1>2, <2>1
  <2> QED
    BY <1>4, <2>2
<1> QED
  BY <1>4, <1>7, <1>8, <1>9 DEF r

\* No deletion occurs twice, with one item more.
LEMMA AppendOnce ==
  ASSUME NEW X, NEW s \in Seq(X), NEW x \in X
  PROVE  Once(Append(s, x)) <=> Once(s) /\ (x.tag = "delete" => x \notin ItemsOf(s))
<1> DEFINE r == Append(s, x)
           m == Len(s)
<1>1. /\ r \in Seq(X) /\ Len(r) = m + 1
      /\ \A j \in 1..m : r[j] = s[j]
      /\ r[m + 1] = x
  OBVIOUS
<1>2. DOMAIN s = 1..m /\ DOMAIN r = 1..(m + 1) /\ m \in Nat
  BY <1>1
<1>3. \A i \in 1..(m + 1) : i \in 1..m \/ i = m + 1
  BY <1>2
<1>4. \A i \in 1..m : i \in 1..(m + 1) /\ i # m + 1
  BY <1>2
<1>5. m + 1 \in 1..(m + 1)
  BY <1>2
<1> HIDE DEF r
<1>6. x \in ItemsOf(s) <=> \E i \in 1..m : s[i] = x
  BY <1>2 DEF ItemsOf
<1>7. ASSUME Once(r)
      PROVE  Once(s) /\ (x.tag = "delete" => x \notin ItemsOf(s))
  <2>1. Once(s)
    BY <1>1, <1>2, <1>4, <1>7 DEF Once
  <2>2. ASSUME NEW i \in 1..m, s[i] = x, x.tag = "delete"
        PROVE  FALSE
    BY <1>1, <1>2, <1>4, <1>5, <1>7, <2>2 DEF Once
  <2> QED
    BY <1>6, <2>1, <2>2
<1>8. ASSUME Once(s), x.tag = "delete" => x \notin ItemsOf(s)
      PROVE  Once(r)
  <2>1. ASSUME NEW i \in 1..(m + 1), NEW j \in 1..(m + 1), r[i].tag = "delete", j # i, r[j] = r[i]
        PROVE  FALSE
    <3>1. CASE i \in 1..m /\ j \in 1..m
      BY <1>1, <1>2, <1>8, <2>1, <3>1 DEF Once
    <3>2. CASE i = m + 1 /\ j \in 1..m
      BY <1>1, <1>6, <1>8, <2>1, <3>2
    <3>3. CASE i \in 1..m /\ j = m + 1
      BY <1>1, <1>6, <1>8, <2>1, <3>3
    <3> QED
      BY <1>3, <2>1, <3>1, <3>2, <3>3
  <2> QED
    BY <1>2, <2>1 DEF Once
<1> QED
  BY <1>7, <1>8 DEF r

\* One item more makes no mistake when it fits.
LEMMA SoundStep ==
  ASSUME NEW f, NEW old, NEW X, NEW p \in Seq(X), NEW x \in X
  PROVE  Sound(f, old, Append(p, x)) <=> Sound(f, old, p) /\ Fits(f, old, p, x)
<1> DEFINE q == Append(p, x)
           a == Additions(p)
<1>1. ItemsOf(q) = ItemsOf(p) \cup {x}
  BY AppendItems
<1>2. Additions(q) = IF x.tag = "delete" THEN a ELSE Append(a, x)
  BY AppendAdditions, Zenon
<1>3. Once(q) <=> Once(p) /\ (x.tag = "delete" => x \notin ItemsOf(p))
  BY AppendOnce
<1>4. a \in Seq(X)
  BY WithoutItems DEF Additions
<1> HIDE DEF q, a
<1>5. ItemsOf(Append(a, x)) = ItemsOf(a) \cup {x}
  BY <1>4, AppendItems
<1>6. CASE x.tag = "delete"
  <2>1. \A y : RightDeletion(f, old, q, y) <=> RightDeletion(f, old, p, y)
    BY <1>2, <1>6 DEF RightDeletion, a
  <2>2. Additions(q) = Additions(p)
    BY <1>2, <1>6 DEF a
  <2>3. Fits(f, old, p, x) <=> RightDeletion(f, old, p, x) /\ x \notin ItemsOf(p)
    BY <1>6 DEF Fits
  <2>4. (\A y \in ItemsOf(q) : y.tag = "delete" => RightDeletion(f, old, q, y)) <=>
          /\ \A y \in ItemsOf(p) : y.tag = "delete" => RightDeletion(f, old, p, y)
          /\ RightDeletion(f, old, p, x)
    BY <1>1, <1>6, <2>1
  <2> HIDE DEF q
  <2> QED
    BY <1>3, <1>6, <2>2, <2>3, <2>4 DEF Sound, q
<1>7. CASE x.tag # "delete"
  <2>1. Additions(q) = Append(a, x) /\ ItemsOf(Additions(q)) = ItemsOf(a) \cup {x}
    BY <1>2, <1>5, <1>7
  <2>2. \A y : RightDeletion(f, old, q, y) <=> RightDeletion(f, old, p, y) /\ ~Called(f, x, y.value)
    BY <2>1 DEF RightDeletion, a
  <2>3. (\A y \in ItemsOf(q) : y.tag = "delete" => RightDeletion(f, old, q, y)) <=>
          /\ \A y \in ItemsOf(p) : y.tag = "delete" => RightDeletion(f, old, p, y)
          /\ \A y \in ItemsOf(p) : y.tag = "delete" => ~Called(f, x, y.value)
    BY <1>1, <1>7, <2>2
  <2>4. (\A y \in ItemsOf(Additions(q)) : Stripped(y) # Failed) <=>
          (\A y \in ItemsOf(a) : Stripped(y) # Failed) /\ Stripped(x) # Failed
    BY <2>1
  <2>5. (\A y \in ItemsOf(Additions(q)) : HasName(y)) <=> (\A y \in ItemsOf(a) : HasName(y)) /\ HasName(x)
    BY <2>1
  <2>6. ASSUME \A y \in ItemsOf(a) : HasName(y), HasName(x)
        PROVE  Twice(Additions(q)) <=> Twice(a) \/ Name(x) \in Mine(p)
    <3>1. Twice(Append(a, x)) <=> Twice(a) \/ \E y \in ItemsOf(a) : Name(y) = Name(x)
      BY <1>4, <2>6, AppendTwice
    <3> QED
      BY <2>1, <3>1 DEF Mine, a
  <2>7. Fits(f, old, p, x) <=>
          /\ Stripped(x) # Failed
          /\ \A y \in ItemsOf(p) : y.tag = "delete" => ~Called(f, x, y.value)
          /\ f # "rules" => HasName(x) /\ Name(x) \notin Mine(p)
    BY <1>7 DEF Fits
  <2>8. Once(q) <=> Once(p)
    BY <1>3, <1>7
  <2> QED
    BY <2>3, <2>4, <2>5, <2>6, <2>7, <2>8 DEF Sound, q, a
<1> QED
  BY <1>6, <1>7 DEF q

\* Nothing is a mistake yet.
LEMMA SoundEmpty ==
  ASSUME NEW f, NEW old
  PROVE  Sound(f, old, <<>>)
<1>1. ItemsOf(<<>>) = {} /\ DOMAIN <<>> = {}
  BY DEF ItemsOf
<1>2. Additions(<<>>) = <<>>
  BY WithoutEmpty DEF Additions
<1>3. Once(<<>>) /\ ~Twice(<<>>)
  BY <1>1 DEF Once, Twice
<1> QED
  BY <1>1, <1>2, <1>3 DEF Sound

\* A deleted name is not in the merged list.
LEMMA NamedGone ==
  ASSUME NEW e \in 0..Depth, NEW old \in Seq(Configs[e]), NEW p \in Seq(Overlays[e]), Accepted(p),
         NEW last, Finds(1..Len(old), Configs[e], last), SameNames(old, last),
         NEW name, name \notin Mine(p), name \in Deletions(p)
  PROVE  ItemsNamed(NamesMerged(old, p, last), name) = {}
<1> DEFINE X == 1..Len(old)
           w == Without(Numbers(Len(old)), Dropped(old, p))
           a == Mapped(last, w)
           b == Final(Fresh(old, p))
<1>0. Len(old) \in Nat /\ DOMAIN old = X
  OBVIOUS
<1>1. w \in Seq(X) /\ ItemsOf(w) = X \ Dropped(old, p)
  BY <1>0, NumbersLeft
<1>2. b \in Seq(Configs[e]) /\ NoneNamed(b, name)
  BY FreshIs
<1> HIDE DEF w, X
<1>3. a \in Seq(Configs[e]) /\ ItemsOf(a) = {last[x] : x \in ItemsOf(w)}
  <2>1. a \in Seq(Configs[e])
    BY <1>1, MappedIs DEF X
  <2>2. ItemsOf(a) = {last[x] : x \in ItemsOf(w)}
    BY <1>1, MappedItems DEF X
  <2> QED
    BY <2>1, <2>2
<1> HIDE DEF a, b
<1>4. ItemsOf(a \o b) = ItemsOf(a) \cup ItemsOf(b)
  BY <1>2, <1>3, ConcatItems
<1>5. \A x \in ItemsOf(b) : ~Named(x, name)
  BY <1>2 DEF NoneNamed, ItemsOf
<1>6. ASSUME NEW x \in ItemsOf(a), Named(x, name)
      PROVE  FALSE
  <2>1. PICK i \in ItemsOf(w) : x = last[i]
    BY <1>3
  <2>2. i \in X /\ i \notin Dropped(old, p)
    BY <1>1
  <2>3. Named(old[i], name)
    BY <1>0, <1>6, <2>1, <2>2 DEF SameNames
  <2>4. HasName(old[i]) /\ Name(old[i]) \in Deletions(p)
    BY <2>3 DEF Named
  <2> QED
    BY <1>0, <2>2, <2>4 DEF Dropped
<1>7. ItemsNamed(a \o b, name) = {}
  BY <1>4, <1>5, <1>6 DEF ItemsNamed
<1> QED
  BY <1>7 DEF NamesMerged, Listed, a, b, w

\* A scalar of the override.
LEMMA ScalarIs ==
  ASSUME NEW e \in 1..Depth, NEW x \in Overlays[e], IsScalar(x)
  PROVE  x = [kind |-> "scalar", tag |-> x.tag, value |-> x.value]
<1> DEFINE tags == Tags
           flaws == Flaws
<1>1. x \in Documents(tags, flaws)[e]
  BY DEF Overlays
<1> HIDE DEF tags, flaws
<1>2. IsScalar(x) => x = [kind |-> "scalar", tag |-> x.tag, value |-> x.value] /\ x.value \in Texts
  BY <1>1, Shape, Zenon
<1> QED
  BY <1>2

\* Deletions of the same text are the same.
LEMMA SameDeletion ==
  ASSUME NEW e \in 0..Depth, NEW p \in Seq(Overlays[e]), NEW x \in Overlays[e], x.tag = "delete", IsScalar(x),
         NEW f, NEW old, Sound(f, old, p)
  PROVE  x \in ItemsOf(p) <=> x.value \in Deletions(p)
<1>1. e \in 1..Depth
  BY NameType
<1>2. ASSUME NEW y \in ItemsOf(p), y.tag = "delete", y.value = x.value
      PROVE  y = x
  <2>1. y \in Overlays[e]
    BY DEF ItemsOf
  <2>2. IsScalar(y)
    BY <1>2 DEF Sound, RightDeletion
  <2>3. x = [kind |-> "scalar", tag |-> x.tag, value |-> x.value]
    BY <1>1, ScalarIs
  <2>4. y = [kind |-> "scalar", tag |-> y.tag, value |-> y.value]
    BY <1>1, <2>1, <2>2, ScalarIs
  <2> QED
    BY <1>2, <2>3, <2>4
<1> QED
  BY <1>2 DEF Deletions

\* An item is taken into an array exactly when it fits.
LEMMA IdentityFits ==
  ASSUME NEW e \in 0..Depth, NEW old \in Seq(Configs[e]), NEW p \in Seq(Overlays[e]), NEW item \in Overlays[e],
         NEW acc \in States(Configs[e], AllTextsOf), MergedSoFar(e, old, p, acc), acc.ok,
         NEW f, f # "rules", Sound(f, old, p)
  PROVE  IdentityItem(acc, item).ok <=> Fits(f, old, p, item)
<1>1. /\ acc.ok \in BOOLEAN
      /\ acc = [list |-> acc.list, deleted |-> acc.deleted, added |-> acc.added,
                more |-> acc.more, ok |-> acc.ok]
  BY DEF States
<1>2. Reject(acc).ok = FALSE
  BY <1>1 DEF Reject
<1>3. acc.added = Mine(p) /\ acc.deleted = Deletions(p) /\ Accepted(p)
  BY DEF MergedSoFar
<1>4. PICK last : /\ Finds(1..Len(old), Configs[e], last) /\ SameNames(old, last)
                  /\ Follows(old, p, last) /\ acc.list = NamesMerged(old, p, last)
  BY DEF MergedSoFar
<1>5. \A v : (\E y \in ItemsOf(Additions(p)) : Named(y, v)) <=> v \in Mine(p)
  BY <1>3 DEF Accepted, Mine, Named
<1>6. \A y, v : Called(f, y, v) <=> Named(y, v)
  BY DEF Called
<1>7. CASE item.tag = "delete"
  <2> DEFINE v == item.value
             G == ItemsNamed(acc.list, v)
             fine == IsScalar(item) /\ v # Blank /\ v \notin acc.added /\ G # {}
  <2>1. IdentityItem(acc, item) = IF fine
                                  THEN [acc EXCEPT !.list = Without(@, G), !.deleted = @ \cup {v}]
                                  ELSE Reject(acc)
    BY <1>7 DEF IdentityItem
  <2> HIDE DEF G, fine
  <2>2. [acc EXCEPT !.list = Without(@, G), !.deleted = @ \cup {v}].ok = acc.ok
    BY <1>1
  <2>3. IdentityItem(acc, item).ok <=> fine
    BY <1>2, <2>1, <2>2
  <2>4. ItemsNamed(old, v) # {} <=> \E y \in ItemsOf(old) : Named(y, v)
    BY DEF ItemsNamed
  <2>5. ASSUME IsScalar(item), v \notin Mine(p)
        PROVE  G # {} <=> item \notin ItemsOf(p) /\ ItemsNamed(old, v) # {}
    <3>1. item \in ItemsOf(p) <=> v \in Deletions(p)
      BY <1>7, <2>5, SameDeletion
    <3>2. CASE v \in Deletions(p)
      <4>1. ItemsNamed(NamesMerged(old, p, last), v) = {}
        BY <1>3, <1>4, <2>5, <3>2, NamedGone
      <4> QED
        BY <1>4, <3>1, <3>2, <4>1 DEF G
    <3>3. CASE v \notin Deletions(p)
      <4>1. ItemsNamed(NamesMerged(old, p, last), v) = {} <=> ItemsNamed(old, v) = {}
        BY <1>3, <1>4, <2>5, <3>3, NamedLeft
      <4> QED
        BY <1>4, <3>1, <3>3, <4>1 DEF G
    <3> QED
      BY <3>2, <3>3
  <2>6. RightDeletion(f, old, p, item) <=>
          IsScalar(item) /\ v # Blank /\ ItemsNamed(old, v) # {} /\ v \notin Mine(p)
    BY <1>5, <1>6, <2>4 DEF RightDeletion
  <2>7. Fits(f, old, p, item) <=> RightDeletion(f, old, p, item) /\ item \notin ItemsOf(p)
    BY <1>7 DEF Fits
  <2> QED
    BY <1>3, <2>3, <2>5, <2>6, <2>7 DEF fine
<1>8. CASE item.tag # "delete"
  <2> DEFINE name == Name(item)
             new == Stripped(item)
             fine == HasName(item) /\ name \notin acc.deleted \cup acc.added /\ new # Failed
  <2>1. IdentityItem(acc, item) = IF fine
                                  THEN [acc EXCEPT !.list = ReplaceNamed(@, name, new), !.added = @ \cup {name}]
                                  ELSE Reject(acc)
    BY <1>8 DEF IdentityItem
  <2> HIDE DEF name, new, fine
  <2>2. [acc EXCEPT !.list = ReplaceNamed(@, name, new), !.added = @ \cup {name}].ok = acc.ok
    BY <1>1
  <2>3. IdentityItem(acc, item).ok <=> fine
    BY <1>2, <2>1, <2>2
  <2>4. HasName(item) => ((\A y \in ItemsOf(p) : y.tag = "delete" => ~Called(f, item, y.value))
                            <=> name \notin Deletions(p))
    BY <1>6 DEF Named, Deletions, name
  <2>5. Fits(f, old, p, item) <=>
          /\ Stripped(item) # Failed
          /\ \A y \in ItemsOf(p) : y.tag = "delete" => ~Called(f, item, y.value)
          /\ HasName(item) /\ Name(item) \notin Mine(p)
    BY <1>8 DEF Fits
  <2> QED
    BY <1>3, <2>3, <2>4, <2>5 DEF fine, name, new
<1> QED
  BY <1>7, <1>8

\* An array merged by name fails exactly when the overlay's items make a mistake.
LEMMA NamesFail ==
  ASSUME NEW e \in 0..Depth, NEW b, b.items \in Seq(Configs[e]), NEW o, o.items \in Seq(Overlays[e]),
         NEW f, f # "rules"
  PROVE  MergeIdentityArray(b, o) = Failed <=> ~Sound(f, b.items, o.items)
<1> DEFINE old == b.items
           new == o.items
           P(i) == SubSeq(new, 1, i)
           St == States(Configs[e], AllTextsOf)
<1>0. Len(new) \in Nat /\ Len(new) \in 0..Len(new) /\ 0 \in 0..Len(new)
  OBVIOUS
<1>1. PICK acc \in [0..Len(new) -> St] :
        /\ acc[0] = Start(old)
        /\ \A i \in 1..Len(new) :
             acc[i] = IF acc[i - 1].ok THEN IdentityItem(acc[i - 1], new[i]) ELSE acc[i - 1]
        /\ MergeIdentityArray(b, o) = IF acc[Len(new)].ok THEN List(acc[Len(new)].list) ELSE Failed
  BY IdentityFold
<1> DEFINE S == {i \in 0..Len(new) : /\ acc[i].ok <=> Sound(f, old, P(i))
                                     /\ acc[i].ok => MergedSoFar(e, old, P(i), acc[i])}
<1>2. 0 \in S
  <2>1. P(0) = <<>>
    BY Prefix
  <2>2. acc[0].ok
    BY <1>1 DEF Start
  <2>3. Sound(f, old, <<>>)
    BY SoundEmpty
  <2>4. MergedSoFar(e, old, <<>>, acc[0])
    <3>1. old \in Seq(Configs[e])
      OBVIOUS
    <3> HIDE DEF old
    <3> QED
      BY <1>1, <3>1, NothingMerged
  <2> HIDE DEF P, old
  <2> QED
    BY <1>0, <2>1, <2>2, <2>3, <2>4
<1>3. ASSUME NEW i \in 1..Len(new), i - 1 \in S
      PROVE  i \in S
  <2> DEFINE p == P(i - 1)
             item == new[i]
             t == acc[i - 1]
  <2>1. P(i) = Append(p, item) /\ i \in 0..Len(new) /\ i - 1 \in 0..Len(new)
    BY Prefix
  <2>2. p \in Seq(Overlays[e])
    BY Prefix
  <2>3. item \in Overlays[e]
    BY Prefix
  <2>4. t \in St
    BY <1>1, <2>1
  <2>5. (t.ok <=> Sound(f, old, p)) /\ (t.ok => MergedSoFar(e, old, p, t))
    BY <1>3
  <2>6. acc[i] = IF t.ok THEN IdentityItem(t, item) ELSE t
    BY <1>1
  <2>7. old \in Seq(Configs[e])
    OBVIOUS
  <2> HIDE DEF old, new, P, p, item, t, St
  <2>8. Sound(f, old, Append(p, item)) <=> Sound(f, old, p) /\ Fits(f, old, p, item)
    BY <2>2, <2>3, SoundStep
  <2>9. ASSUME t.ok
        PROVE  IdentityItem(t, item).ok <=> Fits(f, old, p, item)
    BY <2>2, <2>3, <2>4, <2>5, <2>7, <2>9, IdentityFits DEF St
  <2>10. ASSUME t.ok, IdentityItem(t, item).ok
        PROVE  MergedSoFar(e, old, Append(p, item), IdentityItem(t, item))
    BY <2>2, <2>3, <2>4, <2>5, <2>7, <2>10, ArrayStep DEF St
  <2> QED
    BY <2>1, <2>5, <2>6, <2>8, <2>9, <2>10
<1>4. 0..Len(new) \subseteq S
  <2> HIDE DEF S
  <2> QED
    BY <1>0, <1>2, <1>3, Climb
<1>5. P(Len(new)) = new
  BY Prefix
<1>6. Len(new) \in S
  <2> HIDE DEF S
  <2> QED
    BY <1>0, <1>4
<1>7. acc[Len(new)].ok <=> Sound(f, old, new)
  <2> HIDE DEF P, old, new
  <2> QED
    BY <1>5, <1>6
<1>8. MergeIdentityArray(b, o) = Failed <=> ~acc[Len(new)].ok
  BY <1>1 DEF List, Failed
<1> QED
  BY <1>7, <1>8

\* What the scalars among the additions say.
Said(p) == {x.value : x \in {y \in ItemsOf(Additions(p)) : IsScalar(y)}}

\* A rule is taken exactly when it fits, and its text is remembered.
LEMMA RuleFits ==
  ASSUME NEW e \in 0..Depth, NEW old \in Seq(Configs[e]), NEW p \in Seq(Overlays[e]), NEW item \in Overlays[e],
         NEW acc \in States(Configs[e], AllTextsOf), acc.ok, Sound("rules", old, p),
         acc.list = Left(old, p), acc.deleted = Deletions(p), acc.added = Said(p)
  PROVE  /\ RuleItem(acc, item).ok <=> Fits("rules", old, p, item)
         /\ RuleItem(acc, item).ok => /\ RuleItem(acc, item).list = Left(old, Append(p, item))
                                      /\ RuleItem(acc, item).deleted = Deletions(Append(p, item))
                                      /\ RuleItem(acc, item).added = Said(Append(p, item))
<1> DEFINE q == Append(p, item)
<1>1. /\ acc.ok \in BOOLEAN
      /\ acc = [list |-> acc.list, deleted |-> acc.deleted, added |-> acc.added,
                more |-> acc.more, ok |-> acc.ok]
  BY DEF States
<1>2. Reject(acc).ok = FALSE
  BY <1>1 DEF Reject
<1>3. \A y, v : Called("rules", y, v) <=> IsScalar(y) /\ y.value = v
  BY DEF Called, IsRule
<1>4. \A v : (\E y \in ItemsOf(Additions(p)) : Called("rules", y, v)) <=> v \in Said(p)
  BY <1>3 DEF Said
<1>5. Additions(q) = IF item.tag = "delete" THEN Additions(p) ELSE Append(Additions(p), item)
  BY AppendAdditions, Zenon
<1>6. Deletions(q) = IF item.tag = "delete" THEN Deletions(p) \cup {item.value} ELSE Deletions(p)
  BY AppendDeletions, Zenon
<1>7. Additions(p) \in Seq(Overlays[e])
  BY WithoutItems DEF Additions
<1> HIDE DEF q
<1>8. CASE item.tag = "delete"
  <2> DEFINE v == item.value
             A == {x \in ItemsOf(old) : IsScalar(x) /\ x.value \in Deletions(p)}
             C == {x \in ItemsOf(old) : IsScalar(x) /\ x.value \in Deletions(q)}
             B == RulesOf(acc.list, v)
             fine == IsScalar(item) /\ v # Blank /\ v \notin acc.added /\ B # {}
  <2>1. RuleItem(acc, item) = IF fine
                              THEN [acc EXCEPT !.list = Without(@, B), !.deleted = @ \cup {v}]
                              ELSE Reject(acc)
    BY <1>8 DEF RuleItem
  <2>2. acc.list = Without(old, A) /\ Left(old, q) = Without(old, C)
    BY DEF Left
  <2>3. ItemsOf(acc.list) = ItemsOf(old) \ A
    <3> HIDE DEF A
    <3> QED
      BY <2>2, WithoutItems
  <2>4. B = {x \in ItemsOf(acc.list) : IsScalar(x) /\ x.value = v}
    BY DEF RulesOf, IsRule
  <2>5. A \cup B = C
    BY <1>6, <1>8, <2>3, <2>4
  <2>6. ASSUME IsScalar(item)
        PROVE  B # {} <=> item \notin ItemsOf(p) /\ \E y \in ItemsOf(old) : Called("rules", y, v)
    <3>1. item \in ItemsOf(p) <=> v \in Deletions(p)
      BY <1>8, <2>6, SameDeletion
    <3> QED
      BY <1>3, <2>3, <2>4, <3>1
  <2> HIDE DEF A, B, C
  <2>7. Without(Without(old, A), B) = Without(old, C)
    <3>1. old \in Seq(Configs[e])
      OBVIOUS
    <3>2. C = A \cup B
      BY <2>5
    <3> QED
      BY <3>1, <3>2, WithoutBoth
  <2>8. Fits("rules", old, p, item) <=>
          /\ IsScalar(item) /\ v # Blank /\ v \notin Said(p)
          /\ item \notin ItemsOf(p) /\ \E y \in ItemsOf(old) : Called("rules", y, v)
    BY <1>4, <1>8 DEF Fits, RightDeletion
  <2>9. fine <=> Fits("rules", old, p, item)
    BY <2>6, <2>8
  <2> HIDE DEF fine
  <2> DEFINE next == [acc EXCEPT !.list = Without(@, B), !.deleted = @ \cup {v}]
  <2>10. next.ok = acc.ok /\ next.list = Without(acc.list, B) /\ next.deleted = acc.deleted \cup {v}
         /\ next.added = acc.added
    BY <1>1
  <2>11. RuleItem(acc, item).ok <=> fine
    BY <1>2, <2>1, <2>10
  <2>12. fine => RuleItem(acc, item) = next
    BY <2>1
  <2> HIDE DEF next
  <2>13. Said(q) = Said(p)
    BY <1>5, <1>8 DEF Said
  <2> QED
    BY <1>6, <1>8, <2>2, <2>7, <2>9, <2>10, <2>11, <2>12, <2>13 DEF q
<1>9. CASE item.tag # "delete"
  <2> DEFINE names == IF IsScalar(item) THEN {item.value} ELSE {}
             new == Stripped(item)
             next == [acc EXCEPT !.more = Append(@, new), !.added = @ \cup names]
             wrong == new = Failed \/ (IsScalar(item) /\ item.value \in acc.deleted)
  <2>1. RuleItem(acc, item) = IF wrong THEN Reject(acc) ELSE next
    BY <1>9 DEF RuleItem
  <2>2. wrong <=> ~Fits("rules", old, p, item)
    <3>1. (\A y \in ItemsOf(p) : y.tag = "delete" => ~Called("rules", item, y.value))
            <=> ~(IsScalar(item) /\ item.value \in Deletions(p))
      BY <1>3 DEF Deletions
    <3> QED
      BY <1>9, <3>1 DEF Fits
  <2> HIDE DEF names, new, wrong
  <2>3. next.ok = acc.ok /\ next.list = acc.list /\ next.deleted = acc.deleted /\ next.added = acc.added \cup names
    BY <1>1
  <2>4. RuleItem(acc, item).ok <=> ~wrong
    BY <1>2, <2>1, <2>3
  <2>5. ~wrong => RuleItem(acc, item) = next
    BY <2>1
  <2> HIDE DEF next
  <2>6. Left(old, q) = Left(old, p)
    BY <1>6, <1>9 DEF Left
  <2>7. Said(q) = Said(p) \cup names
    <3>1. ItemsOf(Additions(q)) = ItemsOf(Additions(p)) \cup {item}
      BY <1>5, <1>7, <1>9, AppendItems
    <3> QED
      BY <3>1 DEF Said, names
  <2> QED
    BY <1>6, <1>9, <2>2, <2>3, <2>4, <2>5, <2>6, <2>7 DEF q
<1> QED
  BY <1>8, <1>9

\* The merge of rules fails exactly when the overlay's make a mistake.
LEMMA RulesFail ==
  ASSUME NEW e \in 0..Depth, NEW b, b.items \in Seq(Configs[e]), NEW o, o.items \in Seq(Overlays[e])
  PROVE  MergeRules(b, o) = Failed <=> ~Sound("rules", b.items, o.items)
<1> DEFINE old == b.items
           new == o.items
           P(i) == SubSeq(new, 1, i)
           St == States(Configs[e], AllTextsOf)
<1>0. Len(new) \in Nat /\ Len(new) \in 0..Len(new) /\ 0 \in 0..Len(new)
  OBVIOUS
<1>1. PICK acc \in [0..Len(new) -> St] :
        /\ acc[0] = Start(old)
        /\ \A i \in 1..Len(new) : acc[i] = IF acc[i - 1].ok THEN RuleItem(acc[i - 1], new[i]) ELSE acc[i - 1]
        /\ MergeRules(b, o) = IF acc[Len(new)].ok
                              THEN List(InsertRules(acc[Len(new)].list, acc[Len(new)].more)) ELSE Failed
  BY RuleFold
<1> DEFINE Read(t, p) == t.list = Left(old, p) /\ t.deleted = Deletions(p) /\ t.added = Said(p)
           S == {i \in 0..Len(new) : /\ acc[i].ok <=> Sound("rules", old, P(i))
                                     /\ acc[i].ok => Read(acc[i], P(i))}
<1>2. 0 \in S
  <2>1. P(0) = <<>>
    BY Prefix
  <2>2. acc[0].ok /\ acc[0].list = old /\ acc[0].deleted = {} /\ acc[0].added = {}
    BY <1>1 DEF Start
  <2>3. Sound("rules", old, <<>>)
    BY SoundEmpty
  <2>4. ItemsOf(<<>>) = {}
    BY DEF ItemsOf
  <2>5. Deletions(<<>>) = {} /\ Additions(<<>>) = <<>>
    BY <2>4, WithoutEmpty DEF Deletions, Additions
  <2>6. Said(<<>>) = {}
    BY <2>4, <2>5 DEF Said
  <2>7. Left(old, <<>>) = old
    BY <2>5, WithoutNone DEF Left
  <2> HIDE DEF P, old
  <2> QED
    BY <1>0, <2>1, <2>2, <2>3, <2>5, <2>6, <2>7
<1>3. ASSUME NEW i \in 1..Len(new), i - 1 \in S
      PROVE  i \in S
  <2> DEFINE p == P(i - 1)
             item == new[i]
             t == acc[i - 1]
  <2>1. P(i) = Append(p, item) /\ i \in 0..Len(new) /\ i - 1 \in 0..Len(new)
    BY Prefix
  <2>2. p \in Seq(Overlays[e])
    BY Prefix
  <2>3. item \in Overlays[e]
    BY Prefix
  <2>4. t \in St
    BY <1>1, <2>1
  <2>5. (t.ok <=> Sound("rules", old, p)) /\ (t.ok => Read(t, p))
    BY <1>3
  <2>6. acc[i] = IF t.ok THEN RuleItem(t, item) ELSE t
    BY <1>1
  <2>7. old \in Seq(Configs[e])
    OBVIOUS
  <2> HIDE DEF old, new, P, p, item, t, St
  <2>8. Sound("rules", old, Append(p, item)) <=> Sound("rules", old, p) /\ Fits("rules", old, p, item)
    BY <2>2, <2>3, SoundStep
  <2>9. ASSUME t.ok
        PROVE  /\ RuleItem(t, item).ok <=> Fits("rules", old, p, item)
               /\ RuleItem(t, item).ok => Read(RuleItem(t, item), Append(p, item))
    <3>1. t.list = Left(old, p) /\ t.deleted = Deletions(p) /\ t.added = Said(p)
      BY <2>5, <2>9
    <3>2. Sound("rules", old, p)
      BY <2>5, <2>9
    <3>3. t \in States(Configs[e], AllTextsOf)
      BY <2>4 DEF St
    <3> QED
      BY <2>2, <2>3, <2>7, <2>9, <3>1, <3>2, <3>3, RuleFits
  <2> HIDE DEF Read
  <2> QED
    BY <2>1, <2>5, <2>6, <2>8, <2>9
<1>4. 0..Len(new) \subseteq S
  <2> HIDE DEF S
  <2> QED
    BY <1>0, <1>2, <1>3, Climb
<1>5. P(Len(new)) = new
  BY Prefix
<1>6. Len(new) \in S
  <2> HIDE DEF S
  <2> QED
    BY <1>0, <1>4
<1>7. acc[Len(new)].ok <=> Sound("rules", old, new)
  <2> HIDE DEF P, old, new, Read
  <2> QED
    BY <1>5, <1>6
<1>8. MergeRules(b, o) = Failed <=> ~acc[Len(new)].ok
  BY <1>1 DEF List, Failed
<1> QED
  BY <1>7, <1>8

\* Stripping a mapping.
LEMMA StripMap ==
  ASSUME NEW n, n.tag # "delete", IsMap(n), NEW f
  PROVE  Strip(n, f) = IF n.flaw = "directive" \/ \E k \in Keys : (IF n.at[k] = Missing THEN Missing ELSE f[n.at[k]]) = Failed
                       THEN Failed
                       ELSE Map([k \in Keys |-> IF n.at[k] = Missing THEN Missing ELSE f[n.at[k]]])
<1>1. ~IsScalar(n) /\ ~IsList(n)
  BY DEF IsScalar, IsList, IsMap
<1> QED
  BY <1>1, Zenon DEF Strip

\* Stripping a list.
LEMMA StripList ==
  ASSUME NEW n, n.tag # "delete", IsList(n), NEW f
  PROVE  Strip(n, f) = IF \E i \in DOMAIN n.items : f[n.items[i]] = Failed
                       THEN Failed ELSE List([i \in DOMAIN n.items |-> f[n.items[i]]])
<1>1. ~IsScalar(n) /\ ~IsMap(n)
  BY DEF IsScalar, IsList, IsMap
<1> QED
  BY <1>1, Zenon DEF Strip

\* A document without repeated keys.
LEMMA UnambiguousShape ==
  ASSUME NEW d \in 1..Depth, NEW n \in Unambiguous[d]
  PROVE  /\ n.kind \in {"scalar", "list", "map"} /\ n.tag \in Tags
         /\ IsScalar(n) => n = [kind |-> "scalar", tag |-> n.tag, value |-> n.value] /\ n.value \in Texts
         /\ IsList(n) => /\ n = [kind |-> "list", tag |-> n.tag, items |-> n.items]
                         /\ n.items \in Seq(Unambiguous[d - 1])
         /\ IsMap(n) => /\ n = [kind |-> "map", tag |-> n.tag, at |-> n.at, flaw |-> n.flaw]
                        /\ n.at \in [Keys -> {Missing} \cup Unambiguous[d - 1]]
                        /\ n.flaw \in {"none", "directive"}
<1> DEFINE tags == Tags
           flaws == {"none", "directive"}
<1>1. Unambiguous = Documents(tags, flaws)
  BY DEF Unambiguous
<1> HIDE DEF tags, flaws
<1>2. /\ n.kind \in {"scalar", "list", "map"} /\ n.tag \in tags
      /\ IsScalar(n) => n = [kind |-> "scalar", tag |-> n.tag, value |-> n.value] /\ n.value \in Texts
      /\ IsList(n) => /\ n = [kind |-> "list", tag |-> n.tag, items |-> n.items]
                      /\ n.items \in Seq(Documents(tags, flaws)[d - 1])
      /\ IsMap(n) => /\ n = [kind |-> "map", tag |-> n.tag, at |-> n.at, flaw |-> n.flaw]
                     /\ n.at \in [Keys -> {Missing} \cup Documents(tags, flaws)[d - 1]]
                     /\ n.flaw \in flaws
  <2>1. n \in Documents(tags, flaws)[d]
    BY <1>1
  <2> QED
    BY <2>1, Shape, Zenon
<1> QED
  BY <1>1, <1>2 DEF tags, flaws

\* And what makes one.
LEMMA MakeUnambiguous ==
  ASSUME NEW d \in 1..Depth, NEW t \in Tags
  PROVE  /\ \A v \in Texts : [kind |-> "scalar", tag |-> t, value |-> v] \in Unambiguous[d]
         /\ \A s \in Seq(Unambiguous[d - 1]) : [kind |-> "list", tag |-> t, items |-> s] \in Unambiguous[d]
         /\ \A at \in [Keys -> {Missing} \cup Unambiguous[d - 1]], f \in {"none", "directive"} :
              [kind |-> "map", tag |-> t, at |-> at, flaw |-> f] \in Unambiguous[d]
<1> DEFINE tags == Tags
           flaws == {"none", "directive"}
<1>1. Unambiguous = Documents(tags, flaws) /\ t \in tags
  BY DEF Unambiguous
<1> HIDE DEF tags, flaws
<1>2. /\ \A v \in Texts : [kind |-> "scalar", tag |-> t, value |-> v] \in Documents(tags, flaws)[d]
      /\ \A s \in Seq(Documents(tags, flaws)[d - 1]) :
           [kind |-> "list", tag |-> t, items |-> s] \in Documents(tags, flaws)[d]
      /\ \A at \in [Keys -> {Missing} \cup Documents(tags, flaws)[d - 1]], f \in flaws :
           [kind |-> "map", tag |-> t, at |-> at, flaw |-> f] \in Documents(tags, flaws)[d]
  BY <1>1, Make
<1> QED
  BY <1>1, <1>2 DEF flaws

\* Stripping depends on nothing but the children's.
LEMMA StripSame ==
  ASSUME NEW d \in 1..Depth, NEW n \in Overlays[d], NEW f, NEW g, \A c \in Overlays[d - 1] : f[c] = g[c]
  PROVE  Strip(n, f) = Strip(n, g)
<1>0. IsNode(n)
  <2>1. d \in 0..Depth
    BY DepthNat
  <2> QED
    BY <2>1, NoNode DEF Overlays
<1>1. CASE n.tag = "delete"
  BY <1>1, Zenon DEF Strip
<1>2. CASE n.tag # "delete" /\ IsMap(n)
  <2> DEFINE F(k) == IF n.at[k] = Missing THEN Missing ELSE f[n.at[k]]
             G(k) == IF n.at[k] = Missing THEN Missing ELSE g[n.at[k]]
  <2>1. n.at \in [Keys -> {Missing} \cup Overlays[d - 1]]
    BY <1>2, OverlayShape
  <2>2. \A k \in Keys : F(k) = G(k)
    BY <2>1
  <2>3. Strip(n, f) = IF n.flaw = "directive" \/ \E k \in Keys : F(k) = Failed
                      THEN Failed ELSE Map([k \in Keys |-> F(k)])
    BY <1>2, StripMap
  <2>4. Strip(n, g) = IF n.flaw = "directive" \/ \E k \in Keys : G(k) = Failed
                      THEN Failed ELSE Map([k \in Keys |-> G(k)])
    BY <1>2, StripMap
  <2> HIDE DEF F, G
  <2>5. [k \in Keys |-> F(k)] = [k \in Keys |-> G(k)]
    BY <2>2
  <2> QED
    BY <2>2, <2>3, <2>4, <2>5
<1>3. CASE n.tag # "delete" /\ IsList(n)
  <2> DEFINE F(i) == f[n.items[i]]
             G(i) == g[n.items[i]]
  <2>1. n.items \in Seq(Overlays[d - 1])
    BY <1>3, OverlayShape
  <2>2. \A i \in DOMAIN n.items : F(i) = G(i)
    BY <2>1
  <2>3. Strip(n, f) = IF \E i \in DOMAIN n.items : F(i) = Failed
                      THEN Failed ELSE List([i \in DOMAIN n.items |-> F(i)])
    BY <1>3, StripList
  <2>4. Strip(n, g) = IF \E i \in DOMAIN n.items : G(i) = Failed
                      THEN Failed ELSE List([i \in DOMAIN n.items |-> G(i)])
    BY <1>3, StripList
  <2> HIDE DEF F, G
  <2>5. [i \in DOMAIN n.items |-> F(i)] = [i \in DOMAIN n.items |-> G(i)]
    BY <2>2
  <2> QED
    BY <2>2, <2>3, <2>4, <2>5
<1>4. CASE n.tag # "delete" /\ IsScalar(n)
  <2>1. ~IsList(n) /\ ~IsMap(n)
    BY <1>4 DEF IsScalar, IsList, IsMap
  <2>2. Strip(n, f) = Scalar(n.value) /\ Strip(n, g) = Scalar(n.value)
    BY <1>4, <2>1, Zenon DEF Strip
  <2> QED
    BY <2>2
<1> QED
  BY <1>0, <1>1, <1>2, <1>3, <1>4 DEF IsNode, IsScalar, IsList, IsMap

\* It is the same on every level.
LEMMA StrippedSame ==
  \A d \in 0..Depth : \A n \in Overlays[d] : Stripped(n) = stripped[d][n]
<1> DEFINE S == {d \in 0..Depth : \A e \in d..Depth : \A n \in Overlays[d] : stripped[e][n] = stripped[d][n]}
<1>0. Depth \in Nat \ {0}
  BY DepthNat
<1>1. 0 \in S
  <2>1. Overlays[0] = {}
    BY NoNode DEF Overlays
  <2>2. 0 \in 0..Depth
    BY <1>0
  <2> QED
    BY <2>1, <2>2
<1>2. ASSUME NEW d \in 1..Depth, d - 1 \in S
      PROVE  d \in S
  <2>1. ASSUME NEW e \in d..Depth, NEW n \in Overlays[d]
        PROVE  stripped[e][n] = stripped[d][n]
    <3>1. e \in 1..Depth /\ e - 1 \in (d - 1)..Depth /\ d \in 0..Depth
      BY <1>0
    <3>2. n \in Overlays[e]
      BY <3>1, MoreLevels DEF Overlays
    <3>3. stripped[e][n] = Strip(n, stripped[e - 1])
      BY <3>1, <3>2, StrippedOn
    <3>4. stripped[d][n] = Strip(n, stripped[d - 1])
      BY StrippedOn
    <3> DEFINE f == stripped[e - 1]
               g == stripped[d - 1]
    <3>5. \A c \in Overlays[d - 1] : f[c] = g[c]
      BY <1>2, <3>1
    <3> HIDE DEF f, g
    <3>6. Strip(n, f) = Strip(n, g)
      BY <3>5, StripSame
    <3> QED
      BY <3>3, <3>4, <3>6 DEF f, g
  <2>2. d \in 0..Depth
    BY <1>0
  <2> QED
    BY <2>1, <2>2
<1>3. 0..Depth \subseteq S
  <2> HIDE DEF S
  <2> QED
    BY <1>0, <1>1, <1>2, Climb
<1>4. \A d \in 0..Depth : Depth \in d..Depth
  BY <1>0
<1> QED
  BY <1>3, <1>4 DEF Stripped

\* A document without repeated keys has none on the level it is of.
LEMMA UnambiguousThere ==
  \A d \in 0..Depth : \A n \in Overlays[d] : n \in Unambiguous[Depth] => n \in Unambiguous[d]
<1> DEFINE S == {d \in 0..Depth : \A e \in d..Depth : Overlays[d] \cap Unambiguous[e] \subseteq Unambiguous[d]}
<1>0. Depth \in Nat \ {0}
  BY DepthNat
<1>1. 0 \in S
  <2>1. Overlays[0] = {}
    BY NoNode DEF Overlays
  <2>2. 0 \in 0..Depth
    BY <1>0
  <2> QED
    BY <2>1, <2>2
<1>2. ASSUME NEW d \in 1..Depth, d - 1 \in S
      PROVE  d \in S
  <2>1. ASSUME NEW e \in d..Depth, NEW n \in Overlays[d], n \in Unambiguous[e]
        PROVE  n \in Unambiguous[d]
    <3> DEFINE both == Overlays[d - 1] \cap Unambiguous[e - 1]
    <3>1. e \in 1..Depth /\ e - 1 \in (d - 1)..Depth
      BY <1>0
    <3>2. both \subseteq Unambiguous[d - 1]
      BY <1>2, <3>1
    <3>3. /\ n.kind \in {"scalar", "list", "map"} /\ n.tag \in Tags
          /\ IsScalar(n) => n = [kind |-> "scalar", tag |-> n.tag, value |-> n.value] /\ n.value \in Texts
          /\ IsList(n) => /\ n = [kind |-> "list", tag |-> n.tag, items |-> n.items]
                          /\ n.items \in Seq(Unambiguous[e - 1])
          /\ IsMap(n) => /\ n = [kind |-> "map", tag |-> n.tag, at |-> n.at, flaw |-> n.flaw]
                         /\ n.at \in [Keys -> {Missing} \cup Unambiguous[e - 1]]
                         /\ n.flaw \in {"none", "directive"}
      BY <2>1, <3>1, UnambiguousShape
    <3>4. CASE IsScalar(n)
      BY <3>3, <3>4, MakeUnambiguous
    <3>5. CASE IsList(n)
      <4>1. n.items \in Seq(Overlays[d - 1])
        BY <3>5, OverlayShape
      <4>2. n.items \in Seq(Unambiguous[d - 1])
        BY <3>2, <3>3, <3>5, <4>1
      <4> QED
        BY <3>3, <3>5, <4>2, MakeUnambiguous
    <3>6. CASE IsMap(n)
      <4>1. n.at \in [Keys -> {Missing} \cup Overlays[d - 1]]
        BY <3>6, OverlayShape
      <4>2. n.at \in [Keys -> {Missing} \cup Unambiguous[d - 1]]
        BY <3>2, <3>3, <3>6, <4>1
      <4>3. n = [kind |-> "map", tag |-> n.tag, at |-> n.at, flaw |-> n.flaw] /\ n.flaw \in {"none", "directive"}
        BY <3>3, <3>6
      <4>4. [kind |-> "map", tag |-> n.tag, at |-> n.at, flaw |-> n.flaw] \in Unambiguous[d]
        BY <3>3, <4>2, <4>3, MakeUnambiguous
      <4> QED
        BY <4>3, <4>4
    <3> QED
      BY <3>3, <3>4, <3>5, <3>6 DEF IsScalar, IsList, IsMap
  <2>2. d \in 0..Depth
    BY <1>0
  <2> QED
    BY <2>1, <2>2
<1>3. 0..Depth \subseteq S
  <2> HIDE DEF S
  <2> QED
    BY <1>0, <1>1, <1>2, Climb
<1>4. \A d \in 0..Depth : Depth \in d..Depth
  BY <1>0
<1> QED
  BY <1>3, <1>4

\* A path and one key more.
LEMMA FurtherPath ==
  ASSUME NEW p \in Seq(Keys), NEW k \in Keys
  PROVE  /\ Append(p, k) \in Seq(Keys) /\ Len(Append(p, k)) = Len(p) + 1 /\ Len(p) \in Nat
         /\ Len(Append(p, k)) \in 1..Len(Append(p, k)) /\ Append(p, k)[Len(Append(p, k))] = k
         /\ \A i \in 0..Len(p) : Way(Append(p, k), i) = Way(p, i)
         /\ Way(p, Len(p)) = p /\ Way(Append(p, k), Len(Append(p, k))) = Append(p, k)
<1> DEFINE q == Append(p, k)
<1>1. q \in Seq(Keys) /\ Len(q) = Len(p) + 1 /\ Len(p) \in Nat /\ q[Len(p) + 1] = k
      /\ \A i \in 1..Len(p) : q[i] = p[i]
  OBVIOUS
<1>2. Len(q) \in 1..Len(q)
  BY <1>1
<1>3. Way(p, Len(p)) = p /\ Way(q, Len(q)) = q
  BY <1>1, Prefix DEF Way
<1> HIDE DEF q
<1>4. ASSUME NEW i \in 0..Len(p)
      PROVE  Way(q, i) = Way(p, i)
  <2>1. /\ 1 \in 1..(Len(p) + 1) /\ i \in (1 - 1)..Len(p)
        /\ 1 \in 1..(Len(q) + 1) /\ i \in (1 - 1)..Len(q)
        /\ i - 1 + 1 = i /\ \A j \in 1..i : 1 + j - 1 = j /\ j \in 1..Len(p)
    BY <1>1
  <2>2. /\ SubSeq(p, 1, i) \in Seq(Keys) /\ Len(SubSeq(p, 1, i)) = i - 1 + 1
        /\ \A j \in 1..(i - 1 + 1) : SubSeq(p, 1, i)[j] = p[1 + j - 1]
    BY <2>1, Part
  <2>3. /\ SubSeq(q, 1, i) \in Seq(Keys) /\ Len(SubSeq(q, 1, i)) = i - 1 + 1
        /\ \A j \in 1..(i - 1 + 1) : SubSeq(q, 1, i)[j] = q[1 + j - 1]
    BY <1>1, <2>1, Part
  <2> DEFINE s == SubSeq(p, 1, i)
             t == SubSeq(q, 1, i)
  <2>4. s \in Seq(Keys) /\ t \in Seq(Keys) /\ Len(t) = Len(s) /\ Len(t) = i
    BY <2>1, <2>2, <2>3
  <2>5. \A j \in 1..i : t[j] = s[j]
    BY <1>1, <2>1, <2>2, <2>3
  <2> HIDE DEF s, t
  <2>6. t = s
    BY <2>4, <2>5, SameList
  <2> QED
    BY <2>6 DEF s, t, Way
<1> QED
  BY <1>1, <1>2, <1>3, <1>4 DEF q

\* What stands there.
LEMMA AtAppend ==
  ASSUME NEW n \in Standing, NEW p \in Seq(Keys), NEW k \in Keys
  PROVE  At(n, Append(p, k)) = Get(At(n, p), k) /\ At(n, p) \in Standing /\ At(n, <<>>) = n
<1> DEFINE q == Append(p, k)
<1>1. /\ q \in Seq(Keys) /\ Len(q) = Len(p) + 1 /\ Len(p) \in Nat
      /\ Len(q) \in 1..Len(q) /\ q[Len(q)] = k
      /\ Len(p) \in 0..Len(p) /\ Len(q) - 1 = Len(p)
      /\ \A i \in 0..Len(p) : Way(q, i) = Way(p, i)
      /\ Way(p, Len(p)) = p /\ Way(q, Len(q)) = q
  BY FurtherPath
<1> HIDE DEF q
<1>2. /\ At(n, Way(q, 0)) = n /\ Way(q, 0) = <<>>
      /\ At(n, Way(q, Len(q))) = Get(At(n, Way(q, Len(q) - 1)), q[Len(q)])
  BY <1>1, AtStep
<1>3. At(n, Way(p, Len(p))) \in Standing
  BY <1>1, AtStep
<1> QED
  BY <1>1, <1>2, <1>3 DEF q

\* What a document has for a key is of the next level.
LEMMA ChildOf ==
  ASSUME NEW tags, NEW flaws, NEW d \in 1..Depth, NEW n \in Documents(tags, flaws)[d], NEW k
  PROVE  Get(n, k) \in Documents(tags, flaws)[d - 1] \cup {Missing}
<1>1. CASE IsMap(n) /\ k \in Keys
  <2>1. IsMap(n) => n.at \in [Keys -> {Missing} \cup Documents(tags, flaws)[d - 1]]
    BY Shape
  <2> DEFINE docs == Documents(tags, flaws)[d - 1]
  <2>2. n.at \in [Keys -> {Missing} \cup docs]
    BY <1>1, <2>1
  <2> HIDE DEF docs
  <2>3. n.at[k] \in docs \cup {Missing}
    BY <1>1, <2>2
  <2> QED
    BY <1>1, <2>3 DEF Get, docs
<1>2. CASE ~(IsMap(n) /\ k \in Keys)
  BY <1>2 DEF Get
<1> QED
  BY <1>1, <1>2

\* A document is nested no deeper than it may be, and what stands in it is of its kind.
LEMMA AtLevel ==
  ASSUME NEW tags, NEW flaws, tags \subseteq Tags, flaws \subseteq Flaws,
         NEW n \in Documents(tags, flaws)[Depth], NEW p \in Seq(Keys)
  PROVE  At(n, p) = Missing \/ (Len(p) < Depth /\ At(n, p) \in Documents(tags, flaws)[Depth - Len(p)])
<1> DEFINE docs == Documents(tags, flaws)
           there(i) == At(n, Way(p, i))
           S == {i \in 0..Len(p) : there(i) = Missing \/ (i < Depth /\ there(i) \in docs[Depth - i])}
<1>0. Depth \in Nat \ {0} /\ Len(p) \in Nat /\ Depth \in 0..Depth
  BY DepthNat
<1>1. n \in Standing
  BY <1>0, MoreTags DEF Standing, Overlays
<1>2. /\ Way(p, Len(p)) = p /\ there(0) = n
      /\ \A i \in 1..Len(p) : there(i) = Get(there(i - 1), p[i])
  BY <1>1, AtStep
<1>3. 0 \in S
  <2>1. Depth - 0 = Depth /\ 0 < Depth /\ 0 \in 0..Len(p)
    BY <1>0
  <2> HIDE DEF there
  <2> QED
    BY <1>2, <2>1
<1>4. ASSUME NEW i \in 1..Len(p), i - 1 \in S
      PROVE  i \in S
  <2>1. i \in 0..Len(p)
    BY <1>0
  <2>2. CASE there(i - 1) = Missing
    <3>1. Get(Missing, p[i]) = Missing
      BY DEF Get, IsMap, Missing
    <3> HIDE DEF there
    <3> QED
      BY <1>2, <2>1, <2>2, <3>1
  <2>3. CASE i - 1 < Depth /\ there(i - 1) \in docs[Depth - (i - 1)]
    <3> DEFINE d == Depth - (i - 1)
               c == there(i - 1)
    <3>1. d \in 1..Depth /\ d - 1 = Depth - i
      BY <1>0, <2>3
    <3>2. c \in Documents(tags, flaws)[d]
      BY <2>3
    <3> HIDE DEF d, c
    <3>3. Get(c, p[i]) \in Documents(tags, flaws)[d - 1] \cup {Missing}
      BY <3>1, <3>2, ChildOf
    <3>4. there(i) \in docs[Depth - i] \cup {Missing}
      <4>1. there(i) = Get(c, p[i])
        BY <1>2 DEF c
      <4> HIDE DEF there
      <4> QED
        BY <3>1, <3>3, <4>1
    <3>5. docs[0] = {}
      BY NoNode
    <3>6. there(i) # Missing => i < Depth
      <4> HIDE DEF there, docs
      <4>1. CASE Depth - i = 0
        BY <3>4, <3>5, <4>1
      <4>2. CASE Depth - i # 0
        BY <1>0, <3>1, <4>2
      <4> QED
        BY <4>1, <4>2
    <3> HIDE DEF there, docs
    <3> QED
      BY <2>1, <3>4, <3>6
  <2> QED
    BY <1>4, <2>2, <2>3
<1>5. Len(p) \in S
  <2>1. Len(p) \in 0..Len(p)
    BY <1>0
  <2> HIDE DEF S
  <2>2. 0..Len(p) \subseteq S
    BY <1>0, <1>3, <1>4, Climb
  <2> QED
    BY <2>1, <2>2
<1> HIDE DEF docs
<1> QED
  BY <1>2, <1>5 DEF docs

\* They are those at whose end something stands.
LEMMA PathsOf ==
  ASSUME NEW n \in Overlays[Depth]
  PROVE  Paths(n) = {p \in Seq(Keys) : At(n, p) # Missing}
<1>0. Depth \in Nat \ {0} /\ Depth \in 0..Depth /\ n \in Standing
  BY DepthNat DEF Standing
<1>1. PICK of : /\ of[0] = {<<>>} /\ Paths(n) = of[Depth]
                /\ \A d \in 1..Depth : of[d] = LongerPaths(n, of[d - 1]) /\ of[d - 1] \subseteq Seq(Keys)
                /\ of[Depth] \subseteq Seq(Keys)
  BY PathLevels
<1> DEFINE Upto(d) == {p \in Seq(Keys) : Len(p) <= d /\ At(n, p) # Missing}
           S == {d \in 0..Depth : of[d] = Upto(d)}
<1>2. n # Missing /\ <<>> \in Seq(Keys) /\ Len(<<>>) = 0
  BY <1>0, NoNode DEF Overlays
<1>3. At(n, <<>>) = n
  <2>1. <<>> \in Seq(Keys)
    OBVIOUS
  <2>2. At(n, Way(<<>>, 0)) = n /\ Way(<<>>, 0) = <<>>
    BY <1>0, <2>1, AtStep
  <2> QED
    BY <2>2
<1>4. 0 \in S
  <2>1. \A p \in Seq(Keys) : Len(p) <= 0 => p = <<>>
    OBVIOUS
  <2> QED
    BY <1>0, <1>1, <1>2, <1>3, <2>1
<1>5. ASSUME NEW d \in 1..Depth, d - 1 \in S
      PROVE  d \in S
  <2>0. of[d - 1] = Upto(d - 1) /\ d \in 0..Depth /\ d \in Nat \ {0}
    BY <1>0, <1>5
  <2>1. ASSUME NEW q \in of[d]
        PROVE  q \in Upto(d)
    <3>1. CASE q = <<>>
      BY <1>2, <1>3, <2>0, <3>1
    <3>2. CASE q # <<>>
      <4>1. PICK p \in of[d - 1] : q \in {Append(p, k) : k \in KeysOf(At(n, p))}
        BY <1>1, <2>1, <3>2 DEF LongerPaths
      <4>2. PICK k \in KeysOf(At(n, p)) : q = Append(p, k)
        BY <4>1
      <4>3. p \in Seq(Keys) /\ Len(p) <= d - 1 /\ k \in Keys /\ Get(At(n, p), k) # Missing
        BY <2>0 DEF KeysOf
      <4>4. At(n, Append(p, k)) = Get(At(n, p), k)
        BY <1>0, <4>3, AtAppend
      <4>5. Append(p, k) \in Seq(Keys) /\ Len(Append(p, k)) = Len(p) + 1 /\ Len(p) \in Nat
        BY <4>3, FurtherPath
      <4> QED
        BY <2>0, <4>2, <4>3, <4>4, <4>5
    <3> QED
      BY <3>1, <3>2
  <2>2. ASSUME NEW q \in Upto(d)
        PROVE  q \in of[d]
    <3>1. CASE q = <<>>
      BY <1>1, <3>1 DEF LongerPaths
    <3>2. CASE q # <<>>
      <4> DEFINE m == Len(q)
                 p == SubSeq(q, 1, m - 1)
                 k == q[m]
      <4>0. q \in Seq(Keys) /\ m <= d /\ At(n, q) # Missing
        OBVIOUS
      <4>1. m \in Nat /\ m \in 1..m
        BY <3>2, <4>0
      <4>2. p \in Seq(Keys) /\ k \in Keys /\ SubSeq(q, 1, m) = Append(p, k) /\ SubSeq(q, 1, m) = q
        BY <4>0, <4>1, Prefix
      <4> HIDE DEF p, k
      <4>3. At(n, Append(p, k)) = Get(At(n, p), k)
        BY <1>0, <4>2, AtAppend
      <4>4. Len(Append(p, k)) = Len(p) + 1 /\ Len(p) \in Nat
        BY <4>2, FurtherPath
      <4>5. Get(Missing, k) = Missing
        BY DEF Get, IsMap, Missing
      <4>6. At(n, p) # Missing /\ k \in KeysOf(At(n, p))
        BY <4>0, <4>2, <4>3, <4>5 DEF KeysOf
      <4>7. p \in of[d - 1]
        <5>1. Len(p) <= d - 1
          <6>1. q = Append(p, k)
            BY <4>2
          <6>2. Len(q) = Len(p) + 1
            BY <4>4, <6>1
          <6> HIDE DEF p, k, Upto
          <6> QED
            BY <2>0, <4>0, <4>4, <6>2
        <5> QED
          BY <2>0, <4>2, <4>6, <5>1
      <4>8. q \in {Append(p, j) : j \in KeysOf(At(n, p))}
        BY <4>2, <4>6
      <4> QED
        BY <1>1, <4>7, <4>8 DEF LongerPaths
    <3> QED
      BY <3>1, <3>2
  <2> HIDE DEF Upto
  <2> QED
    BY <2>0, <2>1, <2>2
<1>6. of[Depth] = Upto(Depth)
  <2> HIDE DEF S
  <2>1. 0..Depth \subseteq S
    BY <1>0, <1>4, <1>5, Climb
  <2> QED
    BY <1>0, <2>1 DEF S
<1>7. ASSUME NEW p \in Seq(Keys), At(n, p) # Missing
      PROVE  Len(p) <= Depth
  <2> DEFINE tags == Tags
             flaws == Flaws
  <2>1. tags \subseteq Tags /\ flaws \subseteq Flaws /\ n \in Documents(tags, flaws)[Depth]
    BY DEF Overlays
  <2> HIDE DEF tags, flaws
  <2>2. At(n, p) = Missing \/ (Len(p) < Depth /\ At(n, p) \in Documents(tags, flaws)[Depth - Len(p)])
    BY <2>1, AtLevel
  <2>3. Len(p) \in Nat
    OBVIOUS
  <2> QED
    BY <1>0, <1>7, <2>2, <2>3
<1> QED
  BY <1>1, <1>6, <1>7

\* A mistake at the end of a path, and one there or further on.
Wrong(p) == FieldMistake(p) \/ (Len(p) = 1 /\ p[1] \in MergedByName /\ ArrayMistake(p[1]))
WrongFrom(p) == \E q \in Seq(Keys) : /\ Len(p) <= Len(q) /\ Way(q, Len(p)) = p
                                     /\ At(overlay, q) # Missing /\ Wrong(q)

\* Where nothing stands, nothing stands further on.
LEMMA NothingFurther ==
  ASSUME NEW n \in Standing, NEW q \in Seq(Keys), NEW m \in 0..Len(q), At(n, Way(q, m)) = Missing
  PROVE  At(n, q) = Missing
<1> DEFINE there(i) == At(n, Way(q, i))
           S == {i \in 0..Len(q) : m <= i => there(i) = Missing}
<1>0. Len(q) \in Nat /\ m \in Nat
  OBVIOUS
<1>1. Way(q, Len(q)) = q /\ \A i \in 1..Len(q) : there(i) = Get(there(i - 1), q[i])
  BY AtStep
<1>2. \A k : Get(Missing, k) = Missing
  BY DEF Get, IsMap, Missing
<1>3. there(m) = Missing
  OBVIOUS
<1> HIDE DEF there
<1>4. 0 \in S
  BY <1>0, <1>3
<1>5. ASSUME NEW i \in 1..Len(q), i - 1 \in S
      PROVE  i \in S
  <2>1. i \in 0..Len(q) /\ i - 1 \in Nat
    BY <1>0
  <2>2. CASE i = m
    BY <1>3, <2>1, <2>2
  <2>3. CASE i # m /\ m <= i
    <3>1. m <= i - 1
      BY <1>0, <2>1, <2>3
    <3> QED
      BY <1>1, <1>2, <1>5, <2>1, <3>1
  <2>4. CASE ~(m <= i)
    BY <2>1, <2>4
  <2> QED
    BY <2>2, <2>3, <2>4
<1>6. 0..Len(q) \subseteq S
  <2> HIDE DEF S
  <2> QED
    BY <1>0, <1>4, <1>5, Climb
<1>7. there(Len(q)) = Missing
  BY <1>0, <1>6
<1> QED
  BY <1>1, <1>7 DEF there

\* A mistake is there, or further on at one of the keys.
LEMMA WrongStep ==
  ASSUME overlay \in Standing, NEW p \in Seq(Keys), At(overlay, p) # Missing
  PROVE  WrongFrom(p) <=> Wrong(p) \/ \E k \in Keys : WrongFrom(Append(p, k))
<1> DEFINE m == Len(p)
<1>0. m \in Nat /\ Way(p, m) = p
  <2>1. Len(p) \in Nat
    OBVIOUS
  <2> QED
    BY <2>1, Prefix DEF Way
<1>1. ASSUME WrongFrom(p)
      PROVE  Wrong(p) \/ \E k \in Keys : WrongFrom(Append(p, k))
  <2>1. PICK q \in Seq(Keys) : m <= Len(q) /\ Way(q, m) = p /\ At(overlay, q) # Missing /\ Wrong(q)
    BY <1>1 DEF WrongFrom
  <2>2. Len(q) \in Nat /\ Way(q, Len(q)) = q
    BY Prefix DEF Way
  <2>3. CASE Len(q) = m
    BY <2>1, <2>2, <2>3
  <2>4. CASE Len(q) # m
    <3> DEFINE k == q[m + 1]
    <3>1. m + 1 \in 1..Len(q) /\ (m + 1) - 1 = m
      BY <1>0, <2>1, <2>2, <2>4
    <3>2. k \in Keys /\ Way(q, m + 1) = Append(Way(q, m), k)
      BY <3>1, Prefix DEF Way
    <3> HIDE DEF k
    <3>3. Len(Append(p, k)) = m + 1
      BY <3>2, FurtherPath
    <3>4. Way(q, Len(Append(p, k))) = Append(p, k)
      BY <2>1, <3>2, <3>3
    <3>5. Len(Append(p, k)) <= Len(q)
      BY <3>1, <3>3
    <3>6. WrongFrom(Append(p, k))
      BY <2>1, <3>4, <3>5 DEF WrongFrom
    <3> QED
      BY <3>2, <3>6
  <2> QED
    BY <2>3, <2>4
<1>2. ASSUME Wrong(p)
      PROVE  WrongFrom(p)
  <2>1. m <= m
    BY <1>0
  <2> QED
    BY <1>0, <1>2, <2>1 DEF WrongFrom
<1>3. ASSUME NEW k \in Keys, WrongFrom(Append(p, k))
      PROVE  WrongFrom(p)
  <2> DEFINE w == Append(p, k)
  <2>1. /\ w \in Seq(Keys) /\ Len(w) = m + 1
        /\ \A i \in 0..m : Way(w, i) = Way(p, i)
    BY FurtherPath
  <2>2. PICK q \in Seq(Keys) : Len(w) <= Len(q) /\ Way(q, Len(w)) = w /\ At(overlay, q) # Missing /\ Wrong(q)
    BY <1>3 DEF WrongFrom
  <2> DEFINE v == Way(q, m)
             j == q[m + 1]
  <2>3. Len(q) \in Nat /\ m + 1 \in 1..Len(q) /\ (m + 1) - 1 = m /\ m \in 0..m
    BY <1>0, <2>1, <2>2
  <2>4. v \in Seq(Keys) /\ j \in Keys /\ Way(q, m + 1) = Append(v, j)
    BY <2>3, Prefix DEF Way
  <2>5. Len(v) = m
    <3>1. m \in 0..Len(q)
      BY <2>3
    <3> QED
      BY <3>1, AtStep
  <2>6. Append(v, j) = w
    BY <2>1, <2>2, <2>4
  <2> HIDE DEF v, j, w
  <2>7. Way(Append(v, j), m) = Way(v, m) /\ Way(v, Len(v)) = v
    BY <2>3, <2>4, <2>5, FurtherPath
  <2>8. Way(q, m) = p
    BY <1>0, <2>1, <2>3, <2>5, <2>6, <2>7 DEF v
  <2>9. m <= Len(q)
    BY <2>3
  <2> QED
    BY <2>2, <2>8, <2>9 DEF WrongFrom
<1> QED
  BY <1>1, <1>2, <1>3

\* Nothing is wrong where nothing stands.
LEMMA NothingWrong ==
  ASSUME overlay \in Standing, NEW p \in Seq(Keys), At(overlay, p) = Missing
  PROVE  ~WrongFrom(p)
<1> SUFFICES ASSUME WrongFrom(p)
             PROVE  FALSE
  OBVIOUS
<1>1. PICK q \in Seq(Keys) : Len(p) <= Len(q) /\ Way(q, Len(p)) = p /\ At(overlay, q) # Missing /\ Wrong(q)
  BY DEF WrongFrom
<1>2. Len(p) \in 0..Len(q)
  BY <1>1
<1>3. At(overlay, q) = Missing
  BY <1>1, <1>2, NothingFurther
<1> QED
  BY <1>1, <1>3

\* A config, or nothing, and a mapping to merge with it.
Mergeable == /\ data \in Configs[Depth] \cup {Missing}
             /\ overlay \in Overlays[Depth] /\ IsMap(overlay) /\ overlay.tag = "plain"

\* What may stand at a place.
LEMMA LevelThere ==
  ASSUME Mergeable, NEW p \in Seq(Keys)
  PROVE  /\ data \in Standing /\ overlay \in Standing
         /\ At(overlay, p) # Missing =>
              /\ Depth - Len(p) \in 1..Depth /\ At(overlay, p) \in Overlays[Depth - Len(p)]
              /\ At(data, p) \in Configs[Depth - Len(p)] \cup {Missing}
<1> DEFINE tags == Tags
           flaws == Flaws
           plain == {"plain"}
           none == {"none"}
<1>0. Depth \in Nat \ {0} /\ Depth \in 0..Depth /\ Len(p) \in Nat
  BY DepthNat
<1>1. /\ tags \subseteq Tags /\ flaws \subseteq Flaws /\ plain \subseteq Tags /\ none \subseteq Flaws
      /\ Overlays = Documents(tags, flaws) /\ Configs = Documents(plain, none)
  BY DEF Overlays, Configs, Tags, Flaws
<1> HIDE DEF tags, flaws, plain, none
<1>2. overlay \in Documents(tags, flaws)[Depth]
  BY <1>1 DEF Mergeable
<1>3. At(overlay, p) = Missing
        \/ (Len(p) < Depth /\ At(overlay, p) \in Documents(tags, flaws)[Depth - Len(p)])
  BY <1>1, <1>2, AtLevel
<1>4. At(data, p) = Missing \/ (Len(p) < Depth /\ At(data, p) \in Documents(plain, none)[Depth - Len(p)])
  <2>1. CASE data \in Configs[Depth]
    <3>1. data \in Documents(plain, none)[Depth]
      BY <1>1, <2>1
    <3> QED
      BY <1>1, <3>1, AtLevel
  <2>2. CASE data = Missing
    <3>1. data \in Standing /\ 0 \in 0..Len(p)
      BY <1>0, <2>2 DEF Standing
    <3>2. At(data, Way(p, 0)) = Missing
      BY <2>2, <3>1, AtStep
    <3> QED
      BY <3>1, <3>2, NothingFurther
  <2> QED
    BY <2>1, <2>2 DEF Mergeable
<1>5. data \in Standing /\ overlay \in Standing
  BY <1>0, ConfigsAreOverlays DEF Standing, Mergeable
<1>6. Len(p) < Depth => Depth - Len(p) \in 1..Depth
  BY <1>0
<1> QED
  BY <1>1, <1>3, <1>4, <1>5, <1>6

\* Without repeated keys, none is repeated at any place.
LEMMA UnambiguousAt ==
  ASSUME Mergeable, overlay \in Unambiguous[Depth], NEW p \in Seq(Keys), At(overlay, p) # Missing
  PROVE  /\ At(overlay, p) \in Unambiguous[Depth] /\ At(overlay, p) \in Overlays[Depth]
         /\ IsMap(At(overlay, p)) => At(overlay, p).flaw \in {"none", "directive"}
<1> DEFINE tags == Tags
           flaws == {"none", "directive"}
           d == Depth - Len(p)
           n == At(overlay, p)
<1>0. Depth \in Nat \ {0} /\ Len(p) \in Nat
  BY DepthNat
<1>1. tags \subseteq Tags /\ flaws \subseteq Flaws /\ Unambiguous = Documents(tags, flaws)
  BY DEF Unambiguous, Flaws
<1> HIDE DEF tags, flaws
<1>2. Len(p) < Depth /\ n \in Documents(tags, flaws)[d]
  <2>1. overlay \in Documents(tags, flaws)[Depth]
    BY <1>1
  <2> QED
    BY <1>1, <2>1, AtLevel
<1>3. d \in 0..Depth /\ d \in 1..Depth /\ Depth \in d..Depth
  BY <1>0, <1>2
<1> HIDE DEF n, d
<1>4. n \in Documents(tags, flaws)[Depth]
  BY <1>2, <1>3, MoreLevels
<1>5. n \in Unambiguous[Depth] /\ n \in Unambiguous[d]
  BY <1>1, <1>2, <1>4
<1>6. n \in Overlays[Depth]
  <2>1. d \in 1..Depth /\ n \in Overlays[d]
    BY LevelThere DEF n, d
  <2> QED
    BY <1>3, <2>1, MoreLevels DEF Overlays
<1>7. IsMap(n) => n.flaw \in {"none", "directive"}
  BY <1>3, <1>5, UnambiguousShape
<1> QED
  BY <1>5, <1>6, <1>7 DEF n

\* One key more: the place it leads to, and where the override decides.
LEMMA OneKeyMore ==
  ASSUME NEW p \in Seq(Keys), NEW k \in Keys
  PROVE  /\ PlaceOf(p, Len(p)) \in Places
         /\ PlaceOf(Append(p, k), Len(Append(p, k))) = Below(PlaceOf(p, Len(p)), k)
         /\ Decides(Append(p, k)) <=>
              /\ IsNode(At(overlay, Append(p, k)))
              /\ \/ At(overlay, Append(p, k)).tag # "plain" \/ ~IsMap(At(overlay, Append(p, k)))
                 \/ PlaceOf(p, Len(p)) \in ProviderMaps
         /\ ByItsName(Append(p, k)) <=> Below(PlaceOf(p, Len(p)), k) \in Arrays
         /\ ByItsName(Append(p, k)) => p = <<>> /\ Append(p, k)[1] = k /\ PlaceOf(p, Len(p)) \notin ProviderMaps
         /\ Deciding(Append(p, k)) = Deciding(p) \cup (IF Decides(Append(p, k)) THEN {Len(p) + 1} ELSE {})
         /\ {i \in Deciding(Append(p, k)) : i < Len(Append(p, k))} = Deciding(p)
<1> DEFINE q == Append(p, k)
           m == Len(q)
<1>1. /\ q \in Seq(Keys) /\ m = Len(p) + 1 /\ Len(p) \in Nat
      /\ m \in 1..m /\ q[m] = k
      /\ \A i \in 0..Len(p) : Way(q, i) = Way(p, i)
      /\ Way(p, Len(p)) = p /\ Way(q, m) = q
  BY FurtherPath
<1> HIDE DEF q
<1>2. m - 1 = Len(p) /\ (m = 1 <=> Len(p) = 0) /\ m # 0
  BY <1>1
<1>3. /\ PlaceOf(q, m - 1) \in Places
      /\ PlaceOf(q, m) = Below(PlaceOf(q, m - 1), q[m])
      /\ PlaceOf(q, m - 1) \in ProviderMaps <=> m = 2 /\ q[1] \in ProviderMaps
      /\ PlaceOf(q, m) \in Arrays => m = 1 /\ ByItsName(Way(q, m))
  BY <1>1, PlacesOnTheWay
<1>4. PlaceOf(q, m - 1) = PlaceOf(p, Len(p))
  <2>1. CASE Len(p) = 0
    BY <1>2, <2>1 DEF PlaceOf
  <2>2. CASE Len(p) = 1
    <3>1. Way(q, 1)[1] = q[1] /\ Way(p, 1)[1] = p[1]
      <4>1. 1 \in 1..1 /\ 1 \in 1..(Len(p) + 1) /\ 1 \in (1 - 1)..Len(p) /\ 1 \in 1..(m + 1) /\ 1 \in (1 - 1)..m
            /\ 1 - 1 + 1 = 1 /\ 1 + 1 - 1 = 1
        BY <1>1, <2>2
      <4>2. \A i \in 1..(1 - 1 + 1) : SubSeq(p, 1, 1)[i] = p[1 + i - 1]
        BY <4>1, Part
      <4>3. \A i \in 1..(1 - 1 + 1) : SubSeq(q, 1, 1)[i] = q[1 + i - 1]
        BY <1>1, <4>1, Part
      <4> QED
        BY <4>1, <4>2, <4>3 DEF Way
    <3>2. Way(q, 1) = Way(p, 1)
      BY <1>1, <2>2
    <3> QED
      BY <1>2, <2>2, <3>1, <3>2 DEF PlaceOf
  <2>3. CASE Len(p) # 0 /\ Len(p) # 1
    BY <1>2, <2>3 DEF PlaceOf
  <2> QED
    BY <2>1, <2>2, <2>3
<1>5. Decides(q) <=> /\ IsNode(At(overlay, q))
                     /\ \/ At(overlay, q).tag # "plain" \/ ~IsMap(At(overlay, q))
                        \/ PlaceOf(p, Len(p)) \in ProviderMaps
  <2>1. Decides(Way(q, m)) <=>
           /\ IsNode(At(overlay, Way(q, m)))
           /\ \/ At(overlay, Way(q, m)).tag # "plain" \/ ~IsMap(At(overlay, Way(q, m)))
              \/ PlaceOf(q, m - 1) \in ProviderMaps
    BY <1>1, DecidesThere
  <2> QED
    BY <1>1, <1>4, <2>1
<1>6. ByItsName(q) <=> Below(PlaceOf(p, Len(p)), k) \in Arrays
  <2>1. ASSUME ByItsName(q)
        PROVE  PlaceOf(q, m) \in Arrays
    BY <2>1 DEF ByItsName, PlaceOf, Arrays
  <2> QED
    BY <1>1, <1>3, <1>4, <2>1
<1>7. ASSUME ByItsName(q)
      PROVE  p = <<>> /\ q[1] = k /\ PlaceOf(p, Len(p)) \notin ProviderMaps
  <2>1. m = 1 /\ Len(p) = 0
    BY <1>2, <1>7 DEF ByItsName
  <2>2. p = <<>>
    BY <2>1
  <2> QED
    BY <1>1, <1>3, <1>4, <2>1, <2>2
<1>8. Deciding(p) = {i \in 0..Len(p) : Decides(Way(p, i))} /\ Deciding(q) = {i \in 0..m : Decides(Way(q, i))}
  BY DEF Deciding, Way
<1>9. \A i \in 0..m : (i \in 0..Len(p) /\ i < m) \/ (i = m /\ i = Len(p) + 1 /\ ~(i < m) /\ i \notin 0..Len(p))
  BY <1>1
<1>10. \A i \in 0..Len(p) : i \in 0..m
  BY <1>1
<1> HIDE DEF m
<1>11. Deciding(q) = Deciding(p) \cup (IF Decides(q) THEN {Len(p) + 1} ELSE {})
  <2>1. m \in 0..m /\ m = Len(p) + 1
    BY <1>1 DEF m
  <2>2. \A i : i \in Deciding(q) <=> i \in Deciding(p) \/ (Decides(q) /\ i = m)
    BY <1>1, <1>8, <1>9, <1>10, <2>1
  <2> QED
    BY <2>1, <2>2
<1>12. {i \in Deciding(q) : i < m} = Deciding(p)
  BY <1>1, <1>8, <1>9, <1>10
<1> QED
  BY <1>1, <1>3, <1>4, <1>5, <1>6, <1>7, <1>11, <1>12 DEF q, m

\* The mistakes at a place, by what stands there.
LEMMA WrongIs ==
  ASSUME Mergeable, overlay \in Unambiguous[Depth], NEW p \in Seq(Keys), At(overlay, p) # Missing
  PROVE  /\ IsMap(At(overlay, p)) /\ At(overlay, p).tag # "delete" =>
              (Wrong(p) <=> At(overlay, p).flaw = "directive")
         /\ IsScalar(At(overlay, p)) /\ At(overlay, p).tag # "delete" => ~Wrong(p)
         /\ IsList(At(overlay, p)) /\ At(overlay, p).tag # "delete" =>
              IF ByItsName(p) /\ At(overlay, p).tag = "plain"
              THEN Wrong(p) <=> ArrayMistake(p[1])
              ELSE Wrong(p) <=> Stripped(At(overlay, p)) = Failed
         /\ At(overlay, p).tag = "delete" =>
              (Wrong(p) <=> \/ ~IsNull(At(overlay, p)) \/ At(data, p) = Missing
                            \/ {i \in Deciding(p) : i < Len(p)} # {})
<1> DEFINE n == At(overlay, p)
           decided == {i \in Deciding(p) : i < Len(p)}
<1>1. /\ n \in Unambiguous[Depth] /\ n \in Overlays[Depth]
      /\ IsMap(n) => n.flaw \in {"none", "directive"}
  BY UnambiguousAt
<1>2. ~HasDuplicateKey(n) /\ n.tag \in {"plain", "replace", "delete"}
  <2>1. Depth \in 1..Depth
    BY DepthNat
  <2> HIDE DEF n
  <2> QED
    BY <1>1, <2>1, OverlayShape DEF HasDuplicateKey, Tags
<1>3. At(overlay, <<>>) = overlay /\ overlay.tag = "plain" /\ IsMap(overlay) /\ overlay \in Standing
  <2>1. overlay \in Standing
    BY LevelThere
  <2>2. <<>> \in Seq(Keys)
    OBVIOUS
  <2>3. At(overlay, Way(<<>>, 0)) = overlay /\ Way(<<>>, 0) = <<>>
    BY <2>1, <2>2, AtStep
  <2> QED
    BY <2>1, <2>3 DEF Mergeable
<1>4. p = <<>> => n.tag = "plain" /\ IsMap(n)
  BY <1>3
<1>5. ASSUME Len(p) = 1
      PROVE  /\ p[1] \in MergedByName <=> ByItsName(p) /\ IsList(n) /\ n.tag = "plain"
  <2>1. Way(p, 0) = <<>> /\ Way(p, Len(p)) = p /\ At(overlay, Way(p, 0)) = overlay
        /\ \A i \in 1..Len(p) : At(overlay, Way(p, i)) = Get(At(overlay, Way(p, i - 1)), p[i])
    BY <1>3, AtStep
  <2>2. 1 \in 1..Len(p) /\ 1 - 1 = 0
    BY <1>5
  <2>3. n = Get(overlay, p[1])
    BY <1>5, <2>1, <2>2
  <2> HIDE DEF n
  <2> QED
    BY <1>5, <2>3 DEF MergedByName, ByItsName
<1>6. Wrong(p) <=> FieldMistake(p) \/ (ByItsName(p) /\ IsList(n) /\ n.tag = "plain" /\ ArrayMistake(p[1]))
  <2>1. ByItsName(p) => Len(p) = 1
    BY DEF ByItsName
  <2> HIDE DEF n
  <2> QED
    BY <1>5, <2>1 DEF Wrong
<1>7. FieldMistake(p) <=>
        \/ IsMap(n) /\ n.flaw # "none"
        \/ IsList(n) /\ HasDuplicateKey(n)
        \/ n.tag = "delete" /\ (p = <<>> \/ ~IsNull(n) \/ At(data, p) = Missing \/ decided # {})
        \/ n.tag = "replace" /\ p = <<>>
        \/ IsList(n) /\ ~(ByItsName(p) /\ n.tag = "plain") /\ Stripped(n) = Failed
  BY DEF FieldMistake
<1> HIDE DEF n, decided
<1>8. /\ IsMap(n) => ~IsList(n) /\ ~IsScalar(n) /\ ~IsNull(n)
      /\ IsList(n) => ~IsMap(n) /\ ~IsScalar(n) /\ ~IsNull(n)
      /\ IsScalar(n) => ~IsMap(n) /\ ~IsList(n)
  BY DEF IsMap, IsList, IsScalar, IsNull
<1>9. IsMap(n) /\ n.tag # "delete" => (Wrong(p) <=> n.flaw = "directive")
  BY <1>1, <1>4, <1>6, <1>7, <1>8
<1>10. IsScalar(n) /\ n.tag # "delete" => ~Wrong(p)
  BY <1>4, <1>6, <1>7, <1>8
<1>11. IsList(n) /\ n.tag # "delete" =>
         IF ByItsName(p) /\ n.tag = "plain" THEN Wrong(p) <=> ArrayMistake(p[1])
         ELSE Wrong(p) <=> Stripped(n) = Failed
  BY <1>2, <1>4, <1>6, <1>7, <1>8
<1>12. n.tag = "delete" => (Wrong(p) <=> ~IsNull(n) \/ At(data, p) = Missing \/ decided # {})
  BY <1>1, <1>2, <1>4, <1>6, <1>7, <1>8
<1> QED
  BY <1>9, <1>10, <1>11, <1>12 DEF n, decided

\* The level of one key more.
LEMMA OneLevelLess ==
  ASSUME NEW d \in 1..Depth, NEW p \in Seq(Keys), Len(p) = Depth - d, NEW k \in Keys
  PROVE  Append(p, k) \in Seq(Keys) /\ Len(Append(p, k)) = Depth - (d - 1) /\ d - 1 \in 0..Depth
<1>1. Append(p, k) \in Seq(Keys) /\ Len(Append(p, k)) = Len(p) + 1 /\ Len(p) \in Nat
  BY FurtherPath
<1> QED
  BY <1>1, DepthNat

\* An override without a mistake in a field repeats no key.
FieldsRight == \A q \in Seq(Keys) : At(overlay, q) # Missing => ~FieldMistake(q)

LEMMA NoneRepeated ==
  ASSUME Mergeable, FieldsRight
  PROVE  \A d \in 0..Depth : \A p \in Seq(Keys) :
           Len(p) = Depth - d /\ At(overlay, p) # Missing => At(overlay, p) \in Unambiguous[d]
<1> DEFINE Claim(d, p) ==
             Len(p) = Depth - d /\ At(overlay, p) # Missing => At(overlay, p) \in Unambiguous[d]
           S == {d \in 0..Depth : \A p \in Seq(Keys) : Claim(d, p)}
<1>0. Depth \in Nat \ {0} /\ 0 \in 0..Depth
  BY DepthNat
<1>1. 0 \in S
  <2>1. ASSUME NEW p \in Seq(Keys), Len(p) = Depth - 0, At(overlay, p) # Missing
        PROVE  FALSE
    <3>1. Depth - Len(p) \in 1..Depth
      BY <2>1, LevelThere
    <3> QED
      BY <1>0, <2>1, <3>1
  <2> QED
    BY <1>0, <2>1
<1>2. ASSUME NEW d \in 1..Depth, d - 1 \in S
      PROVE  d \in S
  <2>0. d \in 0..Depth /\ \A q \in Seq(Keys) : Claim(d - 1, q)
    BY <1>0, <1>2
  <2>1. ASSUME NEW p \in Seq(Keys), Len(p) = Depth - d, At(overlay, p) # Missing
        PROVE  At(overlay, p) \in Unambiguous[d]
    <3> DEFINE o == At(overlay, p)
               tags == Tags
               flaws == Flaws
    <3>1. overlay \in Standing
      BY LevelThere
    <3>2. o \in Overlays[d]
      <4>1. o \in Overlays[Depth - Len(p)]
        BY <2>1, LevelThere
      <4>2. Depth - Len(p) = d
        BY <1>0, <2>1
      <4> QED
        BY <4>1, <4>2
    <3>3. ~FieldMistake(p)
      BY <2>1 DEF FieldsRight
    <3>4. /\ IsMap(o) => o.flaw = "none"
          /\ IsList(o) => ~HasDuplicateKey(o)
      BY <3>3 DEF FieldMistake
    <3>5. /\ o.kind \in {"scalar", "list", "map"} /\ o.tag \in Tags
          /\ IsScalar(o) => o = [kind |-> "scalar", tag |-> o.tag, value |-> o.value] /\ o.value \in Texts
          /\ IsMap(o) => /\ o = [kind |-> "map", tag |-> o.tag, at |-> o.at, flaw |-> o.flaw]
                         /\ o.at \in [Keys -> {Missing} \cup Overlays[d - 1]]
      <4>1. Overlays = Documents(tags, flaws)
        BY DEF Overlays
      <4> HIDE DEF tags, flaws, o
      <4>2. o \in Documents(tags, flaws)[d]
        BY <3>2, <4>1
      <4>3. /\ o.kind \in {"scalar", "list", "map"} /\ o.tag \in tags
            /\ IsScalar(o) => o = [kind |-> "scalar", tag |-> o.tag, value |-> o.value] /\ o.value \in Texts
            /\ IsList(o) => /\ o = [kind |-> "list", tag |-> o.tag, items |-> o.items]
                            /\ o.items \in Seq(Documents(tags, flaws)[d - 1])
            /\ IsMap(o) => /\ o = [kind |-> "map", tag |-> o.tag, at |-> o.at, flaw |-> o.flaw]
                           /\ o.at \in [Keys -> {Missing} \cup Documents(tags, flaws)[d - 1]]
                           /\ o.flaw \in flaws
        BY <4>2, Shape, Zenon
      <4> QED
        BY <4>1, <4>3 DEF tags
    <3>6. CASE IsScalar(o)
      <4> HIDE DEF o
      <4> QED
        BY <3>5, <3>6, MakeUnambiguous DEF o
    <3>7. CASE IsList(o)
      <4>1. o \in Unambiguous[Depth]
        BY <3>4, <3>7 DEF HasDuplicateKey
      <4> HIDE DEF o
      <4>2. o \in Unambiguous[d]
        BY <2>0, <3>2, <4>1, UnambiguousThere
      <4> QED
        BY <4>2 DEF o
    <3>8. CASE IsMap(o)
      <4>1. ASSUME NEW k \in Keys
            PROVE  o.at[k] \in {Missing} \cup Unambiguous[d - 1]
        <5> DEFINE q == Append(p, k)
        <5>1. q \in Seq(Keys) /\ Len(q) = Depth - (d - 1)
          BY <2>1, OneLevelLess
        <5>2. At(overlay, q) = Get(o, k)
          BY <3>1, AtAppend
        <5>3. Get(o, k) = o.at[k]
          BY <3>8 DEF Get
        <5>4. Claim(d - 1, q)
          BY <2>0, <5>1
        <5> HIDE DEF q, o
        <5> QED
          BY <5>1, <5>2, <5>3, <5>4
      <4> HIDE DEF o
      <4>2. o.at \in [Keys -> {Missing} \cup Unambiguous[d - 1]]
        BY <3>5, <3>8, <4>1
      <4>3. o = [kind |-> "map", tag |-> o.tag, at |-> o.at, flaw |-> "none"] /\ o.tag \in Tags
        BY <3>4, <3>5, <3>8
      <4>4. "none" \in {"none", "directive"}
        OBVIOUS
      <4>5. [kind |-> "map", tag |-> o.tag, at |-> o.at, flaw |-> "none"] \in Unambiguous[d]
        BY <4>2, <4>3, <4>4, MakeUnambiguous
      <4> QED
        BY <4>3, <4>5 DEF o
    <3> QED
      BY <3>5, <3>6, <3>7, <3>8 DEF IsScalar, IsList, IsMap
  <2> QED
    BY <2>0, <2>1
<1>3. 0..Depth \subseteq S
  <2> HIDE DEF S
  <2> QED
    BY <1>0, <1>1, <1>2, Climb
<1> QED
  BY <1>3

\* When a node cannot be stripped.
LEMMA StrippedNode ==
  ASSUME NEW d \in 1..Depth, NEW o \in Overlays[d]
  PROVE  /\ o.tag = "delete" => Stripped(o) = Failed
         /\ o.tag # "delete" /\ IsScalar(o) => Stripped(o) # Failed
         /\ o.tag # "delete" /\ IsMap(o) =>
              (Stripped(o) = Failed <=>
                 o.flaw = "directive" \/ \E k \in Keys : o.at[k] # Missing /\ Stripped(o.at[k]) = Failed)
<1> DEFINE f == stripped[d - 1]
<1>0. d \in 0..Depth /\ d - 1 \in 0..Depth
  BY DepthNat
<1>1. Stripped(o) = Strip(o, f)
  BY <1>0, StrippedSame, StrippedOn
<1>2. \A c \in Overlays[d - 1] : f[c] = Stripped(c)
  BY <1>0, StrippedSame
<1> HIDE DEF f
<1>3. o.tag = "delete" => Stripped(o) = Failed
  <2>1. o.tag = "delete" => Strip(o, f) = Failed
    BY Zenon DEF Strip
  <2> QED
    BY <1>1, <2>1
<1>4. ASSUME o.tag # "delete", IsScalar(o)
      PROVE  Stripped(o) # Failed
  <2>1. ~IsList(o) /\ ~IsMap(o)
    BY <1>4 DEF IsScalar, IsList, IsMap
  <2>2. Strip(o, f) = Scalar(o.value)
    BY <1>4, <2>1, Zenon DEF Strip
  <2>3. Scalar(o.value) # Failed
    BY DEF Scalar, Failed
  <2> QED
    BY <1>1, <2>2, <2>3
<1>5. ASSUME o.tag # "delete", IsMap(o)
      PROVE  Stripped(o) = Failed <=>
               o.flaw = "directive" \/ \E k \in Keys : o.at[k] # Missing /\ Stripped(o.at[k]) = Failed
  <2> DEFINE F(k) == IF o.at[k] = Missing THEN Missing ELSE f[o.at[k]]
             m == Map([k \in Keys |-> F(k)])
  <2>1. Strip(o, f) = IF o.flaw = "directive" \/ \E k \in Keys : F(k) = Failed THEN Failed ELSE m
    BY <1>5, StripMap
  <2>2. o.at \in [Keys -> {Missing} \cup Overlays[d - 1]]
    BY <1>5, OverlayShape
  <2>3. Missing # Failed
    BY DEF Missing, Failed
  <2>4. \A k \in Keys : F(k) = Failed <=> o.at[k] # Missing /\ Stripped(o.at[k]) = Failed
    BY <1>2, <2>2, <2>3
  <2>5. m # Failed
    BY DEF Map, Failed
  <2> HIDE DEF F, m
  <2> QED
    BY <1>1, <2>1, <2>4, <2>5
<1> QED
  BY <1>3, <1>4, <1>5

\* On the document itself nothing is decided.
LEMMA RootUndecided ==
  ASSUME Mergeable
  PROVE  Deciding(<<>>) = {} /\ At(overlay, <<>>) = overlay /\ At(data, <<>>) = data
<1>1. <<>> \in Seq(Keys) /\ Len(<<>>) = 0
  OBVIOUS
<1>2. overlay \in Standing /\ data \in Standing
  BY <1>1, LevelThere
<1>3. At(overlay, Way(<<>>, 0)) = overlay /\ Way(<<>>, 0) = <<>>
  BY <1>1, <1>2, AtStep
<1>4. At(data, Way(<<>>, 0)) = data
  BY <1>1, <1>2, AtStep
<1>5. ~Decides(<<>>)
  BY <1>1, <1>3 DEF Decides, Mergeable
<1>6. Deciding(<<>>) = {i \in 0..0 : Decides(Way(<<>>, i))}
  BY <1>1 DEF Deciding, Way
<1>7. \A i \in 0..0 : i = 0
  OBVIOUS
<1> QED
  BY <1>3, <1>4, <1>5, <1>6, <1>7

\* What replaces what there was, and is not merged.
Settled(p) == /\ Deciding(p) # {}
              /\ At(overlay, p).tag = "delete" => {i \in Deciding(p) : i < Len(p)} # {}
              /\ ~(ByItsName(p) /\ At(overlay, p).tag = "plain" /\ IsList(At(overlay, p)))

\* Such a value cannot be stripped exactly when there is a mistake in it.
LEMMA SettledFails ==
  ASSUME Mergeable, overlay \in Unambiguous[Depth]
  PROVE  \A d \in 0..Depth : \A p \in Seq(Keys) :
           Len(p) = Depth - d /\ At(overlay, p) # Missing /\ Settled(p) =>
             (Stripped(At(overlay, p)) = Failed <=> WrongFrom(p))
<1> DEFINE Claim(d, p) == Len(p) = Depth - d /\ At(overlay, p) # Missing /\ Settled(p) =>
                            (Stripped(At(overlay, p)) = Failed <=> WrongFrom(p))
           S == {d \in 0..Depth : \A p \in Seq(Keys) : Claim(d, p)}
<1>0. Depth \in Nat \ {0} /\ 0 \in 0..Depth
  BY DepthNat
<1>1. 0 \in S
  <2>1. ASSUME NEW p \in Seq(Keys), Len(p) = Depth - 0, At(overlay, p) # Missing
        PROVE  FALSE
    <3>1. Depth - Len(p) \in 1..Depth
      BY <2>1, LevelThere
    <3> QED
      BY <1>0, <2>1, <3>1
  <2> QED
    BY <1>0, <2>1
<1>2. ASSUME NEW d \in 1..Depth, d - 1 \in S
      PROVE  d \in S
  <2>0. d \in 0..Depth /\ \A q \in Seq(Keys) : Claim(d - 1, q)
    BY <1>0, <1>2
  <2>1. ASSUME NEW p \in Seq(Keys), Len(p) = Depth - d, At(overlay, p) # Missing, Settled(p)
        PROVE  Stripped(At(overlay, p)) = Failed <=> WrongFrom(p)
    <3> DEFINE o == At(overlay, p)
    <3>1. overlay \in Standing
      BY LevelThere
    <3>2. o \in Overlays[d]
      <4>1. o \in Overlays[Depth - Len(p)]
        BY <2>1, LevelThere
      <4>2. Depth - Len(p) = d
        BY <1>0, <2>1
      <4> QED
        BY <4>1, <4>2
    <3>3. WrongFrom(p) <=> Wrong(p) \/ \E k \in Keys : WrongFrom(Append(p, k))
      BY <2>1, <3>1, WrongStep
    <3>4. \A k \in Keys : At(overlay, Append(p, k)) = Get(o, k)
      BY <3>1, AtAppend
    <3>5. /\ o.tag = "delete" => Stripped(o) = Failed
          /\ o.tag # "delete" /\ IsScalar(o) => Stripped(o) # Failed
          /\ o.tag # "delete" /\ IsMap(o) =>
               (Stripped(o) = Failed <=>
                  o.flaw = "directive" \/ \E k \in Keys : o.at[k] # Missing /\ Stripped(o.at[k]) = Failed)
      <4> HIDE DEF o
      <4> QED
        BY <3>2, StrippedNode
    <3>6. /\ IsMap(o) /\ o.tag # "delete" => (Wrong(p) <=> o.flaw = "directive")
          /\ IsScalar(o) /\ o.tag # "delete" => ~Wrong(p)
          /\ IsList(o) /\ o.tag # "delete" =>
               IF ByItsName(p) /\ o.tag = "plain" THEN Wrong(p) <=> ArrayMistake(p[1])
               ELSE Wrong(p) <=> Stripped(o) = Failed
          /\ o.tag = "delete" =>
               (Wrong(p) <=> ~IsNull(o) \/ At(data, p) = Missing \/ {i \in Deciding(p) : i < Len(p)} # {})
      BY <2>1, WrongIs
    <3>7. ASSUME ~IsMap(o), NEW k \in Keys
          PROVE  ~WrongFrom(Append(p, k))
      <4>1. At(overlay, Append(p, k)) = Missing
        BY <3>4, <3>7 DEF Get
      <4>2. Append(p, k) \in Seq(Keys)
        BY FurtherPath
      <4> QED
        BY <3>1, <4>1, <4>2, NothingWrong
    <3>8. CASE o.tag = "delete"
      <4>1. Wrong(p)
        BY <2>1, <3>6, <3>8 DEF Settled
      <4> QED
        BY <3>3, <3>5, <3>8, <4>1
    <3>9. CASE o.tag # "delete" /\ IsScalar(o)
      <4>1. ~IsMap(o)
        BY <3>9 DEF IsScalar, IsMap
      <4> QED
        BY <3>3, <3>5, <3>6, <3>7, <3>9, <4>1
    <3>10. CASE o.tag # "delete" /\ IsList(o)
      <4>1. ~IsMap(o)
        BY <3>10 DEF IsList, IsMap
      <4>2. ~(ByItsName(p) /\ o.tag = "plain")
        BY <2>1, <3>10 DEF Settled
      <4>3. Wrong(p) <=> Stripped(o) = Failed
        BY <3>6, <3>10, <4>2
      <4> QED
        BY <3>3, <3>7, <4>1, <4>3
    <3>11. CASE o.tag # "delete" /\ IsMap(o)
      <4>1. ASSUME NEW k \in Keys
            PROVE  WrongFrom(Append(p, k)) <=> o.at[k] # Missing /\ Stripped(o.at[k]) = Failed
        <5> DEFINE q == Append(p, k)
        <5>1. q \in Seq(Keys) /\ Len(q) = Depth - (d - 1)
          BY <2>1, OneLevelLess
        <5>2. At(overlay, q) = o.at[k]
          BY <3>4, <3>11 DEF Get
        <5>3. Settled(q)
          <6>1. /\ ByItsName(q) => p = <<>>
                /\ Deciding(p) \subseteq Deciding(q)
                /\ {i \in Deciding(q) : i < Len(q)} = Deciding(p)
            BY OneKeyMore
          <6>2. Deciding(p) # {}
            BY <2>1 DEF Settled
          <6>3. p # <<>>
            BY <6>2, RootUndecided
          <6> QED
            BY <6>1, <6>2, <6>3 DEF Settled
        <5>4. Claim(d - 1, q)
          BY <2>0, <5>1
        <5>5. At(overlay, q) = Missing => ~WrongFrom(q)
          BY <3>1, <5>1, NothingWrong
        <5> HIDE DEF q, o
        <5> QED
          BY <5>1, <5>2, <5>3, <5>4, <5>5 DEF q
      <4> HIDE DEF o
      <4> QED
        BY <3>3, <3>5, <3>6, <3>11, <4>1 DEF o
    <3>12. o.kind \in {"scalar", "list", "map"}
      <4> HIDE DEF o
      <4> QED
        BY <3>2, OverlayShape
    <3> QED
      BY <3>8, <3>9, <3>10, <3>11, <3>12 DEF IsScalar, IsList, IsMap
  <2> QED
    BY <2>0, <2>1
<1>3. 0..Depth \subseteq S
  <2> HIDE DEF S
  <2> QED
    BY <1>0, <1>1, <1>2, Climb
<1> QED
  BY <1>3

\* The merge on a level.
LEMMA MergeOn ==
  ASSUME NEW d \in 1..Depth, NEW b \in Configs[d] \cup {Missing}, NEW o \in Overlays[d], NEW place \in Places
  PROVE  merge[d][<<b, o, place>>] = Merge(b, o, place, merge[d - 1])
<1> DEFINE lower == merge[d - 1]
<1>1. <<b, o, place>> \in Pairs(d)
  BY DEF Pairs
<1>2. merge[d] = Level(d, lower)
  BY MergeLevels
<1> HIDE DEF lower
<1>3. Level(d, lower)[<<b, o, place>>] = Merge(b, o, place, lower)
  BY <1>1 DEF Level
<1> QED
  BY <1>2, <1>3 DEF lower

\* When two lists cannot be merged.
LEMMA ListFails ==
  ASSUME NEW e \in 0..Depth, NEW b, b.items \in Seq(Configs[e]), NEW o, o.items \in Seq(Overlays[e]), NEW place
  PROVE  MergeList(b, o, place) = Failed <=>
           IF place \in Arrays THEN ~Sound(place, b.items, o.items) ELSE Stripped(o) = Failed
<1>0. "rules" \notin IdentityArrays
  BY DEF IdentityArrays
<1>1. CASE place \in IdentityArrays
  <2>1. MergeList(b, o, place) = MergeIdentityArray(b, o)
    BY <1>1 DEF MergeList
  <2>2. place # "rules" /\ place \in Arrays
    BY <1>0, <1>1 DEF Arrays
  <2>3. MergeIdentityArray(b, o) = Failed <=> ~Sound(place, b.items, o.items)
    BY <2>2, NamesFail
  <2> QED
    BY <2>1, <2>2, <2>3
<1>2. CASE place = "rules"
  <2>1. MergeList(b, o, place) = MergeRules(b, o)
    BY <1>0, <1>2 DEF MergeList
  <2>2. place \in Arrays
    BY <1>2 DEF Arrays
  <2>3. MergeRules(b, o) = Failed <=> ~Sound("rules", b.items, o.items)
    BY RulesFail
  <2> QED
    BY <1>2, <2>1, <2>2, <2>3
<1>3. CASE place \notin IdentityArrays /\ place # "rules"
  <2>1. MergeList(b, o, place) = Stripped(o)
    BY <1>3 DEF MergeList
  <2>2. place \notin Arrays
    BY <1>3 DEF Arrays
  <2> QED
    BY <2>1, <2>2
<1> QED
  BY <1>1, <1>2, <1>3

\* A mapping merged on a level fails exactly when there is a mistake in it.
MergeClaim(d, p) ==
  (Len(p) = Depth - d /\ IsMap(At(overlay, p)) /\ At(overlay, p).tag = "plain" /\ Deciding(p) = {})
    => (merge[d][<<At(data, p), At(overlay, p), PlaceOf(p, Len(p))>>] = Failed <=> WrongFrom(p))

\* So it is for an entry of such a mapping, when it is so one level further down.
LEMMA EntryFails ==
  ASSUME Mergeable, overlay \in Unambiguous[Depth], NEW d \in 1..Depth, NEW p \in Seq(Keys), Len(p) = Depth - d,
         IsMap(At(overlay, p)), Deciding(p) = {}, NEW k \in Keys,
         NEW b, Get(b, k) = At(data, Append(p, k)), MergeClaim(d - 1, Append(p, k))
  PROVE  Entry(b, At(overlay, p), PlaceOf(p, Len(p)), merge[d - 1], k) = Failed <=> WrongFrom(Append(p, k))
<1> DEFINE q == Append(p, k)
           o == At(overlay, p)
           c == At(overlay, q)
           x == At(data, q)
           place == PlaceOf(p, Len(p))
           place2 == Below(place, k)
           below == merge[d - 1]
           entry == Entry(b, o, place, below, k)
<1>0. Depth \in Nat \ {0}
  BY DepthNat
<1>1. q \in Seq(Keys) /\ Len(q) = Depth - (d - 1) /\ d - 1 \in 0..Depth
  BY OneLevelLess
<1>2. overlay \in Standing /\ data \in Standing
  BY LevelThere
<1>3. c = o.at[k] /\ Get(b, k) = x
  <2>1. c = Get(o, k)
    BY <1>2, AtAppend
  <2> QED
    BY <2>1 DEF Get
<1>4. c # Missing => d - 1 \in 1..Depth /\ c \in Overlays[d - 1] /\ x \in Configs[d - 1] \cup {Missing}
  <2>1. Depth - Len(q) = d - 1
    BY <1>0, <1>1
  <2> QED
    BY <1>1, <2>1, LevelThere
<1>5. /\ place \in Places /\ PlaceOf(q, Len(q)) = place2
      /\ Decides(q) <=> IsNode(c) /\ (c.tag # "plain" \/ ~IsMap(c) \/ place \in ProviderMaps)
      /\ ByItsName(q) <=> place2 \in Arrays
      /\ ByItsName(q) => p = <<>> /\ q[1] = k /\ place \notin ProviderMaps
      /\ Deciding(q) = Deciding(p) \cup (IF Decides(q) THEN {Len(p) + 1} ELSE {})
      /\ {i \in Deciding(q) : i < Len(q)} = Deciding(p)
  BY OneKeyMore
<1>6. place2 \in Places
  BY <1>5, BelowType
<1>7. x # Failed
  <2>1. x \in Standing
    BY <1>1, <1>2, AtAppend, AtStep, Prefix DEF Way
  <2>2. Depth \in 0..Depth
    BY <1>0
  <2>3. Missing # Failed
    BY DEF Missing, Failed
  <2> QED
    BY <2>1, <2>2, <2>3, NoNode DEF Standing, Overlays
<1>8. WrongFrom(q) => c # Missing
  BY <1>1, <1>2, NothingWrong
<1>9. c # Missing => IsNode(c)
  <2> HIDE DEF c
  <2> QED
    BY <1>1, <1>4, NoNode DEF Overlays
<1>10. c # Missing =>
         (WrongFrom(q) <=> Wrong(q) \/ (IsMap(c) /\ \E j \in Keys : WrongFrom(Append(q, j))))
  <2>1. ASSUME c # Missing
        PROVE  WrongFrom(q) <=> Wrong(q) \/ \E j \in Keys : WrongFrom(Append(q, j))
    BY <1>1, <1>2, <2>1, WrongStep
  <2>2. ASSUME ~IsMap(c), NEW j \in Keys
        PROVE  ~WrongFrom(Append(q, j))
    <3>1. At(overlay, Append(q, j)) = Get(c, j)
      BY <1>1, <1>2, AtAppend
    <3>2. Get(c, j) = Missing
      BY <2>2 DEF Get
    <3>3. Append(q, j) \in Seq(Keys)
      BY <1>1, FurtherPath
    <3> QED
      BY <1>2, <3>1, <3>2, <3>3, NothingWrong
  <2> QED
    BY <2>1, <2>2
<1>11. c # Missing =>
         /\ IsList(c) /\ c.tag # "delete" =>
              IF ByItsName(q) /\ c.tag = "plain" THEN Wrong(q) <=> ArrayMistake(q[1])
              ELSE Wrong(q) <=> Stripped(c) = Failed
         /\ c.tag = "delete" =>
              (Wrong(q) <=> ~IsNull(c) \/ x = Missing \/ {i \in Deciding(q) : i < Len(q)} # {})
  BY <1>1, WrongIs
<1>12. c # Missing /\ Settled(q) => (Stripped(c) = Failed <=> WrongFrom(q))
  BY <1>1, SettledFails
<1>13. CASE c = Missing
  <2>1. entry = Get(b, k)
    BY <1>3, <1>13, EntryUntouched
  <2> QED
    BY <1>3, <1>7, <1>8, <1>13, <2>1
<1>14. CASE c # Missing /\ c.tag = "delete"
  <2>1. IsDeletion(c)
    BY <1>9, <1>14 DEF IsDeletion
  <2>2. entry = IF IsNull(c) /\ x # Missing THEN Missing ELSE Failed
    BY <1>3, <1>14, <2>1, EntryDeleted
  <2>3. Missing # Failed
    BY DEF Missing, Failed
  <2>4. Wrong(q) <=> ~IsNull(c) \/ x = Missing
    BY <1>5, <1>11, <1>14
  <2>5. IsMap(c) => ~IsNull(c)
    BY DEF IsMap, IsNull, IsScalar
  <2> HIDE DEF entry, c, x, q
  <2> QED
    BY <1>10, <1>14, <2>2, <2>3, <2>4, <2>5 DEF entry, q
<1>15. CASE c # Missing /\ c.tag # "delete" /\ place \in ProviderMaps
  <2>1. ~IsDeletion(c)
    BY <1>15 DEF IsDeletion
  <2>2. entry = Stripped(c)
    BY <1>3, <1>9, <1>15, <2>1, EntryOfProviders
  <2>3. Settled(q)
    BY <1>5, <1>9, <1>15 DEF Settled
  <2> QED
    BY <1>12, <1>15, <2>2, <2>3
<1>16. CASE c # Missing /\ c.tag # "delete" /\ place \notin ProviderMaps
  <2> DEFINE lower == merge[(d - 1) - 1]
             m == Merge(x, c, place2, lower)
  <2>0. d - 1 \in 1..Depth /\ c \in Overlays[d - 1] /\ x \in Configs[d - 1] \cup {Missing}
    BY <1>4, <1>16
  <2>1. entry = below[<<x, c, place2>>]
    <3>1. ~IsDeletion(c) /\ IsNode(c)
      BY <1>9, <1>16 DEF IsDeletion
    <3> QED
      BY <1>3, <1>16, <3>1 DEF Entry
  <2>2. below[<<x, c, place2>>] = m
    <3> HIDE DEF x, c, place2
    <3> QED
      BY <1>6, <2>0, MergeOn
  <2>3. CASE c.tag = "replace" \/ IsScalar(c)
    <3> HIDE DEF lower, x, place2
    <3>1. m = Stripped(c)
      BY <2>3, MergeReplaced
    <3>2. ~(c.tag = "plain" /\ IsList(c)) /\ (c.tag # "plain" \/ ~IsMap(c))
      BY <2>3 DEF IsScalar, IsList, IsMap
    <3>3. Settled(q)
      BY <1>5, <1>9, <1>16, <3>2 DEF Settled
    <3> QED
      BY <1>12, <1>16, <2>1, <2>2, <3>1, <3>3
  <2>4. CASE c.tag # "replace" /\ IsList(c)
    <3> DEFINE bl == IF IsList(x) THEN x ELSE List(<<>>)
               e == (d - 1) - 1
    <3>1. m = MergeList(bl, c, place2)
      <4> HIDE DEF lower, x, place2, c
      <4> QED
        BY <2>4, MergeOfLists
    <3>2. e \in 0..Depth /\ c.items \in Seq(Overlays[e]) /\ bl.items \in Seq(Configs[e])
      <4> HIDE DEF c, x
      <4>1. e \in 0..Depth
        BY <1>0, <2>0
      <4>2. c.items \in Seq(Overlays[e])
        BY <2>0, <2>4, OverlayShape
      <4>3. CASE IsList(x)
        <5>1. x \in Configs[d - 1]
          BY <2>0, <4>3 DEF IsList, Missing
        <5>2. x.items \in Seq(Configs[e])
          BY <2>0, <4>3, <5>1, ConfigShape
        <5> QED
          BY <4>1, <4>2, <4>3, <5>2
      <4>4. CASE ~IsList(x)
        <5>1. bl.items = <<>>
          BY <4>4 DEF List
        <5> HIDE DEF bl, e
        <5>2. <<>> \in Seq(Configs[e])
          OBVIOUS
        <5> QED
          BY <4>1, <4>2, <5>1, <5>2
      <4> QED
        BY <4>3, <4>4
    <3>3. m = Failed <=> IF place2 \in Arrays THEN ~Sound(place2, bl.items, c.items) ELSE Stripped(c) = Failed
      <4> HIDE DEF bl, e, c, place2, m
      <4> QED
        BY <3>1, <3>2, ListFails
    <3>4. c.tag = "plain"
      <4> HIDE DEF c
      <4> QED
        BY <1>16, <2>0, <2>4, OverlayShape DEF Tags
    <3>5. ~IsMap(c)
      BY <2>4 DEF IsList, IsMap
    <3>6. CASE place2 \notin Arrays
      <4>1. Settled(q)
        BY <1>5, <1>9, <1>16, <3>5, <3>6 DEF Settled
      <4> QED
        BY <1>12, <1>16, <2>1, <2>2, <3>3, <3>6, <4>1
    <3>7. CASE place2 \in Arrays
      <4>1. ByItsName(q) /\ p = <<>> /\ q[1] = k
        BY <1>5, <3>7
      <4>2. place2 = k
        <5>1. place = "document"
          BY <4>1 DEF PlaceOf
        <5> QED
          BY <5>1 DEF Below
      <4>3. o = overlay /\ At(data, p) = data
        BY <4>1, RootUndecided
      <4>4. c = Get(overlay, k) /\ x = Get(data, k)
        <5>1. c = Get(o, k)
          BY <1>2, AtAppend
        <5>2. x = Get(At(data, p), k)
          BY <1>2, AtAppend
        <5> QED
          BY <4>3, <5>1, <5>2
      <4>5. Items(overlay, k) = c.items
        BY <2>4, <4>4 DEF Items
      <4>6. Items(data, k) = bl.items
        BY <4>4 DEF Items, List
      <4>7. ArrayMistake(k) <=> ~Sound(k, bl.items, c.items)
        <5> HIDE DEF bl, c
        <5> QED
          BY <4>5, <4>6, SoundIs
      <4>8. Wrong(q) <=> ArrayMistake(k)
        BY <1>11, <1>16, <2>4, <3>4, <4>1
      <4> HIDE DEF c, x, bl, m, q, place2
      <4> QED
        BY <1>10, <1>16, <2>1, <2>2, <3>3, <3>5, <3>7, <4>2, <4>7, <4>8 DEF q
    <3> QED
      BY <3>6, <3>7
  <2>5. CASE c.tag # "replace" /\ IsMap(c)
    <3>1. c.tag = "plain"
      <4> HIDE DEF c
      <4> QED
        BY <1>16, <2>0, <2>5, OverlayShape DEF Tags
    <3>2. ~Decides(q)
      BY <1>5, <1>16, <2>5, <3>1
    <3>3. Deciding(q) = {}
      BY <1>5, <3>2
    <3>4. below[<<x, c, PlaceOf(q, Len(q))>>] = Failed <=> WrongFrom(q)
      BY <1>1, <2>5, <3>1, <3>3 DEF MergeClaim
    <3> QED
      BY <1>5, <2>1, <3>4
  <2> QED
    BY <1>9, <1>16, <2>3, <2>4, <2>5 DEF IsNode, IsScalar, IsList, IsMap
<1> QED
  BY <1>13, <1>14, <1>15, <1>16

\* Every path leads to a place.
LEMMA PlaceThere ==
  ASSUME NEW p \in Seq(Keys)
  PROVE  PlaceOf(p, Len(p)) \in Places
<1>1. "document" \in Places /\ "nested" \in Places /\ Keys \subseteq Places
  BY DEF Places
<1>2. CASE Len(p) = 1
  <2>1. p[1] \in Keys
    BY <1>2
  <2> QED
    BY <1>1, <1>2, <2>1 DEF PlaceOf
<1>3. CASE Len(p) # 1
  BY <1>1, <1>3 DEF PlaceOf
<1> QED
  BY <1>2, <1>3

\* A merge fails exactly when there is a mistake in the override.
LEMMA MergeFails ==
  ASSUME Mergeable, overlay \in Unambiguous[Depth]
  PROVE  \A d \in 0..Depth : \A p \in Seq(Keys) : MergeClaim(d, p)
<1> DEFINE S == {d \in 0..Depth : \A p \in Seq(Keys) : MergeClaim(d, p)}
<1>0. Depth \in Nat \ {0} /\ 0 \in 0..Depth
  BY DepthNat
<1>1. 0 \in S
  <2>1. ASSUME NEW p \in Seq(Keys), Len(p) = Depth - 0, IsMap(At(overlay, p))
        PROVE  FALSE
    <3>1. At(overlay, p) # Missing
      BY <2>1 DEF IsMap, Missing
    <3>2. Depth - Len(p) \in 1..Depth
      BY <3>1, LevelThere
    <3> QED
      BY <1>0, <2>1, <3>2
  <2> QED
    BY <1>0, <2>1 DEF MergeClaim
<1>2. ASSUME NEW d \in 1..Depth, d - 1 \in S
      PROVE  d \in S
  <2>0. d \in 0..Depth /\ \A q \in Seq(Keys) : MergeClaim(d - 1, q)
    BY <1>0, <1>2
  <2>1. ASSUME NEW p \in Seq(Keys), Len(p) = Depth - d, IsMap(At(overlay, p)), At(overlay, p).tag = "plain",
               Deciding(p) = {}
        PROVE  merge[d][<<At(data, p), At(overlay, p), PlaceOf(p, Len(p))>>] = Failed <=> WrongFrom(p)
    <3> DEFINE o == At(overlay, p)
               b == At(data, p)
               place == PlaceOf(p, Len(p))
               bm == IF IsMap(b) THEN b ELSE Mapping(<<>>)
               below == merge[d - 1]
    <3>1. overlay \in Standing /\ data \in Standing /\ o # Missing
      BY <2>1, LevelThere DEF IsMap, Missing
    <3>2. o \in Overlays[d] /\ b \in Configs[d] \cup {Missing}
      <4>1. o \in Overlays[Depth - Len(p)] /\ b \in Configs[Depth - Len(p)] \cup {Missing}
        BY <3>1, LevelThere
      <4>2. Depth - Len(p) = d
        BY <1>0, <2>1
      <4> QED
        BY <4>1, <4>2
    <3>3. place \in Places
      BY PlaceThere
    <3>4. merge[d][<<b, o, place>>] = Merge(b, o, place, below)
      <4> HIDE DEF b, o, place
      <4> QED
        BY <3>2, <3>3, MergeOn
    <3>5. Merge(b, o, place, below) = MergeMapping(bm, o, place, below)
      <4>1. o.tag # "replace" /\ IsMap(o)
        BY <2>1
      <4> HIDE DEF b, o, place, below
      <4> QED
        BY <4>1, MergeOfMaps
    <3>6. ASSUME NEW k \in Keys
          PROVE  Entry(bm, o, place, below, k) = Failed <=> WrongFrom(Append(p, k))
      <4>1. Get(bm, k) = At(data, Append(p, k))
        <5>1. At(data, Append(p, k)) = Get(b, k)
          BY <3>1, AtAppend
        <5>2. Get(Mapping(<<>>), k) = Missing
          BY EmptyType DEF Get, Map, IsMap
        <5>3. Get(bm, k) = Get(b, k)
          <6> HIDE DEF b
          <6> QED
            BY <5>2 DEF Get
        <5> QED
          BY <5>1, <5>3
      <4>2. MergeClaim(d - 1, Append(p, k))
        <5>1. Append(p, k) \in Seq(Keys)
          BY FurtherPath
        <5> QED
          BY <2>0, <5>1
      <4> HIDE DEF bm
      <4> QED
        BY <2>1, <4>1, <4>2, EntryFails
    <3>7. Wrong(p) <=> o.flaw = "directive"
      <4>1. o.tag # "delete"
        BY <2>1
      <4> QED
        BY <2>1, <3>1, <4>1, WrongIs
    <3>8. WrongFrom(p) <=> Wrong(p) \/ \E k \in Keys : WrongFrom(Append(p, k))
      BY <3>1, WrongStep
    <3> DEFINE result == Map([k \in Keys |-> Entry(bm, o, place, below, k)])
    <3>9. MergeMapping(bm, o, place, below) =
            IF o.flaw = "directive" \/ \E k \in Keys : Entry(bm, o, place, below, k) = Failed
            THEN Failed ELSE result
      BY DEF MergeMapping
    <3>10. result # Failed
      BY DEF Map, Failed
    <3> HIDE DEF result, bm, o, b, place, below
    <3>11. merge[d][<<b, o, place>>] = Failed <=> WrongFrom(p)
      BY <3>4, <3>5, <3>6, <3>7, <3>8, <3>9, <3>10
    <3> QED
      BY <3>11 DEF o, b, place
  <2> QED
    BY <2>0, <2>1 DEF MergeClaim
<1>3. 0..Depth \subseteq S
  <2> HIDE DEF S
  <2> QED
    BY <1>0, <1>1, <1>2, Climb
<1> QED
  BY <1>3

\* The mistakes of the override: in a field, and in an array merged by name.
InFields == \E p \in Paths(overlay) : FieldMistake(p)
InArrays == \E f \in MergedByName : ArrayMistake(f)

\* The document itself is a place.
LEMMA RootIs ==
  ASSUME overlay \in Overlays[Depth]
  PROVE  /\ overlay \in Standing /\ IsNode(overlay)
         /\ overlay # Missing /\ overlay # Failed /\ overlay # Legacy
         /\ <<>> \in Seq(Keys) /\ Len(<<>>) = 0 /\ At(overlay, <<>>) = overlay
         /\ Paths(overlay) = {p \in Seq(Keys) : At(overlay, p) # Missing}
         /\ <<>> \in Paths(overlay)
<1>0. Depth \in 0..Depth
  BY DepthNat
<1>1. overlay \in Standing /\ IsNode(overlay) /\ overlay # Missing /\ overlay # Failed /\ overlay # Legacy
  BY <1>0, NoNode DEF Overlays, Standing
<1>2. <<>> \in Seq(Keys) /\ Len(<<>>) = 0
  OBVIOUS
<1>3. At(overlay, Way(<<>>, 0)) = overlay /\ Way(<<>>, 0) = <<>>
  BY <1>1, <1>2, AtStep
<1>4. Paths(overlay) = {p \in Seq(Keys) : At(overlay, p) # Missing}
  BY PathsOf
<1> QED
  BY <1>1, <1>2, <1>3, <1>4

\* In a mapping, the mistakes are those on the way from the document on.
LEMMA MistakesFrom ==
  ASSUME overlay \in Overlays[Depth]
  PROVE  (InFields \/ InArrays) <=> WrongFrom(<<>>)
<1>1. /\ overlay \in Standing /\ <<>> \in Seq(Keys) /\ Len(<<>>) = 0 /\ At(overlay, <<>>) = overlay
      /\ Paths(overlay) = {p \in Seq(Keys) : At(overlay, p) # Missing}
  BY RootIs
<1>2. \A q \in Seq(Keys) : Way(q, 0) = <<>> /\ 0 <= Len(q)
  <2>1. \A q \in Seq(Keys) : 0 <= Len(q)
    OBVIOUS
  <2> QED
    BY <2>1, Prefix DEF Way
<1>3. WrongFrom(<<>>) <=> \E q \in Seq(Keys) : At(overlay, q) # Missing /\ Wrong(q)
  BY <1>1, <1>2 DEF WrongFrom
<1>4. ASSUME NEW f \in MergedByName, ArrayMistake(f)
      PROVE  WrongFrom(<<>>)
  <2>1. IsList(Get(overlay, f)) /\ f \in Keys
    BY DEF MergedByName, Get, IsList, Missing
  <2> DEFINE q == Append(<<>>, f)
  <2>2. q \in Seq(Keys) /\ Len(q) = 1 /\ q[1] = f
    BY <2>1
  <2>3. At(overlay, q) = Get(overlay, f)
    <3>1. At(overlay, q) = Get(At(overlay, <<>>), f)
      BY <1>1, <2>1, AtAppend
    <3> QED
      BY <1>1, <3>1
  <2> HIDE DEF q
  <2>4. At(overlay, q) # Missing
    BY <2>1, <2>3 DEF IsList, Missing
  <2>5. Wrong(q)
    BY <1>4, <2>2 DEF Wrong
  <2> QED
    BY <1>3, <2>2, <2>4, <2>5
<1>5. \A q : Wrong(q) <=> FieldMistake(q) \/ (Len(q) = 1 /\ q[1] \in MergedByName /\ ArrayMistake(q[1]))
  BY DEF Wrong
<1> QED
  BY <1>1, <1>3, <1>4, <1>5 DEF InFields, InArrays

\* A repeated key is a mistake in a field, whatever there is to merge with.
LEMMA RepeatedIsMistake ==
  ASSUME data \in Configs[Depth] \cup {Missing}, overlay \in Overlays[Depth], overlay.tag = "plain",
         HasDuplicateKey(overlay)
  PROVE  InFields
<1>0. Depth \in Nat \ {0} /\ Depth \in 0..Depth /\ Depth \in 1..Depth
  BY DepthNat
<1>1. /\ <<>> \in Seq(Keys) /\ Len(<<>>) = 0 /\ At(overlay, <<>>) = overlay /\ overlay # Missing
      /\ Paths(overlay) = {p \in Seq(Keys) : At(overlay, p) # Missing} /\ <<>> \in Paths(overlay)
  BY RootIs
<1>2. overlay \notin Unambiguous[Depth]
  BY DEF HasDuplicateKey
<1>3. CASE IsMap(overlay)
  <2> SUFFICES ASSUME ~InFields
               PROVE  FALSE
    OBVIOUS
  <2>1. Mergeable
    BY <1>3 DEF Mergeable
  <2>2. FieldsRight
    BY <1>1 DEF FieldsRight, InFields
  <2>3. Len(<<>>) = Depth - Depth
    BY <1>0, <1>1
  <2> QED
    BY <1>0, <1>1, <1>2, <2>1, <2>2, <2>3, NoneRepeated
<1>4. CASE IsList(overlay)
  <2>1. FieldMistake(<<>>)
    BY <1>1, <1>4 DEF FieldMistake
  <2> QED
    BY <1>1, <2>1 DEF InFields
<1>5. CASE IsScalar(overlay)
  <2>1. overlay = [kind |-> "scalar", tag |-> overlay.tag, value |-> overlay.value] /\ overlay.value \in Texts
    <3> DEFINE tags == Tags
               flaws == Flaws
    <3>1. Overlays = Documents(tags, flaws)
      BY DEF Overlays
    <3> HIDE DEF tags, flaws
    <3>2. overlay \in Documents(tags, flaws)[Depth]
      BY <3>1
    <3> QED
      BY <1>0, <1>5, <3>2, Shape
  <2>2. overlay.tag \in Tags
    BY DEF Tags
  <2>3. overlay \in Unambiguous[Depth]
    BY <1>0, <2>1, <2>2, MakeUnambiguous
  <2> QED
    BY <1>2, <2>3
<1>6. overlay.kind \in {"scalar", "list", "map"}
  BY <1>0, OverlayShape
<1> QED
  BY <1>3, <1>4, <1>5, <1>6 DEF IsMap, IsList, IsScalar

\* Nor has an override without directives and repeated keys one.
LEMMA PlainIsRight ==
  ASSUME overlay \in Overlays[Depth], ~HasDuplicateKey(overlay), ~HasDirective(overlay)
  PROVE  ~InFields
<1> DEFINE plain == {"plain"}
           none == {"none"}
<1>0. Depth \in Nat \ {0} /\ Depth \in 0..Depth /\ Depth \in 1..Depth
  BY DepthNat
<1>1. /\ plain \subseteq Tags /\ none \subseteq Flaws /\ Configs = Documents(plain, none)
  BY DEF Configs, Tags, Flaws
<1> HIDE DEF plain, none
<1>2. overlay \in Configs[Depth]
  BY <1>0, BothChecks DEF HasDuplicateKey, HasDirective
<1>3. ASSUME NEW p \in Seq(Keys), At(overlay, p) # Missing
      PROVE  ~FieldMistake(p)
  <2> DEFINE n == At(overlay, p)
             d == Depth - Len(p)
  <2>1. Len(p) < Depth /\ n \in Documents(plain, none)[d]
    <3>1. overlay \in Documents(plain, none)[Depth]
      BY <1>1, <1>2
    <3> QED
      BY <1>1, <1>3, <3>1, AtLevel
  <2>2. d \in 0..Depth /\ d \in 1..Depth /\ Depth \in d..Depth
    <3>1. Len(p) \in Nat
      OBVIOUS
    <3> QED
      BY <1>0, <2>1, <3>1
  <2> HIDE DEF n, d
  <2>3. n \in Configs[d] /\ n \in Configs[Depth]
    BY <1>1, <2>1, <2>2, MoreLevels
  <2>4. n.tag = "plain" /\ (IsMap(n) => n.flaw = "none")
    <3>1. n.tag = "plain" /\ (IsMap(n) => n = Map(n.at))
      BY <2>2, <2>3, ConfigShape
    <3>2. \A at : Map(at).flaw = "none"
      BY DEF Map
    <3> QED
      BY <3>1, <3>2
  <2>5. ~HasDuplicateKey(n)
    BY <1>0, <2>3, ConfigsAreOverlays DEF HasDuplicateKey
  <2>6. Stripped(n) # Failed
    <3>1. Stripped(n) = n
      BY <2>2, <2>3, StrippedPlain
    <3>2. n # Failed
      BY <1>1, <2>2, <2>3, NoNode
    <3> QED
      BY <3>1, <3>2
  <2> QED
    BY <2>4, <2>5, <2>6 DEF FieldMistake, n
<1> QED
  BY <1>3, RootIs DEF InFields

\* A document that is no mapping is wrong only as a whole.
LEMMA AloneIs ==
  ASSUME overlay \in Overlays[Depth], overlay.tag = "plain", ~HasDuplicateKey(overlay), ~IsMap(overlay)
  PROVE  /\ InFields <=> Stripped(overlay) = Failed
         /\ ~InArrays
<1>0. Depth \in Nat \ {0} /\ Depth \in 1..Depth
  BY DepthNat
<1>1. /\ overlay \in Standing /\ overlay # Missing /\ <<>> \in Seq(Keys) /\ Len(<<>>) = 0
      /\ At(overlay, <<>>) = overlay
      /\ Paths(overlay) = {p \in Seq(Keys) : At(overlay, p) # Missing} /\ <<>> \in Paths(overlay)
  BY RootIs
<1>2. \A k : Get(overlay, k) = Missing
  BY DEF Get
<1>3. ASSUME NEW p \in Paths(overlay)
      PROVE  p = <<>>
  <2>1. p \in Seq(Keys) /\ At(overlay, p) # Missing /\ Len(p) \in Nat
    BY <1>1
  <2>2. CASE Len(p) = 0
    BY <2>1, <2>2
  <2>3. CASE Len(p) # 0
    <3>1. 1 \in 1..Len(p) /\ 1 \in 0..Len(p) /\ 1 - 1 = 0
      BY <2>1, <2>3
    <3>2. At(overlay, Way(p, 1)) = Get(At(overlay, Way(p, 0)), p[1]) /\ At(overlay, Way(p, 0)) = overlay
      BY <1>1, <2>1, <3>1, AtStep
    <3>3. At(overlay, Way(p, 1)) = Missing
      BY <1>2, <3>2
    <3>4. At(overlay, p) = Missing
      BY <1>1, <2>1, <3>1, <3>3, NothingFurther
    <3> QED
      BY <2>1, <3>4
  <2> QED
    BY <2>2, <2>3
<1>4. ~ByItsName(<<>>)
  BY <1>1 DEF ByItsName
<1>5. FieldMistake(<<>>) <=> IsList(overlay) /\ Stripped(overlay) = Failed
  BY <1>1, <1>4 DEF FieldMistake
<1>6. IsScalar(overlay) => Stripped(overlay) # Failed
  BY <1>0, StrippedNode
<1>7. IsScalar(overlay) \/ IsList(overlay)
  <2>1. overlay.kind \in {"scalar", "list", "map"}
    BY <1>0, OverlayShape
  <2> QED
    BY <2>1 DEF IsMap, IsList, IsScalar
<1>8. InFields <=> Stripped(overlay) = Failed
  BY <1>1, <1>3, <1>5, <1>6, <1>7 DEF InFields
<1>9. ~InArrays
  BY <1>2 DEF InArrays, MergedByName, IsList, Missing
<1> QED
  BY <1>8, <1>9

\* Merged with nothing, it is as wrong.
LEMMA AloneFails ==
  ASSUME overlay \in Overlays[Depth], overlay.tag = "plain", ~IsMap(overlay)
  PROVE  MergeNode(Missing, overlay, "document") = Failed <=> Stripped(overlay) = Failed
<1> DEFINE below == merge[Depth - 1]
           place == "document"
           b == Missing
<1>0. Depth \in Nat \ {0} /\ Depth \in 1..Depth /\ Depth - 1 \in 0..Depth /\ place \in Places
  BY DepthNat DEF Places
<1>1. b \in Configs[Depth] \cup {Missing} /\ ~IsList(b)
  BY DEF IsList, Missing
<1> HIDE DEF below, b
<1>2. merge[Depth][<<b, overlay, place>>] = Merge(b, overlay, place, below)
  BY <1>0, <1>1, MergeOn DEF below
<1>3. Merge(b, overlay, place, below) = Failed <=> Stripped(overlay) = Failed
  <2>1. CASE IsScalar(overlay)
    <3> HIDE DEF place
    <3>1. Merge(b, overlay, place, below) = Stripped(overlay)
      BY <2>1, MergeReplaced
    <3> QED
      BY <3>1
  <2>2. CASE IsList(overlay)
    <3> DEFINE bl == List(<<>>)
               e == Depth - 1
    <3>1. Merge(b, overlay, place, below) = MergeList(bl, overlay, place)
      <4> HIDE DEF place
      <4>1. overlay.tag # "replace"
        OBVIOUS
      <4> QED
        BY <1>1, <2>2, <4>1, MergeOfLists
    <3>2. place \notin Arrays
      BY DEF Arrays, IdentityArrays
    <3>3. bl.items = <<>>
      BY DEF List
    <3> HIDE DEF place, bl, e
    <3>4. bl.items \in Seq(Configs[e]) /\ overlay.items \in Seq(Overlays[e]) /\ e \in 0..Depth
      <4>1. <<>> \in Seq(Configs[e])
        OBVIOUS
      <4>2. overlay.items \in Seq(Overlays[Depth - 1])
        BY <1>0, <2>2, OverlayShape
      <4> QED
        BY <1>0, <3>3, <4>1, <4>2 DEF e
    <3>5. MergeList(bl, overlay, place) = Failed <=> Stripped(overlay) = Failed
      BY <3>2, <3>4, ListFails
    <3> QED
      BY <3>1, <3>5
  <2>3. overlay.kind \in {"scalar", "list", "map"}
    BY <1>0, OverlayShape
  <2> QED
    BY <2>1, <2>2, <2>3 DEF IsMap, IsList, IsScalar
<1> QED
  BY <1>2, <1>3 DEF MergeNode, b

\* What there is that is no mapping counts for as much as nothing.
LEMMA NothingToMerge ==
  ASSUME Mergeable, ~IsMap(data)
  PROVE  MergeNode(Missing, overlay, "document") = MergeNode(data, overlay, "document")
<1> DEFINE below == merge[Depth - 1]
           place == "document"
           b == Missing
<1>0. Depth \in 1..Depth /\ place \in Places
  BY DepthNat DEF Places
<1>1. b \in Configs[Depth] \cup {Missing} /\ ~IsMap(b) /\ overlay \in Overlays[Depth]
      /\ data \in Configs[Depth] \cup {Missing} /\ overlay.tag # "replace" /\ IsMap(overlay)
  BY DEF IsMap, Missing, Mergeable
<1> HIDE DEF below, b, place
<1>2. /\ merge[Depth][<<b, overlay, place>>] = Merge(b, overlay, place, below)
      /\ merge[Depth][<<data, overlay, place>>] = Merge(data, overlay, place, below)
  BY <1>0, <1>1, MergeOn DEF below
<1>3. Merge(b, overlay, place, below) = MergeMapping(Mapping(<<>>), overlay, place, below)
  BY <1>1, MergeOfMaps
<1>4. Merge(data, overlay, place, below) = MergeMapping(Mapping(<<>>), overlay, place, below)
  BY <1>1, MergeOfMaps
<1> QED
  BY <1>2, <1>3, <1>4 DEF MergeNode, b, place

\* The merge of whole documents fails exactly when there is a mistake in the override.
LEMMA WholeFails ==
  ASSUME Mergeable, ~HasDuplicateKey(overlay)
  PROVE  MergeNode(data, overlay, "document") = Failed <=> (InFields \/ InArrays)
<1>0. Depth \in Nat \ {0} /\ Depth \in 0..Depth
  BY DepthNat
<1>1. overlay \in Overlays[Depth] /\ IsMap(overlay) /\ overlay.tag = "plain" /\ overlay \in Unambiguous[Depth]
  BY DEF HasDuplicateKey, Mergeable
<1>2. <<>> \in Seq(Keys) /\ Len(<<>>) = 0 /\ At(overlay, <<>>) = overlay
  BY <1>1, RootIs
<1>3. Len(<<>>) = Depth - Depth
  BY <1>0, <1>2
<1>4. Deciding(<<>>) = {} /\ At(data, <<>>) = data
  BY RootUndecided
<1>5. MergeClaim(Depth, <<>>)
  BY <1>0, <1>1, <1>2, MergeFails
<1>6. PlaceOf(<<>>, Len(<<>>)) = "document"
  BY <1>2 DEF PlaceOf
<1>7. merge[Depth][<<data, overlay, "document">>] = Failed <=> WrongFrom(<<>>)
  BY <1>1, <1>2, <1>3, <1>4, <1>5, <1>6 DEF MergeClaim
<1> QED
  BY <1>1, <1>7, MistakesFrom DEF MergeNode

\* Whatever the subscription data is, a config is rendered exactly when it can be read
\* and the override makes no mistake: every mistake is reported, and nothing else is.
\* Items of arrays are looked at if there is a mapping to merge with or a directive
\* (mergeConfig and README.md:94).
THEOREM MistakesAreErrors == RenderSpec => []MistakesAreRejected
<1>1. ASSUME RenderInv, rendered # Missing, IsNode(overlay)
      PROVE  rendered = Failed <=>
               (data = Unparsable \/ InFields \/ ((IsMap(data) \/ HasDirective(overlay)) /\ InArrays))
  <2>0. Depth \in Nat \ {0} /\ Depth \in 0..Depth /\ Depth \in 1..Depth
    BY DepthNat
  <2>1. overlay \in Overlays[Depth] /\ rendered = MergeConfig(data, overlay)
    BY <1>1 DEF RenderInv, IsNode, Missing, Unparsable, Legacy
  <2>2. overlay # Missing /\ overlay # Legacy /\ overlay # Failed /\ <<>> \in Paths(overlay)
        /\ At(overlay, <<>>) = overlay
    BY <2>1, RootIs
  <2>3. CASE data = Unparsable
    BY <1>1, <2>1, <2>2, <2>3 DEF MergeConfig
  <2>4. CASE overlay.tag # "plain"
    <3>1. rendered = Failed
      BY <2>1, <2>2, <2>4 DEF MergeConfig
    <3>2. overlay.tag \in {"plain", "replace", "delete"}
      BY <2>0, <2>1, OverlayShape DEF Tags
    <3>3. FieldMistake(<<>>)
      BY <2>2, <2>4, <3>2 DEF FieldMistake
    <3> QED
      BY <2>2, <3>1, <3>3 DEF InFields
  <2>5. data # Unparsable => data \in Configs[Depth] \cup {Missing}
    BY <1>1 DEF RenderInv
  <2>6. CASE data # Unparsable /\ overlay.tag = "plain" /\ HasDuplicateKey(overlay)
    <3>1. rendered = Failed
      BY <2>1, <2>2, <2>6 DEF MergeConfig
    <3> QED
      BY <2>1, <2>5, <2>6, <3>1, RepeatedIsMistake
  <2>7. CASE data # Unparsable /\ overlay.tag = "plain" /\ ~HasDuplicateKey(overlay)
    <3>1. rendered = IF IsMap(data) /\ IsMap(overlay) THEN MergeNode(data, overlay, "document")
                     ELSE IF HasDirective(overlay) THEN MergeNode(Missing, overlay, "document") ELSE overlay
      BY <1>1, <2>1, <2>2, <2>7 DEF MergeConfig
    <3>2. ~HasDirective(overlay) => ~InFields
      BY <2>1, <2>7, PlainIsRight
    <3>3. CASE IsMap(overlay)
      <4>1. Mergeable
        BY <2>1, <2>5, <2>7, <3>3 DEF Mergeable
      <4>2. MergeNode(data, overlay, "document") = Failed <=> (InFields \/ InArrays)
        BY <2>7, <4>1, WholeFails
      <4>3. ~IsMap(data) => MergeNode(Missing, overlay, "document") = MergeNode(data, overlay, "document")
        BY <4>1, NothingToMerge
      <4> QED
        BY <2>2, <2>7, <3>1, <3>2, <3>3, <4>2, <4>3
    <3>4. CASE ~IsMap(overlay)
      <4>1. (InFields <=> Stripped(overlay) = Failed) /\ ~InArrays
        BY <2>1, <2>7, <3>4, AloneIs
      <4>2. MergeNode(Missing, overlay, "document") = Failed <=> Stripped(overlay) = Failed
        BY <2>1, <2>7, <3>4, AloneFails
      <4> QED
        BY <2>2, <2>7, <3>1, <3>2, <3>4, <4>1, <4>2
    <3> QED
      BY <3>3, <3>4
  <2> QED
    BY <2>3, <2>4, <2>6, <2>7
<1>2. RenderInv => MistakesAreRejected
  BY <1>1 DEF MistakesAreRejected, InFields, InArrays
<1> QED
  BY <1>2, RenderInvariant, PTL
-------------------------------------------------------------------------------
\* What may be adopted on a level: what is in config.yaml, with what is in the
\* subscription or nothing.
AdoptPairs(d) == Configs[d] \X (Configs[d] \cup {Missing})

\* One level of it.
AdoptLevel(d, below) == [node \in AdoptPairs(d) |-> Adopt(node[1], node[2], below)]

\* What the levels are.
AdoptValues(d) == IF d = 0 THEN {<<>>} ELSE [AdoptPairs(d) -> Unambiguous[d]]

\* What is written into an override has no repeated keys.
LEMMA UnambiguousMake ==
  ASSUME NEW d \in 1..Depth
  PROVE  /\ \A at \in [Keys -> {Missing} \cup Unambiguous[d - 1]] : Map(at) \in Unambiguous[d]
         /\ Delete("null") \in Unambiguous[d]
<1>1. "plain" \in Tags /\ "delete" \in Tags /\ "none" \in {"none", "directive"}
  BY DEF Tags
<1>2. \A at \in [Keys -> {Missing} \cup Unambiguous[d - 1]], f \in {"none", "directive"} :
         [kind |-> "map", tag |-> "plain", at |-> at, flaw |-> f] \in Unambiguous[d]
  BY <1>1, MakeUnambiguous
<1>3. \A v \in Texts : [kind |-> "scalar", tag |-> "delete", value |-> v] \in Unambiguous[d]
  BY <1>1, MakeUnambiguous
<1>4. "null" \in Texts
  BY DocumentsAssumption DEF DocumentsAssumption
<1>5. Delete("null") = [kind |-> "scalar", tag |-> "delete", value |-> "null"]
  BY DEF Delete, Tagged, Scalar
<1> QED
  BY <1>1, <1>2, <1>3, <1>4, <1>5 DEF Map

\* There is a null to delete with, and it is no absence.
LEMMA DeletionFacts ==
  /\ Delete("null") = [kind |-> "scalar", tag |-> "delete", value |-> "null"]
  /\ Delete("null") # Missing /\ IsDeletion(Delete("null")) /\ IsNull(Delete("null"))
<1>1. Delete("null") = [kind |-> "scalar", tag |-> "delete", value |-> "null"]
  BY DEF Delete, Tagged, Scalar
<1>2. "null" \in {Blank, "null"}
  OBVIOUS
<1> QED
  BY <1>1, <1>2 DEF Missing, IsDeletion, IsNode, IsNull, IsScalar

\* A key of the adopted value.
LEMMA AdoptEntryType ==
  ASSUME NEW d \in 1..Depth, NEW v \in Configs[d], IsMap(v), NEW b \in Configs[d] \cup {Missing},
         NEW below \in AdoptValues(d - 1), NEW k \in Keys
  PROVE  /\ AdoptEntry(v, b, below, k) \in {Missing} \cup Unambiguous[d - 1]
         /\ Get(v, k) \in {Missing} \cup Configs[d - 1]
         /\ Get(b, k) \in {Missing} \cup Configs[d - 1]
<1>0. d - 1 \in 0..Depth
  BY DepthNat
<1>1. Get(v, k) \in {Missing} \cup Configs[d - 1]
  BY ConfigShape DEF Get
<1>2. Get(b, k) \in {Missing} \cup Configs[d - 1]
  <2>1. CASE IsMap(b) /\ b \in Configs[d]
    BY <2>1, ConfigShape DEF Get
  <2>2. CASE ~IsMap(b) \/ b = Missing
    BY <2>2 DEF Get, IsMap, Missing
  <2> QED
    BY <2>1, <2>2
<1>3. CASE Get(v, k) # Missing
  <2>1. d - 1 # 0
    BY <1>0, <1>1, <1>3, NoNode DEF Configs
  <2>2. <<Get(v, k), Get(b, k)>> \in AdoptPairs(d - 1)
    BY <1>1, <1>2, <1>3 DEF AdoptPairs
  <2>3. below \in [AdoptPairs(d - 1) -> Unambiguous[d - 1]]
    BY <2>1 DEF AdoptValues
  <2>4. below[<<Get(v, k), Get(b, k)>>] \in Unambiguous[d - 1]
    BY <2>2, <2>3
  <2> QED
    BY <1>1, <1>2, <1>3, <2>4 DEF AdoptEntry
<1>4. CASE Get(v, k) = Missing /\ Get(b, k) # Missing
  <2>1. d - 1 \in 1..Depth
    BY <1>0, <1>2, <1>4, NoNode, DepthNat DEF Configs
  <2>2. Delete("null") \in Unambiguous[d - 1]
    BY <2>1, UnambiguousMake
  <2> QED
    BY <1>1, <1>2, <1>4, <2>2 DEF AdoptEntry
<1>5. CASE Get(v, k) = Missing /\ Get(b, k) = Missing
  BY <1>1, <1>2, <1>5 DEF AdoptEntry
<1> QED
  BY <1>3, <1>4, <1>5

\* One level of what is written, when the one below it is.
LEMMA AdoptLevelType ==
  ASSUME NEW d \in 1..Depth, NEW below \in AdoptValues(d - 1)
  PROVE  AdoptLevel(d, below) \in AdoptValues(d)
<1>0. d # 0 /\ d \in 0..Depth
  BY DepthNat
<1>1. ASSUME NEW node \in AdoptPairs(d)
      PROVE  Adopt(node[1], node[2], below) \in Unambiguous[d]
  <2>1. node[1] \in Configs[d] /\ node[2] \in Configs[d] \cup {Missing}
    BY DEF AdoptPairs
  <2>2. CASE IsMap(node[1])
    <3> DEFINE at == [k \in Keys |-> AdoptEntry(node[1], node[2], below, k)]
    <3>1. at \in [Keys -> {Missing} \cup Unambiguous[d - 1]]
      BY <2>1, <2>2, AdoptEntryType
    <3>2. Adopt(node[1], node[2], below) = Map(at)
      BY <2>2 DEF Adopt
    <3> QED
      BY <3>1, <3>2, UnambiguousMake
  <2>3. CASE ~IsMap(node[1])
    BY <1>0, <2>1, <2>3, ConfigsAreOverlays DEF Adopt
  <2> QED
    BY <2>2, <2>3
<1>2. AdoptLevel(d, below) \in [AdoptPairs(d) -> Unambiguous[d]]
  BY <1>1 DEF AdoptLevel
<1> QED
  BY <1>0, <1>2 DEF AdoptValues

\* Whole values.
LEMMA AdoptLevels ==
  /\ \A d \in 1..Depth : adopt[d] = AdoptLevel(d, adopt[d - 1])
  /\ \A d \in 0..Depth : adopt[d] \in AdoptValues(d)
<1> DEFINE W == [e \in 0..Depth |-> AdoptValues(e)]
           step == [e \in 1..Depth |-> [v \in W[e - 1] |-> AdoptLevel(e, v)]]
<1>0. Depth \in Nat \ {0}
  BY DepthNat
<1>1. ASSUME NEW e \in 1..Depth, NEW v \in W[e - 1]
      PROVE  step[e][v] = AdoptLevel(e, v) /\ step[e][v] \in W[e]
  <2>1. step[e][v] = AdoptLevel(e, v)
    OBVIOUS
  <2>2. e \in 0..Depth /\ e - 1 \in 0..Depth
    BY <1>0
  <2>3. v \in AdoptValues(e - 1)
    BY <2>2
  <2>4. AdoptLevel(e, v) \in AdoptValues(e)
    BY <2>3, AdoptLevelType
  <2> QED
    BY <2>1, <2>2, <2>4
<1>2. W[0] = {<<>>}
  BY <1>0 DEF AdoptValues
<1>3. PICK f : ByLevels(Depth, <<>>, step, f) /\ f \in Within(Depth, W)
  <2> HIDE DEF W, step
  <2>1. <<>> \in W[0]
    BY <1>2
  <2>2. \A e \in 1..Depth : \A v \in W[e - 1] : step[e][v] \in W[e]
    BY <1>1
  <2>3. Steps(Depth, W, <<>>, step)
    BY <2>1, <2>2 DEF Steps
  <2> QED
    BY <1>0, <2>3, Recursion
<1>4. f = [e \in 0..Depth |-> IF e = 0 THEN <<>> ELSE AdoptLevel(e, f[e - 1])]
  <2>1. \A e \in 0..Depth : e # 0 => e \in 1..Depth /\ e - 1 \in 0..Depth
    BY <1>0
  <2>2. \A e \in 0..Depth : e # 0 => step[e][f[e - 1]] = AdoptLevel(e, f[e - 1])
    <3> HIDE DEF W, step
    <3> QED
      BY <1>1, <1>3, <2>1 DEF Within
  <2> HIDE DEF W, step
  <2> QED
    BY <1>3, <2>2 DEF ByLevels
<1>5. adopt = [e \in 0..Depth |-> IF e = 0 THEN <<>> ELSE AdoptLevel(e, adopt[e - 1])]
  BY <1>4, Zenon DEF adopt, AdoptLevel, AdoptPairs
<1>6. \A d \in 1..Depth : adopt[d] = AdoptLevel(d, adopt[d - 1])
  <2>1. \A d \in 1..Depth : d \in 0..Depth /\ d # 0
    BY <1>0
  <2> QED
    BY <1>5, <2>1
<1>7. 0..Depth \subseteq {e \in 0..Depth : adopt[e] \in AdoptValues(e)}
  <2>1. adopt[0] \in AdoptValues(0)
    BY <1>0, <1>5 DEF AdoptValues
  <2>2. \A e \in 1..Depth : adopt[e - 1] \in AdoptValues(e - 1) => adopt[e] \in AdoptValues(e)
    BY <1>6, AdoptLevelType
  <2> DEFINE S == {e \in 0..Depth : adopt[e] \in AdoptValues(e)}
  <2>3. 0 \in S
    BY <1>0, <2>1
  <2>4. \A e \in 1..Depth : e - 1 \in S => e \in S
    BY <1>0, <2>2
  <2> HIDE DEF S
  <2>5. Depth \in Nat
    BY <1>0
  <2>6. 0..Depth \subseteq S
    BY <2>3, <2>4, <2>5, Climb
  <2> QED
    BY <2>6 DEF S
<1> QED
  BY <1>6, <1>7

\* A value adopted on a level: a mapping of what its keys are, or the value itself.
LEMMA Adopting ==
  ASSUME NEW d \in 1..Depth, NEW v \in Configs[d], NEW b \in Configs[d] \cup {Missing}
  PROVE  /\ adopt[d][<<v, b>>] \in Unambiguous[d] /\ adopt[d][<<v, b>>] \in Overlays[d]
         /\ adopt[d][<<v, b>>].tag = "plain" /\ adopt[d][<<v, b>>] # Missing /\ ~IsDeletion(adopt[d][<<v, b>>])
         /\ ~IsMap(v) => adopt[d][<<v, b>>] = v
         /\ IsMap(v) => adopt[d][<<v, b>>] = Map([k \in Keys |-> AdoptEntry(v, b, adopt[d - 1], k)])
<1>0. d \in 0..Depth /\ d # 0
  BY DepthNat
<1>1. <<v, b>> \in AdoptPairs(d)
  BY DEF AdoptPairs
<1>2. adopt[d] \in [AdoptPairs(d) -> Unambiguous[d]]
  BY <1>0, AdoptLevels DEF AdoptValues
<1>3. adopt[d][<<v, b>>] = Adopt(v, b, adopt[d - 1])
  BY <1>1, AdoptLevels DEF AdoptLevel
<1>4. adopt[d][<<v, b>>] \in Unambiguous[d]
  BY <1>1, <1>2
<1>5. Unambiguous[d] \subseteq Overlays[d]
  BY <1>0, MoreTags DEF Unambiguous, Overlays, Flaws
<1>6. ~IsMap(v) => adopt[d][<<v, b>>] = v
  BY <1>3 DEF Adopt
<1>7. IsMap(v) => adopt[d][<<v, b>>] = Map([k \in Keys |-> AdoptEntry(v, b, adopt[d - 1], k)])
  BY <1>3 DEF Adopt
<1>8. adopt[d][<<v, b>>].tag = "plain"
  <2>1. v.tag = "plain"
    BY ConfigShape
  <2> QED
    BY <1>6, <1>7, <2>1 DEF Map
<1>9. adopt[d][<<v, b>>] # Missing
  BY <1>0, <1>4, NoNode DEF Unambiguous
<1> QED
  BY <1>4, <1>5, <1>6, <1>7, <1>8, <1>9 DEF IsDeletion

\* The keys of an adopted mapping: one config.yaml has, one only the subscription has,
\* and one neither has.
LEMMA AdoptedKey ==
  ASSUME NEW d \in 1..Depth, NEW v \in Configs[d], IsMap(v), NEW b \in Configs[d] \cup {Missing},
         NEW k \in Keys, Get(v, k) # Missing
  PROVE  /\ d - 1 \in 1..Depth /\ Get(v, k) \in Configs[d - 1] /\ Get(b, k) \in Configs[d - 1] \cup {Missing}
         /\ adopt[d][<<v, b>>].at[k] = adopt[d - 1][<<Get(v, k), Get(b, k)>>]
<1>0. d - 1 \in 0..Depth
  BY DepthNat
<1>1. adopt[d - 1] \in AdoptValues(d - 1)
  BY <1>0, AdoptLevels
<1>2. Get(v, k) \in Configs[d - 1] /\ Get(b, k) \in Configs[d - 1] \cup {Missing}
  BY <1>1, AdoptEntryType
<1>3. d - 1 # 0
  BY <1>2, NoNode DEF Configs
<1>4. adopt[d][<<v, b>>] = Map([x \in Keys |-> AdoptEntry(v, b, adopt[d - 1], x)])
  BY Adopting
<1>5. adopt[d][<<v, b>>].at[k] = AdoptEntry(v, b, adopt[d - 1], k)
  BY <1>4 DEF Map
<1> QED
  BY <1>0, <1>2, <1>3, <1>5 DEF AdoptEntry

\* One only the subscription has.
LEMMA DeletedKey ==
  ASSUME NEW d \in 1..Depth, NEW v \in Configs[d], IsMap(v), NEW b \in Configs[d] \cup {Missing},
         NEW k \in Keys, Get(v, k) = Missing, Get(b, k) # Missing
  PROVE  /\ d - 1 \in 1..Depth
         /\ adopt[d][<<v, b>>].at[k] = Delete("null")
<1>0. d - 1 \in 0..Depth
  BY DepthNat
<1>1. adopt[d - 1] \in AdoptValues(d - 1)
  BY <1>0, AdoptLevels
<1>2. Get(b, k) \in Configs[d - 1]
  BY <1>1, AdoptEntryType
<1>3. d - 1 # 0
  BY <1>2, NoNode DEF Configs
<1>4. adopt[d][<<v, b>>] = Map([x \in Keys |-> AdoptEntry(v, b, adopt[d - 1], x)])
  BY Adopting
<1>5. adopt[d][<<v, b>>].at[k] = AdoptEntry(v, b, adopt[d - 1], k)
  BY <1>4 DEF Map
<1> QED
  BY <1>0, <1>3, <1>5 DEF AdoptEntry

\* One neither has.
LEMMA AbsentKey ==
  ASSUME NEW d \in 1..Depth, NEW v \in Configs[d], IsMap(v), NEW b \in Configs[d] \cup {Missing},
         NEW k \in Keys, Get(v, k) = Missing, Get(b, k) = Missing
  PROVE  adopt[d][<<v, b>>].at[k] = Missing
<1>4. adopt[d][<<v, b>>] = Map([x \in Keys |-> AdoptEntry(v, b, adopt[d - 1], x)])
  BY Adopting
<1>5. adopt[d][<<v, b>>].at[k] = AdoptEntry(v, b, adopt[d - 1], k)
  BY <1>4 DEF Map
<1> QED
  BY <1>5 DEF AdoptEntry

\* Stripped of its directives, an adopted value is what config.yaml has, or it cannot be.
LEMMA StrippedAdopt ==
  \A d \in 0..Depth : \A e \in d..Depth : \A v \in Configs[d], b \in Configs[d] \cup {Missing} :
     stripped[e][adopt[d][<<v, b>>]] \in {v, Failed}
<1> DEFINE S == {d \in 0..Depth : \A e \in d..Depth : \A v \in Configs[d], b \in Configs[d] \cup {Missing} :
                                     stripped[e][adopt[d][<<v, b>>]] \in {v, Failed}}
<1>0. Depth \in Nat \ {0}
  BY DepthNat
<1>1. 0 \in S
  <2>1. Configs[0] = {}
    BY NoNode DEF Configs
  <2>2. 0 \in 0..Depth
    BY <1>0
  <2>3. \A e \in 0..Depth : \A v \in Configs[0], b \in Configs[0] \cup {Missing} :
          stripped[e][adopt[0][<<v, b>>]] \in {v, Failed}
    BY <2>1, Zenon
  <2> QED
    BY <2>2, <2>3
<1>2. ASSUME NEW d \in 1..Depth, d - 1 \in S
      PROVE  d \in S
  <2>1. ASSUME NEW e \in d..Depth, NEW v \in Configs[d], NEW b \in Configs[d] \cup {Missing}
        PROVE  stripped[e][adopt[d][<<v, b>>]] \in {v, Failed}
    <3> DEFINE a == adopt[d][<<v, b>>]
               below == stripped[e - 1]
               Child(k) == IF a.at[k] = Missing THEN Missing ELSE below[a.at[k]]
    <3>1. e \in 1..Depth /\ e - 1 \in (d - 1)..Depth /\ d \in 0..Depth /\ e - 1 \in 0..Depth
      BY <1>0
    <3>2. a \in Overlays[e]
      <4>1. a \in Overlays[d]
        BY Adopting
      <4>2. Overlays[d] \subseteq Overlays[e]
        BY <3>1, MoreLevels DEF Overlays
      <4> QED
        BY <4>1, <4>2
    <3>3. stripped[e][a] = Strip(a, below)
      <4> HIDE DEF a
      <4> QED
        BY <3>1, <3>2, StrippedOn
    <3>4. CASE ~IsMap(v)
      <4>1. a = v
        BY <3>4, Adopting
      <4>2. stripped[e][v] = v
        BY <3>1, StrippedPlain
      <4> QED
        BY <4>1, <4>2
    <3>5. CASE IsMap(v)
      <4>1. a = Map(a.at) /\ a.tag = "plain" /\ IsMap(a)
        <5>1. a = Map([k \in Keys |-> AdoptEntry(v, b, adopt[d - 1], k)])
          BY <3>5, Adopting
        <5> QED
          BY <5>1 DEF Map, IsMap
      <4>2. Strip(a, below) = IF \E k \in Keys : Child(k) = Failed THEN Failed ELSE Map([k \in Keys |-> Child(k)])
        <5>1. a.flaw # "directive"
          BY <4>1 DEF Map
        <5> HIDE DEF a, below
        <5> QED
          BY <4>1, <5>1 DEF Strip, IsScalar, IsMap, IsList
      <4>3. v = Map(v.at) /\ v.at \in [Keys -> {Missing} \cup Configs[d - 1]]
        BY <3>5, ConfigShape
      <4>4. ASSUME NEW k \in Keys PROVE Child(k) \in {v.at[k], Failed}
        <5>0. Get(v, k) = v.at[k]
          BY <3>5 DEF Get
        <5>1. CASE Get(v, k) # Missing
          <6> DEFINE x == adopt[d - 1][<<Get(v, k), Get(b, k)>>]
          <6>1. /\ d - 1 \in 1..Depth /\ Get(v, k) \in Configs[d - 1] /\ Get(b, k) \in Configs[d - 1] \cup {Missing}
                /\ a.at[k] = x
            BY <3>5, <5>1, AdoptedKey
          <6>2. x # Missing
            BY <6>1, Adopting
          <6>3. below[x] \in {Get(v, k), Failed}
            BY <1>2, <3>1, <6>1
          <6> HIDE DEF a, below, x
          <6> QED
            BY <5>0, <6>1, <6>2, <6>3
        <5>2. CASE Get(v, k) = Missing /\ Get(b, k) # Missing
          <6>1. d - 1 \in 1..Depth /\ a.at[k] = Delete("null")
            BY <3>5, <5>2, DeletedKey
          <6>2. e - 1 \in 1..Depth
            BY <1>0, <3>1, <6>1
          <6>3. Delete("null") \in Overlays[e - 1]
            <7>1. Delete("null") \in Unambiguous[e - 1]
              BY <6>2, UnambiguousMake
            <7> QED
              BY <3>1, <7>1, MoreTags DEF Unambiguous, Overlays, Flaws
          <6>4. below[Delete("null")] = Strip(Delete("null"), stripped[(e - 1) - 1])
            BY <6>2, <6>3, StrippedType
          <6>5. Strip(Delete("null"), stripped[(e - 1) - 1]) = Failed
            <7> DEFINE n == Delete("null")
            <7>1. n.tag = "delete"
              BY DeletionFacts
            <7> HIDE DEF n
            <7> QED
              BY <7>1 DEF Strip, n
          <6> HIDE DEF a, below
          <6> QED
            BY <6>1, <6>4, <6>5, DeletionFacts
        <5>3. CASE Get(v, k) = Missing /\ Get(b, k) = Missing
          <6>1. a.at[k] = Missing
            BY <3>5, <5>3, AbsentKey
          <6> HIDE DEF a, below
          <6> QED
            BY <5>0, <5>3, <6>1
        <5> QED
          BY <5>1, <5>2, <5>3
      <4> HIDE DEF a, Child, below
      <4>5. CASE \A k \in Keys : Child(k) # Failed
        <5>1. \A k \in Keys : Child(k) = v.at[k]
          BY <4>4, <4>5
        <5>2. [k \in Keys |-> Child(k)] = v.at
          BY <4>3, <5>1
        <5> QED
          BY <3>3, <4>2, <4>3, <4>5, <5>2 DEF a
      <4> QED
        BY <3>3, <4>2, <4>5 DEF a
    <3> QED
      BY <3>4, <3>5
  <2> QED
    BY <1>0, <2>1
<1>3. 0..Depth \subseteq S
  <2> HIDE DEF S
  <2> QED
    BY <1>0, <1>1, <1>2, Climb
<1> QED
  BY <1>3

\* What may be compared on a level, one level of it, and what the levels are.
KeepPairs(d) == (Configs[d] \cup {Missing}) \X Configs[d]
KeepLevel(d, below) == [node \in KeepPairs(d) |-> KeepsNode(node[1], node[2], below)]
KeepValues(d) == IF d = 0 THEN {<<>>} ELSE [KeepPairs(d) -> BOOLEAN]

\* One level of the comparison.
LEMMA KeepLevelType ==
  ASSUME NEW d \in 1..Depth, NEW below
  PROVE  KeepLevel(d, below) \in KeepValues(d)
<1>1. d # 0
  BY DepthNat
<1>2. \A m, n : KeepsNode(m, n, below) \in BOOLEAN
  BY DEF KeepsNode
<1> QED
  BY <1>1, <1>2 DEF KeepLevel, KeepValues

\* Whole values compared.
LEMMA KeepLevels ==
  \A d \in 1..Depth : keeps[d] = KeepLevel(d, keeps[d - 1])
<1> DEFINE W == [e \in 0..Depth |-> KeepValues(e)]
           step == [e \in 1..Depth |-> [v \in W[e - 1] |-> KeepLevel(e, v)]]
<1>0. Depth \in Nat \ {0}
  BY DepthNat
<1>1. ASSUME NEW e \in 1..Depth, NEW v \in W[e - 1]
      PROVE  step[e][v] = KeepLevel(e, v) /\ step[e][v] \in W[e]
  <2>1. step[e][v] = KeepLevel(e, v)
    OBVIOUS
  <2>2. e \in 0..Depth /\ e - 1 \in 0..Depth
    BY <1>0
  <2>4. KeepLevel(e, v) \in KeepValues(e)
    BY KeepLevelType
  <2> QED
    BY <2>1, <2>2, <2>4
<1>2. W[0] = {<<>>}
  BY <1>0 DEF KeepValues
<1>3. PICK f : ByLevels(Depth, <<>>, step, f) /\ f \in Within(Depth, W)
  <2> HIDE DEF W, step
  <2>1. <<>> \in W[0]
    BY <1>2
  <2>2. \A e \in 1..Depth : \A v \in W[e - 1] : step[e][v] \in W[e]
    BY <1>1
  <2>3. Steps(Depth, W, <<>>, step)
    BY <2>1, <2>2 DEF Steps
  <2> QED
    BY <1>0, <2>3, Recursion
<1>4. f = [e \in 0..Depth |-> IF e = 0 THEN <<>> ELSE KeepLevel(e, f[e - 1])]
  <2>1. \A e \in 0..Depth : e # 0 => e \in 1..Depth /\ e - 1 \in 0..Depth
    BY <1>0
  <2>2. \A e \in 0..Depth : e # 0 => step[e][f[e - 1]] = KeepLevel(e, f[e - 1])
    <3> HIDE DEF W, step
    <3> QED
      BY <1>1, <1>3, <2>1 DEF Within
  <2> HIDE DEF W, step
  <2> QED
    BY <1>3, <2>2 DEF ByLevels
<1>5. keeps = [e \in 0..Depth |-> IF e = 0 THEN <<>> ELSE KeepLevel(e, keeps[e - 1])]
  BY <1>4, Zenon DEF keeps, KeepLevel, KeepPairs
<1>6. \A d \in 1..Depth : d \in 0..Depth /\ d # 0
  BY <1>0
<1> QED
  BY <1>5, <1>6

\* A value is kept when it is there, or, a mapping, when what it has is.
LEMMA Keeping ==
  ASSUME NEW d \in 1..Depth, NEW m \in Configs[d] \cup {Missing}, NEW n \in Configs[d]
  PROVE  /\ ~IsMap(n) => keeps[d][<<m, n>>] = (m = n)
         /\ IsMap(n) => keeps[d][<<m, n>>] = (IsMap(m) /\ \A k \in KeysOf(n) : keeps[d - 1][<<Get(m, k), Get(n, k)>>])
<1>1. <<m, n>> \in KeepPairs(d)
  BY DEF KeepPairs
<1>2. keeps[d][<<m, n>>] = KeepsNode(m, n, keeps[d - 1])
  BY <1>1, KeepLevels DEF KeepLevel
<1> QED
  BY <1>2 DEF KeepsNode

\* Whatever a config has is in itself.
LEMMA KeepsItself ==
  \A d \in 0..Depth : \A v \in Configs[d] : keeps[d][<<v, v>>]
<1> DEFINE S == {d \in 0..Depth : \A v \in Configs[d] : keeps[d][<<v, v>>]}
<1>0. Depth \in Nat \ {0}
  BY DepthNat
<1>1. 0 \in S
  BY <1>0, NoNode DEF Configs
<1>2. ASSUME NEW d \in 1..Depth, d - 1 \in S
      PROVE  d \in S
  <2>1. ASSUME NEW v \in Configs[d]
        PROVE  keeps[d][<<v, v>>]
    <3>1. CASE ~IsMap(v)
      BY <3>1, Keeping
    <3>2. CASE IsMap(v)
      <4>1. \A k \in KeysOf(v) : Get(v, k) \in Configs[d - 1]
        BY <3>2, ConfigShape DEF KeysOf, Get
      <4>2. \A k \in KeysOf(v) : keeps[d - 1][<<Get(v, k), Get(v, k)>>]
        BY <1>2, <4>1
      <4> QED
        BY <3>2, <4>2, Keeping
    <3> QED
      BY <3>1, <3>2
  <2> QED
    BY <1>0, <2>1
<1>3. 0..Depth \subseteq S
  <2> HIDE DEF S
  <2> QED
    BY <1>0, <1>1, <1>2, Climb
<1> QED
  BY <1>3

\* Merging levels: a node of the merge, unfolded.
LEMMA Merging ==
  ASSUME NEW d \in 1..Depth, NEW b \in Configs[d] \cup {Missing}, NEW o \in Overlays[d], NEW p \in Places
  PROVE  /\ merge[d][<<b, o, p>>] = Merge(b, o, p, merge[d - 1])
         /\ merge[d][<<b, o, p>>] \in Configs[d] \cup {Failed}
<1>1. <<b, o, p>> \in Pairs(d)
  BY DEF Pairs
<1>2. d \in 0..Depth /\ d # 0
  BY DepthNat
<1>3. merge[d] = Level(d, merge[d - 1])
  BY MergeLevels
<1>4. merge[d] \in [Pairs(d) -> Configs[d] \cup {Failed}]
  BY <1>2, MergeLevels DEF MergeValues
<1> QED
  BY <1>1, <1>3, <1>4 DEF Level

\* An adopted value that is no mapping is what the merge gives, save for an array
\* that is merged by name.
LEMMA AdoptedValue ==
  ASSUME NEW d \in 1..Depth, NEW v \in Configs[d], ~IsMap(v),
         NEW c \in Configs[d] \cup {Missing}, NEW b \in Configs[d] \cup {Missing}, NEW p \in Places,
         IsList(v) => p \notin IdentityArrays \cup {"rules"}
  PROVE  merge[d][<<b, adopt[d][<<v, c>>], p>>] = v
<1>0. d \in 0..Depth
  BY DepthNat
<1>1. adopt[d][<<v, c>>] = v /\ v \in Overlays[d] /\ v.tag = "plain"
  BY Adopting
<1>2. merge[d][<<b, v, p>>] = Merge(b, v, p, merge[d - 1])
  BY <1>1, Merging
<1>3. Stripped(v) = v
  BY <1>0, StrippedPlain
<1>4. v.kind \in {"scalar", "list"}
  BY ConfigShape DEF IsMap
<1>5. CASE IsScalar(v)
  <2>1. Merge(b, v, p, merge[d - 1]) = Stripped(v)
    BY <1>5, MergeReplaced
  <2> QED
    BY <1>1, <1>2, <1>3, <2>1
<1>6. CASE IsList(v)
  <2>1. v.tag # "replace"
    BY <1>1
  <2>2. Merge(b, v, p, merge[d - 1]) = MergeList(IF IsList(b) THEN b ELSE List(<<>>), v, p)
    BY <1>6, <2>1, MergeOfLists
  <2>3. MergeList(IF IsList(b) THEN b ELSE List(<<>>), v, p) = Stripped(v)
    BY <1>6 DEF MergeList
  <2> QED
    BY <1>1, <1>2, <1>3, <2>2, <2>3
<1> QED
  BY <1>4, <1>5, <1>6 DEF IsScalar, IsList

\* An entry of the merge with an adopted mapping.
AdoptedEntry(d, v, c, b, p, k) ==
    Entry(IF IsMap(b) THEN b ELSE Mapping(<<>>), adopt[d][<<v, c>>], p, merge[d - 1], k)

\* The merge with an adopted mapping is of these entries, when none fails.
LEMMA AdoptedMapping ==
  ASSUME NEW d \in 1..Depth, NEW v \in Configs[d], IsMap(v),
         NEW c \in Configs[d] \cup {Missing}, NEW b \in Configs[d] \cup {Missing}, NEW p \in Places
  PROVE  merge[d][<<b, adopt[d][<<v, c>>], p>>] =
           IF \E k \in Keys : AdoptedEntry(d, v, c, b, p, k) = Failed THEN Failed
           ELSE Map([k \in Keys |-> AdoptedEntry(d, v, c, b, p, k)])
<1> DEFINE a == adopt[d][<<v, c>>]
           bm == IF IsMap(b) THEN b ELSE Mapping(<<>>)
<1>1. a \in Overlays[d] /\ a.tag = "plain" /\ a = Map([k \in Keys |-> AdoptEntry(v, c, adopt[d - 1], k)])
  BY Adopting
<1>2. IsMap(a) /\ a.flaw # "directive" /\ a.tag # "replace"
  BY <1>1 DEF IsMap, Map
<1> HIDE DEF a
<1>3. merge[d][<<b, a, p>>] = Merge(b, a, p, merge[d - 1])
  BY <1>1, Merging
<1>4. Merge(b, a, p, merge[d - 1]) = MergeMapping(bm, a, p, merge[d - 1])
  BY <1>2, MergeOfMaps
<1> HIDE DEF bm
<1>5. MergeMapping(bm, a, p, merge[d - 1]) =
        IF \E k \in Keys : Entry(bm, a, p, merge[d - 1], k) = Failed THEN Failed
        ELSE Map([k \in Keys |-> Entry(bm, a, p, merge[d - 1], k)])
  BY <1>2 DEF MergeMapping
<1> QED
  BY <1>3, <1>4, <1>5 DEF AdoptedEntry, a, bm

\* What the mapping the merge starts from has is what the base has.
LEMMA BaseKey ==
  ASSUME NEW b, NEW k \in Keys
  PROVE  Get(IF IsMap(b) THEN b ELSE Mapping(<<>>), k) = Get(b, k)
<1>1. CASE IsMap(b)
  BY <1>1
<1>2. CASE ~IsMap(b)
  BY <1>2 DEF Get, Mapping, Map
<1> QED
  BY <1>1, <1>2

\* Such an entry, for a key config.yaml has: the values below merged, or the value
\* itself.
LEMMA EntryKept ==
  ASSUME NEW d \in 1..Depth, NEW v \in Configs[d], IsMap(v),
         NEW c \in Configs[d] \cup {Missing}, NEW b \in Configs[d] \cup {Missing},
         NEW p \in Places, p # "document", NEW k \in Keys, Get(v, k) # Missing
  PROVE  /\ p \in ProviderMaps => AdoptedEntry(d, v, c, b, p, k) \in {Get(v, k), Failed}
         /\ p \notin ProviderMaps =>
              AdoptedEntry(d, v, c, b, p, k) =
                merge[d - 1][<<Get(b, k), adopt[d - 1][<<Get(v, k), Get(c, k)>>], "nested">>]
<1> DEFINE a == adopt[d][<<v, c>>]
           x == adopt[d - 1][<<Get(v, k), Get(c, k)>>]
           bm == IF IsMap(b) THEN b ELSE Mapping(<<>>)
           below == merge[d - 1]
<1>1. /\ d - 1 \in 1..Depth /\ Get(v, k) \in Configs[d - 1] /\ Get(c, k) \in Configs[d - 1] \cup {Missing}
      /\ a.at[k] = x
  BY AdoptedKey
<1>2. x \in Overlays[d - 1] /\ x # Missing /\ ~IsDeletion(x)
  BY <1>1, Adopting
<1>3. IsNode(x)
  <2>1. d - 1 \in 0..Depth
    BY <1>1
  <2> QED
    BY <1>2, <2>1, NoNode DEF Overlays
<1>4. Stripped(x) \in {Get(v, k), Failed}
  <2>1. d - 1 \in 0..Depth /\ Depth \in (d - 1)..Depth
    BY <1>1, DepthNat
  <2> QED
    BY <1>1, <2>1, StrippedAdopt DEF Stripped
<1>5. Get(bm, k) = Get(b, k)
  BY BaseKey
<1>6. Below(p, k) = "nested"
  BY DEF Below
<1>7. AdoptedEntry(d, v, c, b, p, k) = Entry(bm, a, p, below, k)
  BY DEF AdoptedEntry
<1> HIDE DEF a, x, bm, below
<1>8. a.at[k] # Missing /\ IsNode(a.at[k]) /\ ~IsDeletion(a.at[k])
  BY <1>1, <1>2, <1>3
<1>9. CASE p \in ProviderMaps
  <2>1. Entry(bm, a, p, below, k) = Stripped(a.at[k])
    BY <1>8, <1>9, Zenon DEF Entry
  <2> QED
    BY <1>1, <1>4, <1>7, <1>9, <2>1
<1>10. CASE p \notin ProviderMaps
  <2>1. Entry(bm, a, p, below, k) = below[<<Get(bm, k), a.at[k], Below(p, k)>>]
    BY <1>8, <1>10, Zenon DEF Entry
  <2> QED
    BY <1>1, <1>5, <1>6, <1>7, <1>10, <2>1 DEF below, x
<1> QED
  BY <1>9, <1>10

\* And for one it does not have.
LEMMA EntryDropped ==
  ASSUME NEW d \in 1..Depth, NEW v \in Configs[d], IsMap(v),
         NEW c \in Configs[d] \cup {Missing}, NEW b \in Configs[d] \cup {Missing},
         NEW p \in Places, NEW k \in Keys, Get(v, k) = Missing, Get(c, k) = Get(b, k)
  PROVE  AdoptedEntry(d, v, c, b, p, k) = Missing
<1> DEFINE a == adopt[d][<<v, c>>]
           bm == IF IsMap(b) THEN b ELSE Mapping(<<>>)
           below == merge[d - 1]
<1>1. Get(bm, k) = Get(b, k)
  BY BaseKey
<1>2. AdoptedEntry(d, v, c, b, p, k) = Entry(bm, a, p, below, k)
  BY DEF AdoptedEntry
<1>3. CASE Get(c, k) # Missing
  <2>1. a.at[k] = Delete("null")
    BY <1>3, DeletedKey
  <2> HIDE DEF a, bm, below
  <2>2. a.at[k] # Missing /\ IsDeletion(a.at[k]) /\ IsNull(a.at[k])
    BY <2>1, DeletionFacts
  <2>3. Entry(bm, a, p, below, k) = IF IsNull(a.at[k]) /\ Get(bm, k) # Missing THEN Missing ELSE Failed
    BY <2>2, EntryDeleted
  <2> QED
    BY <1>1, <1>2, <1>3, <2>2, <2>3
<1>4. CASE Get(c, k) = Missing
  <2>1. a.at[k] = Missing
    BY <1>4, AbsentKey
  <2> HIDE DEF a, bm, below
  <2>2. Entry(bm, a, p, below, k) = Get(bm, k)
    BY <2>1, EntryUntouched
  <2> QED
    BY <1>1, <1>2, <1>4, <2>2
<1> QED
  BY <1>3, <1>4

\* Where an array is merged item by item.
ByName == IdentityArrays \cup {"rules"}

\* What is adopted is kept by whatever it is merged with, when the merge succeeds.
LEMMA KeptInMerge ==
  \A d \in 0..Depth : \A v \in Configs[d], c \in Configs[d] \cup {Missing}, b \in Configs[d] \cup {Missing},
                         p \in Places \ {"document"} :
     /\ IsList(v) => p \notin ByName
     /\ merge[d][<<b, adopt[d][<<v, c>>], p>>] # Failed
     => keeps[d][<<merge[d][<<b, adopt[d][<<v, c>>], p>>], v>>]
<1> DEFINE Holds(d, v, c, b, p) ==
             /\ IsList(v) => p \notin ByName
             /\ merge[d][<<b, adopt[d][<<v, c>>], p>>] # Failed
             => keeps[d][<<merge[d][<<b, adopt[d][<<v, c>>], p>>], v>>]
           S == {d \in 0..Depth :
                   \A v \in Configs[d], c \in Configs[d] \cup {Missing}, b \in Configs[d] \cup {Missing},
                      p \in Places \ {"document"} : Holds(d, v, c, b, p)}
<1>0. Depth \in Nat \ {0}
  BY DepthNat
<1>1. 0 \in S
  <2> HIDE DEF Holds
  <2> QED
    BY <1>0, NoNode DEF Configs
<1>2. ASSUME NEW d \in 1..Depth, d - 1 \in S
      PROVE  d \in S
  <2>1. ASSUME NEW v \in Configs[d], NEW c \in Configs[d] \cup {Missing}, NEW b \in Configs[d] \cup {Missing},
               NEW p \in Places \ {"document"}, IsList(v) => p \notin ByName,
               merge[d][<<b, adopt[d][<<v, c>>], p>>] # Failed
        PROVE  keeps[d][<<merge[d][<<b, adopt[d][<<v, c>>], p>>], v>>]
    <3> DEFINE m == merge[d][<<b, adopt[d][<<v, c>>], p>>]
               E(k) == AdoptedEntry(d, v, c, b, p, k)
    <3>1. d \in 0..Depth /\ d - 1 \in 0..Depth /\ p \in Places /\ p # "document"
      BY <1>0
    <3>2. m \in Configs[d]
      <4>1. adopt[d][<<v, c>>] \in Overlays[d]
        BY Adopting
      <4> QED
        BY <2>1, <3>1, <4>1, Merging
    <3>3. CASE ~IsMap(v)
      <4>1. m = v
        BY <2>1, <3>1, <3>3, AdoptedValue DEF ByName
      <4>2. keeps[d][<<v, v>>]
        BY <3>1, KeepsItself
      <4> QED
        BY <4>1, <4>2
    <3>4. CASE IsMap(v)
      <4>1. m = IF \E k \in Keys : E(k) = Failed THEN Failed ELSE Map([k \in Keys |-> E(k)])
        BY <3>1, <3>4, AdoptedMapping
      <4>2. (\A k \in Keys : E(k) # Failed) /\ m = Map([k \in Keys |-> E(k)])
        <5> HIDE DEF E, m
        <5>1. m # Failed
          BY <2>1 DEF m
        <5> QED
          BY <4>1, <5>1
      <4>3. IsMap(m) /\ \A k \in Keys : Get(m, k) = E(k)
        <5> HIDE DEF E, m
        <5> QED
          BY <4>2 DEF IsMap, Map, Get
      <4>4. ASSUME NEW k \in KeysOf(v) PROVE keeps[d - 1][<<Get(m, k), Get(v, k)>>]
        <5>1. k \in Keys /\ Get(v, k) # Missing
          BY DEF KeysOf
        <5>2. /\ d - 1 \in 1..Depth /\ Get(v, k) \in Configs[d - 1] /\ Get(c, k) \in Configs[d - 1] \cup {Missing}
          BY <3>4, <5>1, AdoptedKey
        <5>3. Get(b, k) \in Configs[d - 1] \cup {Missing}
          BY <3>4, <5>1, AdoptedKey
        <5>4. CASE p \in ProviderMaps
          <6>1. E(k) = Get(v, k)
            <7>1. E(k) \in {Get(v, k), Failed}
              BY <3>1, <3>4, <5>1, <5>4, EntryKept
            <7> QED
              BY <4>2, <5>1, <7>1
          <6>2. keeps[d - 1][<<Get(v, k), Get(v, k)>>]
            BY <3>1, <5>2, KeepsItself
          <6> HIDE DEF m, E
          <6> QED
            BY <4>3, <5>1, <6>1, <6>2
        <5>5. CASE p \notin ProviderMaps
          <6> DEFINE x == merge[d - 1][<<Get(b, k), adopt[d - 1][<<Get(v, k), Get(c, k)>>], "nested">>]
          <6>1. E(k) = x
            BY <3>1, <3>4, <5>1, <5>5, EntryKept
          <6>2. "nested" \in Places \ {"document"} /\ "nested" \notin ByName
            BY DEF Places, ByName, IdentityArrays
          <6>3. Holds(d - 1, Get(v, k), Get(c, k), Get(b, k), "nested")
            <7> HIDE DEF Holds
            <7> QED
              BY <1>2, <5>2, <5>3, <6>2
          <6>4. x # Failed
            BY <4>2, <5>1, <6>1
          <6>5. keeps[d - 1][<<x, Get(v, k)>>]
            BY <6>2, <6>3, <6>4
          <6> HIDE DEF m, E, x
          <6> QED
            BY <4>3, <5>1, <6>1, <6>5
        <5> QED
          BY <5>4, <5>5
      <4> HIDE DEF m
      <4>5. m \in Configs[d] \cup {Missing}
        BY <3>2
      <4>6. keeps[d][<<m, v>>] = (IsMap(m) /\ \A k \in KeysOf(v) : keeps[d - 1][<<Get(m, k), Get(v, k)>>])
        BY <3>4, <4>5, Keeping
      <4>7. keeps[d][<<m, v>>]
        BY <4>3, <4>4, <4>6
      <4> QED
        BY <4>7 DEF m
    <3> QED
      BY <3>3, <3>4
  <2> QED
    BY <1>0, <2>1
<1>3. 0..Depth \subseteq S
  <2> HIDE DEF S
  <2> QED
    BY <1>0, <1>1, <1>2, Climb
<1> QED
  BY <1>3

\* Merged with the subscription it was adopted against, it gives config.yaml's value
\* back, outside the provider maps.
LEMMA MergeGivesBack ==
  \A d \in 0..Depth : \A v \in Configs[d], b \in Configs[d] \cup {Missing}, p \in Places \ {"document"} :
     /\ IsList(v) => p \notin ByName
     /\ p \notin ProviderMaps
     => merge[d][<<b, adopt[d][<<v, b>>], p>>] = v
<1> DEFINE Holds(d, v, b, p) ==
             /\ IsList(v) => p \notin ByName
             /\ p \notin ProviderMaps
             => merge[d][<<b, adopt[d][<<v, b>>], p>>] = v
           S == {d \in 0..Depth :
                   \A v \in Configs[d], b \in Configs[d] \cup {Missing}, p \in Places \ {"document"} : Holds(d, v, b, p)}
<1>0. Depth \in Nat \ {0}
  BY DepthNat
<1>1. 0 \in S
  <2> HIDE DEF Holds
  <2> QED
    BY <1>0, NoNode DEF Configs
<1>2. ASSUME NEW d \in 1..Depth, d - 1 \in S
      PROVE  d \in S
  <2>1. ASSUME NEW v \in Configs[d], NEW b \in Configs[d] \cup {Missing},
               NEW p \in Places \ {"document"}, IsList(v) => p \notin ByName, p \notin ProviderMaps
        PROVE  merge[d][<<b, adopt[d][<<v, b>>], p>>] = v
    <3> DEFINE m == merge[d][<<b, adopt[d][<<v, b>>], p>>]
               E(k) == AdoptedEntry(d, v, b, b, p, k)
    <3>1. d \in 0..Depth /\ d - 1 \in 0..Depth /\ p \in Places /\ p # "document"
      BY <1>0
    <3>3. CASE ~IsMap(v)
      BY <2>1, <3>1, <3>3, AdoptedValue DEF ByName
    <3>4. CASE IsMap(v)
      <4>1. m = IF \E k \in Keys : E(k) = Failed THEN Failed ELSE Map([k \in Keys |-> E(k)])
        BY <3>1, <3>4, AdoptedMapping
      <4>2. v = Map(v.at) /\ v.at \in [Keys -> {Missing} \cup Configs[d - 1]]
        BY <3>4, ConfigShape
      <4>3. ASSUME NEW k \in Keys PROVE E(k) = v.at[k]
        <5>1. Get(v, k) = v.at[k]
          BY <3>4 DEF Get
        <5>2. CASE Get(v, k) # Missing
          <6> DEFINE x == merge[d - 1][<<Get(b, k), adopt[d - 1][<<Get(v, k), Get(b, k)>>], "nested">>]
          <6>1. E(k) = x
            BY <2>1, <3>1, <3>4, <5>2, EntryKept
          <6>2. "nested" \in Places \ {"document"} /\ "nested" \notin ByName /\ "nested" \notin ProviderMaps
            BY DEF Places, ByName, IdentityArrays, ProviderMaps
          <6>3. /\ d - 1 \in 1..Depth /\ Get(v, k) \in Configs[d - 1] /\ Get(b, k) \in Configs[d - 1] \cup {Missing}
            BY <3>4, <5>2, AdoptedKey
          <6>4. Holds(d - 1, Get(v, k), Get(b, k), "nested")
            <7> HIDE DEF Holds
            <7> QED
              BY <1>2, <6>2, <6>3
          <6>5. x = Get(v, k)
            BY <6>2, <6>4
          <6> HIDE DEF E, x
          <6> QED
            BY <5>1, <6>1, <6>5
        <5>3. CASE Get(v, k) = Missing
          <6>1. E(k) = Missing
            BY <3>1, <3>4, <5>3, EntryDropped
          <6> HIDE DEF E
          <6> QED
            BY <5>1, <5>3, <6>1
        <5> QED
          BY <5>2, <5>3
      <4>4. \A k \in Keys : v.at[k] # Failed
        BY <3>1, <4>2, NoNode DEF Configs, Missing, Failed
      <4> HIDE DEF E, m
      <4>5. [k \in Keys |-> E(k)] = v.at
        BY <4>2, <4>3
      <4>6. m = v
        BY <4>1, <4>2, <4>3, <4>4, <4>5
      <4> QED
        BY <4>6 DEF m
    <3> QED
      BY <3>3, <3>4
  <2> QED
    BY <1>0, <2>1
<1>3. 0..Depth \subseteq S
  <2> HIDE DEF S
  <2> QED
    BY <1>0, <1>1, <1>2, Climb
<1> QED
  BY <1>3

\* In a provider map the same value, or an error: an entry is taken over whole, and
\* the deletion of a key inside it is one of nothing.
LEMMA MergeInProviders ==
  ASSUME NEW d \in 1..Depth, NEW v \in Configs[d], NEW b \in Configs[d] \cup {Missing},
         NEW p \in ProviderMaps, p \in Places, ~IsList(v)
  PROVE  merge[d][<<b, adopt[d][<<v, b>>], p>>] \in {v, Failed}
<1> DEFINE m == merge[d][<<b, adopt[d][<<v, b>>], p>>]
           E(k) == AdoptedEntry(d, v, b, b, p, k)
<1>0. d \in 0..Depth /\ d - 1 \in 0..Depth /\ p # "document"
  BY DepthNat DEF ProviderMaps
<1>1. CASE ~IsMap(v)
  BY <1>1, AdoptedValue
<1>2. CASE IsMap(v)
  <2>1. m = IF \E k \in Keys : E(k) = Failed THEN Failed ELSE Map([k \in Keys |-> E(k)])
    BY <1>2, AdoptedMapping
  <2>2. v = Map(v.at) /\ v.at \in [Keys -> {Missing} \cup Configs[d - 1]]
    BY <1>2, ConfigShape
  <2>3. ASSUME NEW k \in Keys PROVE E(k) \in {v.at[k], Failed}
    <3>1. Get(v, k) = v.at[k]
      BY <1>2 DEF Get
    <3>2. CASE Get(v, k) # Missing
      <4>1. E(k) \in {Get(v, k), Failed}
        BY <1>0, <1>2, <3>2, EntryKept
      <4> QED
        BY <3>1, <4>1
    <3>3. CASE Get(v, k) = Missing
      <4>1. E(k) = Missing
        BY <1>0, <1>2, <3>3, EntryDropped
      <4> QED
        BY <3>1, <3>3, <4>1
    <3> QED
      BY <3>2, <3>3
  <2> HIDE DEF E, m
  <2>4. CASE \A k \in Keys : E(k) # Failed
    <3>1. \A k \in Keys : E(k) = v.at[k]
      BY <2>3, <2>4
    <3>2. [k \in Keys |-> E(k)] = v.at
      BY <2>2, <3>1
    <3> QED
      BY <2>1, <2>2, <2>4, <3>2 DEF m
  <2> QED
    BY <2>1, <2>4 DEF m
<1> QED
  BY <1>1, <1>2

-------------------------------------------------------------------------------
\* What the operations keep: the subscription and config.yaml are configs, and what
\* was adopted stands in the override as it was written then.
Kept == /\ DOMAIN kept \subseteq Keys
        /\ \A f \in DOMAIN kept :
             /\ kept[f] \in Configs[Depth - 1] /\ ~IsList(kept[f])
             /\ override \in Overlays[Depth] /\ IsMap(override)
             /\ \E c \in Configs[Depth - 1] \cup {Missing} : override.at[f] = AdoptValue(kept[f], c)

Typed == /\ base \in Configs[Depth] /\ IsMap(base)
         /\ override \in Overlays[Depth] \cup {Missing, Unparsable, Legacy}
         /\ config = Missing \/ (config \in Configs[Depth] /\ IsMap(config))

AdoptInv == Typed /\ Kept

\* Stripping a document that is no mapping makes none.
LEMMA StrippedKind ==
  ASSUME NEW o \in Overlays[Depth], ~IsMap(o)
  PROVE  ~IsMap(Stripped(o))
<1>0. Depth \in 1..Depth
  BY DepthNat
<1>1. Stripped(o) = Strip(o, stripped[Depth - 1])
  BY <1>0, StrippedType DEF Stripped
<1>2. o.kind \in {"scalar", "list"}
  BY <1>0, OverlayShape DEF IsMap
<1>3. CASE o.tag = "delete"
  BY <1>1, <1>3 DEF Strip, IsMap, Failed
<1>4. CASE o.tag # "delete" /\ o.kind = "scalar"
  <2>1. Stripped(o) = Scalar(o.value)
    BY <1>1, <1>4 DEF Strip, IsMap, IsList, IsScalar
  <2> QED
    BY <2>1 DEF Scalar, IsMap
<1>5. CASE o.tag # "delete" /\ o.kind = "list"
  <2>1. Stripped(o) = Failed \/ Stripped(o) = List([i \in DOMAIN o.items |-> stripped[Depth - 1][o.items[i]]])
    BY <1>1, <1>5 DEF Strip, IsMap, IsList, IsScalar
  <2> QED
    BY <2>1 DEF List, IsMap, Failed
<1> QED
  BY <1>2, <1>3, <1>4, <1>5

\* A mapping is rendered only without an override, or with one that is a mapping and
\* repeats no key.
LEMMA OverrideIsMapping ==
  ASSUME Typed, IsMap(Rendered)
  PROVE  /\ Rendered \in Configs[Depth]
         /\ \/ override = Missing /\ Rendered = base
            \/ /\ override \in Overlays[Depth] /\ override \in Unambiguous[Depth] /\ IsMap(override)
               /\ override.tag = "plain" /\ Rendered # Failed
<1>0. Depth \in 1..Depth /\ Depth \in 0..Depth /\ "document" \in Places
  BY DepthNat DEF Places
<1>1. Rendered \in Configs[Depth]
  <2>1. Rendered \in Configs[Depth] \cup {Missing, Unparsable, Legacy, Failed}
    BY MergeMakesConfigs DEF Typed, Rendered
  <2> QED
    BY <2>1 DEF IsMap, Missing, Unparsable, Legacy, Failed
<1>2. base # Missing /\ base # Unparsable /\ Rendered # Failed
  BY DEF Typed, IsMap, Missing, Unparsable, Failed
<1>3. CASE override = Missing
  BY <1>1, <1>3 DEF Rendered, MergeConfig
<1>4. CASE override # Missing
  <2>1. /\ IsNode(override) /\ ~HasDuplicateKey(override) /\ override.tag = "plain"
        /\ Rendered = IF IsMap(base) /\ IsMap(override) THEN MergeNode(base, override, "document")
                      ELSE IF HasDirective(override) THEN MergeNode(Missing, override, "document") ELSE override
    BY <1>2, <1>4 DEF Rendered, MergeConfig
  <2>2. override \in Overlays[Depth]
    BY <1>4, <2>1 DEF Typed, IsNode, Unparsable, Legacy
  <2>3. IsMap(override)
    <3> SUFFICES ASSUME ~IsMap(override) PROVE FALSE
      OBVIOUS
    <3>1. Rendered = MergeNode(Missing, override, "document")
      BY <2>1
    <3>2. MergeNode(Missing, override, "document") = Merge(Missing, override, "document", merge[Depth - 1])
      BY <1>0, <2>2, MergeNodeType
    <3>3. Merge(Missing, override, "document", merge[Depth - 1]) = Stripped(override)
      <4>1. override.kind \in {"scalar", "list"}
        BY <1>0, <2>2, OverlayShape DEF IsMap
      <4>2. CASE IsScalar(override)
        BY <4>2, MergeReplaced
      <4>3. CASE IsList(override)
        <5>1. override.tag # "replace"
          BY <2>1
        <5>2. Merge(Missing, override, "document", merge[Depth - 1]) =
                MergeList(IF IsList(Missing) THEN Missing ELSE List(<<>>), override, "document")
          BY <4>3, <5>1, MergeOfLists
        <5>3. MergeList(IF IsList(Missing) THEN Missing ELSE List(<<>>), override, "document") = Stripped(override)
          BY DEF MergeList, IdentityArrays
        <5> QED
          BY <5>2, <5>3
      <4> QED
        BY <4>1, <4>2, <4>3 DEF IsScalar, IsList
    <3> QED
      BY <2>2, <3>1, <3>2, <3>3, StrippedKind
  <2>4. override \in Unambiguous[Depth]
    BY <2>1 DEF HasDuplicateKey
  <2> QED
    BY <1>1, <1>2, <2>1, <2>2, <2>3, <2>4
<1> QED
  BY <1>3, <1>4

\* An entry of a merge is what the overlay's entry makes it.
LEMMA SameEntry ==
  ASSUME NEW b, NEW o, NEW w, NEW p, NEW below, NEW k, o.at[k] = w.at[k], o.at[k] = Missing \/ IsNode(o.at[k])
  PROVE  Entry(b, w, p, below, k) = Entry(b, o, p, below, k)
<1>1. CASE o.at[k] = Missing
  <2>1. Entry(b, o, p, below, k) = Get(b, k)
    BY <1>1, EntryUntouched
  <2>2. Entry(b, w, p, below, k) = Get(b, k)
    <3>1. w.at[k] = Missing
      BY <1>1
    <3> QED
      BY <3>1, EntryUntouched
  <2> QED
    BY <2>1, <2>2
<1>2. CASE o.at[k] # Missing /\ IsDeletion(o.at[k])
  <2>1. Entry(b, o, p, below, k) = IF IsNull(o.at[k]) /\ Get(b, k) # Missing THEN Missing ELSE Failed
    BY <1>2, EntryDeleted
  <2>2. Entry(b, w, p, below, k) = IF IsNull(w.at[k]) /\ Get(b, k) # Missing THEN Missing ELSE Failed
    <3>1. w.at[k] # Missing /\ IsDeletion(w.at[k])
      BY <1>2
    <3> QED
      BY <3>1, EntryDeleted
  <2> QED
    BY <2>1, <2>2
<1>3. CASE o.at[k] # Missing /\ IsNode(o.at[k]) /\ ~IsDeletion(o.at[k])
  <2>1. w.at[k] # Missing /\ IsNode(w.at[k]) /\ ~IsDeletion(w.at[k])
    BY <1>3
  <2>2. CASE p \in ProviderMaps
    <3>1. Entry(b, o, p, below, k) = Stripped(o.at[k])
      BY <1>3, <2>2, Zenon DEF Entry
    <3>2. Entry(b, w, p, below, k) = Stripped(w.at[k])
      BY <2>1, <2>2, Zenon DEF Entry
    <3> QED
      BY <3>1, <3>2
  <2>3. CASE p \notin ProviderMaps
    <3>1. Entry(b, o, p, below, k) = below[<<Get(b, k), o.at[k], Below(p, k)>>]
      BY <1>3, <2>3, Zenon DEF Entry
    <3>2. Entry(b, w, p, below, k) = below[<<Get(b, k), w.at[k], Below(p, k)>>]
      BY <2>1, <2>3, Zenon DEF Entry
    <3> QED
      BY <3>1, <3>2
  <2> QED
    BY <2>2, <2>3
<1> QED
  BY <1>1, <1>2, <1>3

\* What the override had before an adoption.
OldEntry(k) == IF override = Missing THEN Missing ELSE override.at[k]

\* What it has after it.
NewEntry(fields, k) ==
    IF k \in Removals(fields) THEN Missing ELSE IF k \in fields THEN Adopted(k) ELSE OldEntry(k)

\* The entry of a field that is adopted: one config.yaml has.
LEMMA AdoptedThere ==
  ASSUME Typed, config \in Configs[Depth], IsMap(config), NEW k \in Keys, Get(config, k) # Missing
  PROVE  /\ Depth - 1 \in 1..Depth
         /\ Get(config, k) \in Configs[Depth - 1] /\ Get(base, k) \in Configs[Depth - 1] \cup {Missing}
         /\ Adopted(k) = adopt[Depth - 1][<<Get(config, k), Get(base, k)>>]
         /\ Adopted(k) \in Unambiguous[Depth - 1] /\ Adopted(k) \in Overlays[Depth - 1]
         /\ Adopted(k) # Missing /\ ~IsDeletion(Adopted(k)) /\ IsNode(Adopted(k))
<1>0. Depth \in 1..Depth /\ BaseMap = base /\ base \in Configs[Depth] \cup {Missing}
  BY DepthNat DEF Typed, BaseMap
<1>1. /\ Depth - 1 \in 1..Depth /\ Get(config, k) \in Configs[Depth - 1]
      /\ Get(base, k) \in Configs[Depth - 1] \cup {Missing}
  BY <1>0, AdoptedKey
<1>2. Adopted(k) = adopt[Depth - 1][<<Get(config, k), Get(base, k)>>]
  BY <1>0 DEF Adopted, KeysOf, AdoptValue
<1> DEFINE a == adopt[Depth - 1][<<Get(config, k), Get(base, k)>>]
<1>3. a \in Unambiguous[Depth - 1] /\ a \in Overlays[Depth - 1] /\ a # Missing /\ ~IsDeletion(a)
  BY <1>1, Adopting
<1> HIDE DEF a
<1>4. IsNode(a)
  <2>1. Depth - 1 \in 0..Depth
    BY <1>1
  <2> QED
    BY <1>3, <2>1, NoNode DEF Overlays
<1> QED
  BY <1>1, <1>2, <1>3, <1>4 DEF a

\* And one only the subscription has.
LEMMA AdoptedDeletion ==
  ASSUME Typed, config \in Configs[Depth], IsMap(config), NEW k \in Keys,
         Get(config, k) = Missing, Get(base, k) # Missing
  PROVE  Adopted(k) = Delete("null") /\ Adopted(k) \in Unambiguous[Depth - 1]
<1>0. Depth \in 1..Depth /\ base \in Configs[Depth] \cup {Missing}
  BY DepthNat DEF Typed
<1>1. Depth - 1 \in 1..Depth
  BY <1>0, DeletedKey
<1>2. Adopted(k) = Delete("null")
  BY DEF Adopted, KeysOf
<1> QED
  BY <1>1, <1>2, UnambiguousMake

\* The override an adoption writes: a mapping with these entries that repeats no key.
LEMMA WrittenIs ==
  ASSUME Typed, config \in Configs[Depth], IsMap(config), IsMap(Rendered), NEW fields \in SUBSET Keys
  PROVE  /\ Written(fields) = Map([k \in Keys |-> NewEntry(fields, k)])
         /\ Written(fields) \in Unambiguous[Depth] /\ Written(fields) \in Overlays[Depth]
<1>0. Depth \in 1..Depth /\ Depth \in 0..Depth /\ base \in Configs[Depth] /\ IsMap(base)
  BY DepthNat DEF Typed
<1>1. \/ override = Missing
      \/ /\ override # Missing /\ override = Map(override.at)
         /\ override.at \in [Keys -> {Missing} \cup Unambiguous[Depth - 1]]
  <2>1. CASE override = Missing
    BY <2>1
  <2>2. CASE override # Missing
    <3>1. /\ override \in Overlays[Depth] /\ override \in Unambiguous[Depth] /\ IsMap(override)
          /\ override.tag = "plain" /\ MergeConfig(base, override) # Failed
      BY <2>2, OverrideIsMapping DEF Rendered
    <3>2. override.flaw = "none"
      BY <1>0, <3>1, MergedMapping
    <3>3. /\ override = [kind |-> "map", tag |-> override.tag, at |-> override.at, flaw |-> override.flaw]
          /\ override.at \in [Keys -> {Missing} \cup Unambiguous[Depth - 1]]
      <4> DEFINE flaws == {"none", "directive"}
      <4>1. Unambiguous = Documents(Tags, flaws)
        BY DEF Unambiguous
      <4> HIDE DEF flaws
      <4>2. override \in Documents(Tags, flaws)[Depth]
        BY <3>1, <4>1
      <4>3. IsMap(override) =>
              /\ override = [kind |-> "map", tag |-> override.tag, at |-> override.at, flaw |-> override.flaw]
              /\ override.at \in [Keys -> {Missing} \cup Documents(Tags, flaws)[Depth - 1]]
              /\ override.flaw \in flaws
        BY <1>0, <4>2, Shape
      <4> QED
        BY <3>1, <4>1, <4>3
    <3> QED
      BY <2>2, <3>1, <3>2, <3>3 DEF Map
  <2> QED
    BY <2>1, <2>2
<1>2. ASSUME NEW k \in Keys PROVE OldEntry(k) \in {Missing} \cup Unambiguous[Depth - 1]
  BY <1>1 DEF OldEntry
<1>3. ASSUME NEW k \in Keys PROVE NewEntry(fields, k) \in {Missing} \cup Unambiguous[Depth - 1]
  <2>1. CASE k \in Removals(fields)
    BY <2>1 DEF NewEntry
  <2>2. CASE k \notin Removals(fields) /\ k \in fields
    <3>1. Get(config, k) # Missing \/ Get(base, k) # Missing
      BY <1>0, <2>2 DEF Removals, BaseMap, KeysOf
    <3>2. Adopted(k) \in Unambiguous[Depth - 1]
      <4>1. CASE Get(config, k) # Missing
        BY <4>1, AdoptedThere
      <4>2. CASE Get(config, k) = Missing
        BY <3>1, <4>2, AdoptedDeletion
      <4> QED
        BY <4>1, <4>2
    <3> QED
      BY <2>2, <3>2 DEF NewEntry
  <2>3. CASE k \notin Removals(fields) /\ k \notin fields
    BY <1>2, <2>3 DEF NewEntry
  <2> QED
    BY <2>1, <2>2, <2>3
<1> DEFINE at == [k \in Keys |-> NewEntry(fields, k)]
<1>4. Written(fields) = Map(at)
  <2>1. CASE override = Missing
    <3>1. Mapping(<<>>) = Map([k \in Keys |-> Missing])
      BY <1>0, EmptyType
    <3>2. Written(fields) = [Mapping(<<>>) EXCEPT !.at = at]
      <4>1. [k \in Keys |-> IF k \in Removals(fields) THEN Missing
                            ELSE IF k \in fields THEN Adopted(k) ELSE Mapping(<<>>).at[k]] = at
        BY <2>1, <3>1 DEF NewEntry, OldEntry, Map
      <4> QED
        BY <2>1, <4>1 DEF Written
    <3> HIDE DEF at
    <3> QED
      BY <3>1, <3>2 DEF Map
  <2>2. CASE override # Missing
    <3>2. Written(fields) = [override EXCEPT !.at = at]
      <4>1. [k \in Keys |-> IF k \in Removals(fields) THEN Missing
                            ELSE IF k \in fields THEN Adopted(k) ELSE override.at[k]] = at
        BY <2>2 DEF NewEntry, OldEntry
      <4> QED
        BY <2>2, <4>1 DEF Written
    <3> HIDE DEF at
    <3> QED
      BY <1>1, <2>2, <3>2 DEF Map
  <2> QED
    BY <2>1, <2>2
<1>5. at \in [Keys -> {Missing} \cup Unambiguous[Depth - 1]]
  BY <1>3
<1> HIDE DEF at
<1>6. Written(fields) \in Unambiguous[Depth]
  BY <1>0, <1>4, <1>5, UnambiguousMake
<1>7. Unambiguous[Depth] \subseteq Overlays[Depth]
  BY <1>0, MoreTags DEF Unambiguous, Overlays, Flaws
<1> QED
  BY <1>4, <1>6, <1>7 DEF at

\* What is rendered is config data when it is a mapping.
LEMMA RenderedType ==
  ASSUME base \in Configs[Depth], override \in Overlays[Depth] \cup {Missing, Unparsable, Legacy}, IsMap(Rendered)
  PROVE  Rendered \in Configs[Depth]
<1>1. Rendered \in Configs[Depth] \cup {Missing, Unparsable, Legacy, Failed}
  BY MergeMakesConfigs DEF Rendered
<1> QED
  BY <1>1 DEF IsMap, Missing, Unparsable, Legacy, Failed

\* Setting a field of a config makes a config.
LEMMA EditedType ==
  ASSUME NEW n \in Configs[Depth], IsMap(n), NEW f \in Keys, NEW v \in Configs[Depth - 1] \cup {Missing}
  PROVE  [n EXCEPT !.at[f] = v] \in Configs[Depth] /\ IsMap([n EXCEPT !.at[f] = v])
<1>0. Depth \in 1..Depth
  BY DepthNat
<1>1. n = Map(n.at) /\ n.at \in [Keys -> {Missing} \cup Configs[Depth - 1]]
  BY <1>0, ConfigShape
<1> DEFINE at == [n.at EXCEPT ![f] = v]
<1>2. at \in [Keys -> {Missing} \cup Configs[Depth - 1]]
  BY <1>1
<1>3. [n EXCEPT !.at[f] = v] = Map(at)
  BY <1>1 DEF Map
<1> HIDE DEF at
<1>4. Map(at) \in Configs[Depth]
  BY <1>0, <1>2, ConfigMake
<1>5. IsMap(Map(at))
  BY DEF Map, IsMap
<1> QED
  BY <1>3, <1>4, <1>5

\* The fields that are adopted: config.yaml differs there, and neither side has an array.
LEMMA FieldsAre ==
  ASSUME NEW k \in Fields(config, Rendered)
  PROVE  k \in Keys /\ ~IsList(Get(config, k)) /\ ~IsList(Get(Rendered, k)) /\ Get(config, k) # Get(Rendered, k)
BY DEF Fields, Differing, KeysOf, IsArray

\* AdoptConfig keeps the invariant: it writes a mapping, what was adopted before and is
\* not written again stays, and what is written now is recorded.
LEMMA AdoptKeeps ==
  ASSUME AdoptInv, NEW force \in BOOLEAN, AdoptConfig(force)
  PROVE  AdoptInv'
<1> DEFINE fields == Fields(config, Rendered)
<1>1. IsMap(Rendered) /\ IsMap(config) /\ base' = base /\ config' = config
  BY DEF AdoptConfig
<1>2. config \in Configs[Depth] /\ Typed /\ Kept
  <2>1. ~IsMap(Missing)
    BY DEF IsMap, Missing
  <2> QED
    BY <1>1, <2>1 DEF AdoptInv, Typed
<1>3. CASE override' = override /\ kept' = kept
  BY <1>1, <1>2, <1>3 DEF AdoptInv, Typed, Kept
<1>4. CASE /\ override' = Written(fields)
           /\ kept' = [k \in (DOMAIN kept \ fields) \cup (fields \cap KeysOf(config)) |->
                         IF k \in fields THEN Get(config, k) ELSE kept[k]]
  <2>1. fields \in SUBSET Keys
    BY FieldsAre
  <2>2. \A k \in fields : ~IsList(Get(config, k))
    BY FieldsAre
  <2> HIDE DEF fields
  <2>3. /\ override' = Map([k \in Keys |-> NewEntry(fields, k)])
        /\ override' \in Overlays[Depth]
    BY <1>1, <1>2, <1>4, <2>1, WrittenIs
  <2>4. IsMap(override')
    BY <2>3 DEF IsMap, Map
  <2>5. \A k \in Keys : override'.at[k] = NewEntry(fields, k)
    BY <2>3 DEF Map
  <2>6. Typed'
    BY <1>1, <1>2, <2>3 DEF Typed
  <2>7. ASSUME NEW f \in DOMAIN kept'
        PROVE  /\ f \in Keys /\ kept'[f] \in Configs[Depth - 1] /\ ~IsList(kept'[f])
               /\ \E c \in Configs[Depth - 1] \cup {Missing} : override'.at[f] = AdoptValue(kept'[f], c)
    <3>1. CASE f \in fields
      <4>1. f \in KeysOf(config) /\ kept'[f] = Get(config, f) /\ f \in Keys /\ Get(config, f) # Missing
        BY <1>4, <3>1 DEF KeysOf
      <4>2. /\ Get(config, f) \in Configs[Depth - 1] /\ Get(base, f) \in Configs[Depth - 1] \cup {Missing}
            /\ Adopted(f) = adopt[Depth - 1][<<Get(config, f), Get(base, f)>>]
        BY <1>1, <1>2, <4>1, AdoptedThere
      <4>3. NewEntry(fields, f) = Adopted(f)
        BY <3>1, <4>1 DEF NewEntry, Removals
      <4> QED
        BY <2>2, <2>5, <3>1, <4>1, <4>2, <4>3 DEF AdoptValue
    <3>2. CASE f \notin fields
      <4>1. f \in DOMAIN kept /\ kept'[f] = kept[f]
        BY <1>4, <3>2
      <4>2. /\ f \in Keys /\ kept[f] \in Configs[Depth - 1] /\ ~IsList(kept[f])
            /\ IsMap(override)
        BY <1>2, <4>1 DEF Kept
      <4>3. PICK c \in Configs[Depth - 1] \cup {Missing} : override.at[f] = AdoptValue(kept[f], c)
        BY <1>2, <4>1 DEF Kept
      <4>4. override # Missing
        BY <4>2 DEF IsMap, Missing
      <4>5. NewEntry(fields, f) = override.at[f]
        BY <3>2, <4>4 DEF NewEntry, OldEntry, Removals
      <4> QED
        BY <2>5, <4>1, <4>2, <4>3, <4>5
    <3> QED
      BY <3>1, <3>2
  <2>8. Kept'
    BY <2>3, <2>4, <2>7 DEF Kept, AdoptValue
  <2> QED
    BY <2>6, <2>8 DEF AdoptInv
<1> QED
  BY <1>3, <1>4 DEF AdoptConfig

\* The invariant of an adoption.
THEOREM AdoptionInvariant == Spec => []AdoptInv
<1>1. Init => AdoptInv
  <2> SUFFICES ASSUME Init PROVE AdoptInv
    OBVIOUS
  <2>1. base \in Configs[Depth] /\ IsMap(base) /\ override \in Overlays[Depth] \cup {Missing, Unparsable, Legacy}
    BY AdoptionAssumption DEF Init, AdoptionAssumption
  <2>2. config = Missing \/ (config \in Configs[Depth] /\ IsMap(config))
    BY <2>1, RenderedType DEF Init
  <2>3. Kept
    BY DEF Init, Kept
  <2> QED
    BY <2>1, <2>2, <2>3 DEF AdoptInv, Typed
<1>2. AdoptInv /\ [Next]_vars => AdoptInv'
  <2> SUFFICES ASSUME AdoptInv, [Next]_vars PROVE AdoptInv'
    OBVIOUS
  <2> USE DEF AdoptInv
  <2>1. CASE EditConfig
    <3>1. PICK f \in DOMAIN EditValues : \E v \in EditValues[f] : IsMap(config) /\ config' = [config EXCEPT !.at[f] = v]
      BY <2>1 DEF EditConfig
    <3>2. PICK v \in EditValues[f] : IsMap(config) /\ config' = [config EXCEPT !.at[f] = v]
      BY <3>1
    <3>3. f \in Keys /\ v \in Configs[Depth - 1] \cup {Missing}
      BY AdoptionAssumption DEF AdoptionAssumption
    <3>4. config \in Configs[Depth]
      BY <3>2 DEF Typed, IsMap, Missing
    <3>5. config' \in Configs[Depth] /\ IsMap(config')
      BY <3>2, <3>3, <3>4, EditedType
    <3> QED
      BY <2>1, <3>5 DEF EditConfig, Typed, Kept
  <2>2. CASE EditOverride
    <3>1. override' \in Overlays[Depth] \cup {Missing, Unparsable, Legacy}
      BY <2>2, AdoptionAssumption DEF EditOverride, AdoptionAssumption
    <3> QED
      BY <2>2, <3>1 DEF EditOverride, Typed, Kept
  <2>3. CASE Fetch
    <3>1. base' \in Configs[Depth] /\ IsMap(base')
      BY <2>3, AdoptionAssumption DEF Fetch, AdoptionAssumption
    <3> QED
      BY <2>3, <3>1 DEF Fetch, Typed, Kept
  <2>4. CASE Apply
    <3>1. IsMap(Rendered) /\ config' = Rendered
      BY <2>4 DEF Apply
    <3>2. Rendered \in Configs[Depth]
      BY <3>1, RenderedType DEF Typed
    <3> QED
      BY <2>4, <3>1, <3>2 DEF Apply, Typed, Kept
  <2>5. CASE AdoptFails
    BY <2>5 DEF AdoptFails, Typed, Kept
  <2>6. CASE \E force \in BOOLEAN : AdoptConfig(force)
    BY <2>6, AdoptKeeps
  <2>7. CASE UNCHANGED vars
    BY <2>7 DEF vars, Typed, Kept
  <2> QED
    BY <2>1, <2>2, <2>3, <2>4, <2>5, <2>6, <2>7 DEF Next
<1> QED
  BY <1>1, <1>2, PTL DEF Spec

\* What the user has adopted is in every config rendered later: it still stands in the
\* override, and a merge that succeeds keeps it.
THEOREM WhatIsAdoptedSurvives == Spec => []AdoptedValuesSurvive
<1>1. AdoptInv => AdoptedValuesSurvive
  <2> SUFFICES ASSUME AdoptInv, IsNode(Rendered), NEW f \in DOMAIN kept
               PROVE  Keeps(Get(Rendered, f), kept[f])
    BY DEF AdoptedValuesSurvive
  <2> DEFINE v == kept[f]
             p == Depth - 1
  <2>1. base \in Configs[Depth] /\ IsMap(base)
    BY DEF AdoptInv, Typed
  <2>2. /\ f \in Keys /\ v \in Configs[p] /\ ~IsList(v)
        /\ override \in Overlays[Depth] /\ IsMap(override)
    BY DEF AdoptInv, Kept
  <2>3. PICK c \in Configs[p] \cup {Missing} : override.at[f] = adopt[p][<<v, c>>]
    BY DEF AdoptInv, Kept, AdoptValue
  <2>4. MergeConfig(base, override) # Failed
    BY DEF Rendered, IsNode, Failed
  <2>5. p \in 1..Depth /\ p \in 0..Depth
    <3>1. p \in 0..Depth
      BY DepthNat
    <3>2. p # 0
      BY <2>2, <3>1, NoNode DEF Configs
    <3> HIDE DEF p
    <3> QED
      BY <3>1, <3>2, DepthNat
  <2> HIDE DEF v, p
  <2>6. override.at[f] # Missing /\ ~IsDeletion(override.at[f])
    BY <2>2, <2>3, <2>5, Adopting
  <2>7. /\ override.at[f] \in Overlays[p] /\ Get(base, f) \in Configs[p] \cup {Missing}
        /\ Get(Rendered, f) = Merge(Get(base, f), override.at[f], f, merge[p - 1])
    BY <2>1, <2>2, <2>4, <2>6, MergedField DEF p, Rendered
  <2>8. f \in Places /\ f \in Places \ {"document"}
    BY <2>2, DocumentsAssumption DEF Places, DocumentsAssumption
  <2>9. Get(Rendered, f) = merge[p][<<Get(base, f), override.at[f], f>>]
    BY <2>5, <2>7, <2>8, Merging
  <2>10. Get(Rendered, f) # Failed
    BY <2>1, <2>2, <2>4, MergedKey DEF Rendered
  <2>11. keeps[p][<<merge[p][<<Get(base, f), adopt[p][<<v, c>>], f>>], v>>]
    BY <2>2, <2>3, <2>5, <2>7, <2>8, <2>9, <2>10, KeptInMerge
  <2> QED
    BY <2>3, <2>9, <2>11 DEF Keeps, v, p
<1> QED
  BY <1>1, AdoptionInvariant, PTL

-------------------------------------------------------------------------------
\* The next config rendered from an override with these entries.
AfterEntry(fields, k) == IF k \in fields THEN Get(config, k) ELSE Get(Rendered, k)

\* What the merge makes of an entry an adoption wrote for a field it adopts: what
\* config.yaml has, or, in a provider map, an error.
LEMMA AdoptedEntryMerged ==
  ASSUME Typed, config \in Configs[Depth], IsMap(config), NEW fields \in SUBSET Keys,
         NEW k \in fields, ~IsList(Get(config, k)),
         NEW w, w.at[k] = NewEntry(fields, k)
  PROVE  \/ Entry(base, w, "document", merge[Depth - 1], k) = Get(config, k)
         \/ Entry(base, w, "document", merge[Depth - 1], k) = Failed /\ k \in ProviderMaps
<1> DEFINE below == merge[Depth - 1]
<1>0. k \in Keys /\ k \in Places \ {"document"} /\ "document" \notin ProviderMaps
  BY DocumentsAssumption DEF Places, ProviderMaps, DocumentsAssumption
<1>1. CASE k \in Removals(fields)
  <2>1. Get(config, k) = Missing /\ Get(base, k) = Missing
    BY <1>0, <1>1 DEF Removals, KeysOf, BaseMap, Typed
  <2>2. w.at[k] = Missing
    BY <1>1 DEF NewEntry
  <2>3. Entry(base, w, "document", below, k) = Get(base, k)
    BY <2>2, EntryUntouched
  <2> QED
    BY <2>1, <2>3
<1>2. CASE k \notin Removals(fields) /\ Get(config, k) # Missing
  <2> DEFINE x == adopt[Depth - 1][<<Get(config, k), Get(base, k)>>]
  <2>1. w.at[k] = Adopted(k)
    BY <1>2 DEF NewEntry
  <2>2. /\ Depth - 1 \in 1..Depth
        /\ Get(config, k) \in Configs[Depth - 1] /\ Get(base, k) \in Configs[Depth - 1] \cup {Missing}
        /\ Adopted(k) = x
        /\ Adopted(k) # Missing /\ ~IsDeletion(Adopted(k)) /\ IsNode(Adopted(k))
    BY <1>0, <1>2, AdoptedThere
  <2>3. Depth - 1 \in 0..Depth
    BY <2>2
  <2>4. merge[Depth - 1][<<Get(base, k), x, k>>] \in {Get(config, k), Failed}
    <3>1. CASE k \notin ProviderMaps
      BY <1>0, <2>2, <2>3, <3>1, MergeGivesBack
    <3>2. CASE k \in ProviderMaps
      BY <1>0, <2>2, <3>2, MergeInProviders
    <3> QED
      BY <3>1, <3>2
  <2>8. k \notin ProviderMaps => merge[Depth - 1][<<Get(base, k), x, k>>] = Get(config, k)
    BY <1>0, <2>2, <2>3, MergeGivesBack
  <2> HIDE DEF x, below
  <2>5. w.at[k] # Missing /\ IsNode(w.at[k]) /\ ~IsDeletion(w.at[k])
    BY <2>1, <2>2
  <2>6. Entry(base, w, "document", below, k) = below[<<Get(base, k), w.at[k], Below("document", k)>>]
    BY <1>0, <2>5, Zenon DEF Entry
  <2>7. Below("document", k) = k
    BY DEF Below
  <2> QED
    BY <2>1, <2>2, <2>4, <2>6, <2>7, <2>8 DEF below
<1>3. CASE k \notin Removals(fields) /\ Get(config, k) = Missing
  <2>1. w.at[k] = Adopted(k)
    BY <1>3 DEF NewEntry
  <2>2. Get(base, k) # Missing
    BY <1>0, <1>3 DEF Removals, KeysOf, BaseMap, Typed
  <2>3. Adopted(k) = Delete("null")
    BY <1>0, <1>3, <2>2, AdoptedDeletion
  <2> HIDE DEF below
  <2>4. w.at[k] # Missing /\ IsDeletion(w.at[k]) /\ IsNull(w.at[k])
    BY <2>1, <2>3, DeletionFacts
  <2>5. Entry(base, w, "document", below, k) =
          IF IsNull(w.at[k]) /\ Get(base, k) # Missing THEN Missing ELSE Failed
    BY <2>4, EntryDeleted
  <2> QED
    BY <1>3, <2>2, <2>4, <2>5 DEF below
<1> QED
  BY <1>1, <1>2, <1>3

\* And for any other field: what was rendered before.
LEMMA OtherEntryMerged ==
  ASSUME Typed, IsMap(Rendered), NEW fields \in SUBSET Keys, NEW k \in Keys \ fields,
         NEW w, w.at[k] = NewEntry(fields, k)
  PROVE  Entry(base, w, "document", merge[Depth - 1], k) = Get(Rendered, k) /\ Get(Rendered, k) # Failed
<1> DEFINE below == merge[Depth - 1]
<1>0. Depth \in 1..Depth /\ base \in Configs[Depth] /\ IsMap(base)
  BY DepthNat DEF Typed
<1>1. w.at[k] = OldEntry(k)
  BY DEF NewEntry, Removals
<1>2. CASE override = Missing
  <2>1. Rendered = base
    BY <1>2, OverrideIsMapping DEF IsMap, Missing
  <2>2. w.at[k] = Missing
    BY <1>1, <1>2 DEF OldEntry
  <2>3. Entry(base, w, "document", below, k) = Get(base, k)
    BY <2>2, EntryUntouched
  <2>4. Get(base, k) # Failed
    <3>1. Get(base, k) \in {Missing} \cup Configs[Depth - 1]
      BY <1>0, ConfigShape DEF Get
    <3>2. Depth - 1 \in 0..Depth
      BY DepthNat
    <3> QED
      BY <3>1, <3>2, NoNode DEF Configs, Missing, Failed
  <2> QED
    BY <2>1, <2>3, <2>4
<1>3. CASE override # Missing
  <2>1. override \in Overlays[Depth] /\ IsMap(override) /\ MergeConfig(base, override) # Failed
    BY <1>3, OverrideIsMapping DEF Rendered
  <2>2. /\ Get(Rendered, k) = Entry(base, override, "document", below, k)
        /\ Get(Rendered, k) # Failed
    BY <1>0, <2>1, MergedKey DEF Rendered
  <2>3. override.at[k] = w.at[k]
    BY <1>1, <1>3 DEF OldEntry
  <2>4. override.at[k] = Missing \/ IsNode(override.at[k])
    <3>1. override.at \in [Keys -> {Missing} \cup Overlays[Depth - 1]]
      BY <1>0, <2>1, OverlayShape
    <3>2. Depth - 1 \in 0..Depth
      BY DepthNat
    <3> QED
      BY <3>1, <3>2, NoNode DEF Overlays
  <2> HIDE DEF below
  <2>5. Entry(base, w, "document", below, k) = Entry(base, override, "document", below, k)
    BY <2>3, <2>4, SameEntry
  <2> QED
    BY <2>2, <2>5 DEF below
<1> QED
  BY <1>2, <1>3

\* After an adoption the rendered config has config.yaml's value in every field that
\* was adopted and what it had before in every other, unless a provider map was
\* adopted and the merge fails.
LEMMA AfterAdopting ==
  ASSUME Typed, config \in Configs[Depth], IsMap(config), IsMap(Rendered), NEW fields \in SUBSET Keys,
         \A k \in fields : ~IsList(Get(config, k))
  PROVE  \/ MergeConfig(base, Written(fields)) = Map([k \in Keys |-> AfterEntry(fields, k)])
         \/ MergeConfig(base, Written(fields)) = Failed /\ fields \cap ProviderMaps # {}
<1> DEFINE w == Written(fields)
           below == merge[Depth - 1]
           E(k) == Entry(base, w, "document", below, k)
<1>0. Depth \in 1..Depth /\ base \in Configs[Depth] /\ IsMap(base) /\ "document" \in Places
  BY DepthNat DEF Typed, Places
<1>1. w = Map([k \in Keys |-> NewEntry(fields, k)]) /\ w \in Unambiguous[Depth] /\ w \in Overlays[Depth]
  BY WrittenIs
<1>2. ASSUME NEW k \in Keys
      PROVE  \/ E(k) = AfterEntry(fields, k) /\ E(k) # Failed
             \/ E(k) = Failed /\ fields \cap ProviderMaps # {}
  <2>1. w.at[k] = NewEntry(fields, k)
    BY <1>1 DEF Map
  <2> HIDE DEF w
  <2>2. CASE k \in fields
    <3>1. ~IsList(Get(config, k))
      BY <2>2
    <3>2. E(k) = Get(config, k) \/ (E(k) = Failed /\ k \in ProviderMaps)
      BY <2>1, <2>2, <3>1, AdoptedEntryMerged
    <3>3. Get(config, k) # Failed
      <4>1. Get(config, k) \in {Missing} \cup Configs[Depth - 1]
        BY <1>0, ConfigShape DEF Get
      <4>2. Depth - 1 \in 0..Depth
        BY DepthNat
      <4> QED
        BY <4>1, <4>2, NoNode DEF Configs, Missing, Failed
    <3> QED
      BY <2>2, <3>2, <3>3 DEF AfterEntry
  <2>3. CASE k \notin fields
    <3>1. E(k) = Get(Rendered, k) /\ Get(Rendered, k) # Failed
      BY <2>1, <2>3, OtherEntryMerged
    <3> QED
      BY <2>3, <3>1 DEF AfterEntry
  <2> QED
    BY <2>2, <2>3
<1>3. IsMap(w) /\ w.tag = "plain" /\ w.flaw = "none" /\ w # Missing /\ w # Legacy /\ IsNode(w)
  BY <1>1 DEF IsMap, Map, Missing, Legacy, IsNode
<1> HIDE DEF w
<1>4. ~HasDuplicateKey(w) /\ base # Unparsable
  BY <1>0, <1>1 DEF HasDuplicateKey, IsMap, Unparsable
<1>5. MergeConfig(base, w) = MergeNode(base, w, "document")
  BY <1>0, <1>3, <1>4 DEF MergeConfig
<1>6. MergeNode(base, w, "document") = Merge(base, w, "document", below)
  <2>1. base \in Configs[Depth] \cup {Missing}
    BY <1>0
  <2> QED
    BY <1>0, <1>1, <2>1, MergeNodeType
<1>7. Merge(base, w, "document", below) = MergeMapping(base, w, "document", below)
  <2>1. w.tag # "replace"
    BY <1>3
  <2> HIDE DEF below
  <2>2. Merge(base, w, "document", below) = MergeMapping(IF IsMap(base) THEN base ELSE Mapping(<<>>), w, "document", below)
    BY <1>3, <2>1, MergeOfMaps
  <2> QED
    BY <1>0, <2>2
<1>8. MergeMapping(base, w, "document", below) =
        IF \E k \in Keys : E(k) = Failed THEN Failed ELSE Map([k \in Keys |-> E(k)])
  BY <1>3 DEF MergeMapping
<1> HIDE DEF E, below
<1>9. CASE \E k \in Keys : E(k) = Failed
  BY <1>2, <1>5, <1>6, <1>7, <1>8, <1>9 DEF w
<1>10. CASE \A k \in Keys : E(k) # Failed
  <2>1. MergeMapping(base, w, "document", below) = Map([k \in Keys |-> E(k)])
    BY <1>8, <1>10
  <2>2. [k \in Keys |-> E(k)] = [k \in Keys |-> AfterEntry(fields, k)]
    BY <1>2, <1>10
  <2> QED
    BY <1>5, <1>6, <1>7, <2>1, <2>2 DEF w
<1> QED
  BY <1>9, <1>10

\* The next render, when it succeeds, compared: with config.yaml no field is left to
\* adopt, and with what was rendered before only adopted fields differ.
LEMMA AfterDifferences ==
  ASSUME IsMap(config), NEW fields, fields = Fields(config, Rendered),
         NEW new, new = Map([k \in Keys |-> AfterEntry(fields, k)])
  PROVE  Fields(config, new) = {} /\ Differing(Rendered, new) \subseteq fields
<1>1. \A k \in Keys : Get(new, k) = AfterEntry(fields, k)
  BY DEF Get, Map, IsMap
<1>2. ASSUME NEW k \in Fields(config, new) PROVE FALSE
  <2>1. k \in Keys /\ Get(config, k) # Get(new, k) /\ ~IsList(Get(config, k)) /\ ~IsList(Get(new, k))
    BY DEF Fields, Differing, KeysOf, IsArray
  <2>2. k \notin fields
    BY <1>1, <2>1 DEF AfterEntry
  <2>3. Get(new, k) = Get(Rendered, k)
    BY <1>1, <2>1, <2>2 DEF AfterEntry
  <2>4. Get(config, k) # Missing \/ Get(Rendered, k) # Missing
    BY <2>1, <2>3
  <2>5. k \in Fields(config, Rendered)
    BY <2>1, <2>3, <2>4 DEF Fields, Differing, KeysOf, IsArray
  <2> QED
    BY <2>2, <2>5
<1>3. ASSUME NEW k \in Differing(Rendered, new), k \notin fields PROVE FALSE
  <2>1. k \in Keys /\ Get(Rendered, k) # Get(new, k)
    BY DEF Differing, KeysOf
  <2> QED
    BY <1>1, <1>3, <2>1 DEF AfterEntry
<1> QED
  BY <1>2, <1>3

\* What a step that adopts has done: the fields are written and everything else is as
\* it was, fewer than LargeAt of them without --force.
LEMMA AdoptingStep ==
  ASSUME AdoptInv, [Next]_vars, ~UNCHANGED vars, Adopts
  PROVE  /\ base' = base /\ config' = config /\ override' = Written(Fields(config, Rendered))
         /\ IsMap(Rendered) /\ IsMap(config) /\ config \in Configs[Depth] /\ Typed
         /\ outcome' = "adopted" => ~LargeDiff(Fields(config, Rendered))
<1>1. PICK force \in BOOLEAN : AdoptConfig(force)
  BY DEF Next, Adopts, EditConfig, EditOverride, Fetch, Apply, AdoptFails
<1>2. IsMap(Rendered) /\ IsMap(config) /\ base' = base /\ config' = config
  BY <1>1 DEF AdoptConfig
<1>3. config \in Configs[Depth] /\ Typed
  BY <1>2 DEF AdoptInv, Typed, IsMap, Missing
<1>4. override' = Written(Fields(config, Rendered)) /\ (outcome' = "adopted" => ~LargeDiff(Fields(config, Rendered)))
  BY <1>1 DEF AdoptConfig, Adopts
<1> QED
  BY <1>2, <1>3, <1>4

\* The next render after such a step.
LEMMA NextRender ==
  ASSUME AdoptInv, [Next]_vars, ~UNCHANGED vars, Adopts
  PROVE  LET new    == MergeConfig(base', override')
             fields == Fields(config, Rendered)
         IN  \/ Fields(config', new) = {} /\ Differing(Rendered, new) \subseteq fields
             \/ new = Failed /\ fields \cap ProviderMaps # {}
<1> DEFINE new    == MergeConfig(base', override')
           fields == Fields(config, Rendered)
<1>1. /\ base' = base /\ config' = config /\ override' = Written(fields)
      /\ IsMap(Rendered) /\ IsMap(config) /\ config \in Configs[Depth] /\ Typed
  BY AdoptingStep
<1>2. fields \in SUBSET Keys /\ \A k \in fields : ~IsList(Get(config, k))
  BY FieldsAre
<1>3. fields = Fields(config, Rendered)
  OBVIOUS
<1> HIDE DEF fields
<1>4. \/ MergeConfig(base, Written(fields)) = Map([k \in Keys |-> AfterEntry(fields, k)])
      \/ MergeConfig(base, Written(fields)) = Failed /\ fields \cap ProviderMaps # {}
  BY <1>1, <1>2, AfterAdopting
<1>5. \/ new = Map([k \in Keys |-> AfterEntry(fields, k)])
      \/ new = Failed /\ fields \cap ProviderMaps # {}
  BY <1>1, <1>4
<1> HIDE DEF new
<1>6. CASE new = Map([k \in Keys |-> AfterEntry(fields, k)])
  <2>1. Fields(config, new) = {} /\ Differing(Rendered, new) \subseteq fields
    BY <1>1, <1>3, <1>6, AfterDifferences
  <2> QED
    BY <1>1, <2>1 DEF new, fields
<1> QED
  BY <1>5, <1>6 DEF new, fields

\* However the subscription, the override and config.yaml look, after an adoption the
\* next config either has no difference left to adopt, or cannot be rendered, and the
\* latter only when a field of a provider map was adopted.
THEOREM AdoptionSettlesOrFails ==
  Spec => [][Adopts => LET new == MergeConfig(base', override')
                       IN  \/ Fields(config', new) = {}
                           \/ new = Failed /\ Fields(config, Rendered) \cap ProviderMaps # {}]_vars
<1>1. AdoptInv /\ [Next]_vars =>
        [Adopts => LET new == MergeConfig(base', override')
                   IN  \/ Fields(config', new) = {}
                       \/ new = Failed /\ Fields(config, Rendered) \cap ProviderMaps # {}]_vars
  <2> SUFFICES ASSUME AdoptInv, [Next]_vars, ~UNCHANGED vars, Adopts
               PROVE  LET new == MergeConfig(base', override')
                      IN  \/ Fields(config', new) = {}
                          \/ new = Failed /\ Fields(config, Rendered) \cap ProviderMaps # {}
    OBVIOUS
  <2> QED
    BY NextRender
<1> QED
  BY <1>1, AdoptionInvariant, PTL DEF Spec

\* Without provider maps an adoption settles: a second one finds nothing to adopt.
THEOREM AdoptionsSettle ==
  ASSUME Keys \cap ProviderMaps = {}
  PROVE  Spec => AdoptionSettles
<1>1. AdoptInv /\ [Next]_vars =>
        [Adopts => LET new == MergeConfig(base', override') IN Fields(config', new) = {}]_vars
  <2> SUFFICES ASSUME AdoptInv, [Next]_vars, ~UNCHANGED vars, Adopts
               PROVE  Fields(config', MergeConfig(base', override')) = {}
    OBVIOUS
  <2>1. Fields(config, Rendered) \cap ProviderMaps = {}
    BY FieldsAre
  <2> QED
    BY <2>1, NextRender
<1> QED
  BY <1>1, AdoptionInvariant, PTL DEF Spec, AdoptionSettles

\* And it changes nothing else of what is rendered: no array, and without --force fewer
\* than LargeAt fields.
THEOREM AdoptionsChangeNothingElse ==
  ASSUME Keys \cap ProviderMaps = {}
  PROVE  Spec => AdoptsNothingElse
<1>1. AdoptInv /\ [Next]_vars =>
        [Adopts => LET old     == Rendered
                       new     == MergeConfig(base', override')
                       changed == Differing(old, new)
                   IN  /\ \A k \in changed : ~IsArray(k, old, config)
                       /\ outcome' = "adopted" => Cardinality(changed) < LargeAt]_vars
  <2> SUFFICES ASSUME AdoptInv, [Next]_vars, ~UNCHANGED vars, Adopts
               PROVE  LET changed == Differing(Rendered, MergeConfig(base', override'))
                      IN  /\ \A k \in changed : ~IsArray(k, Rendered, config)
                          /\ outcome' = "adopted" => Cardinality(changed) < LargeAt
    OBVIOUS
  <2> DEFINE changed == Differing(Rendered, MergeConfig(base', override'))
             fields  == Fields(config, Rendered)
  <2>1. fields \cap ProviderMaps = {} /\ fields \subseteq Keys
    BY FieldsAre
  <2>2. changed \subseteq fields
    BY <2>1, NextRender
  <2>3. \A k \in fields : ~IsArray(k, Rendered, config)
    BY FieldsAre DEF IsArray
  <2>4. outcome' = "adopted" => ~(Cardinality(fields) >= LargeAt)
    BY AdoptingStep DEF LargeDiff
  <2> HIDE DEF changed, fields
  <2>5. IsFiniteSet(fields) /\ IsFiniteSet(changed) /\ Cardinality(changed) <= Cardinality(fields)
    BY <2>1, <2>2, FS_Subset, AdoptionAssumption DEF AdoptionAssumption
  <2>6. Cardinality(changed) \in Nat /\ Cardinality(fields) \in Nat /\ LargeAt \in Nat
    BY <2>5, FS_CardinalityType, AdoptionAssumption DEF AdoptionAssumption
  <2>7. outcome' = "adopted" => Cardinality(changed) < LargeAt
    BY <2>4, <2>5, <2>6
  <2> QED
    BY <2>2, <2>3, <2>7 DEF changed
<1> QED
  BY <1>1, AdoptionInvariant, PTL DEF Spec, AdoptsNothingElse
=============================================================================
