------------------------------ MODULE OverrideMerge ------------------------------
(***************************************************************************)
(* Rendering a config: the subscription data (the base) merged with        *)
(* override.yaml (the overlay), internal/manager/merge.go.                 *)
(*                                                                         *)
(* A YAML node is a record.  A mapping is a function from all the keys     *)
(* there may be, with Missing at those it does not have, since their order *)
(* is outside the merge contract (merge.go:120-122) and repeated keys are  *)
(* rejected; flaw says that some key of it is repeated or carries a        *)
(* directive.  Any error is Failed: which of several errors is reported    *)
(* first is left out.                                                      *)
(*                                                                         *)
(* The code walks the tree by recursion.  Here one operator does a node,   *)
(* given what became of its children, and a function goes down the levels: *)
(* f[d] is about documents that are at most d nodes deep.                  *)
(*                                                                         *)
(* Left out are aliases, which merge.go:199-220 treats as it does scalars, *)
(* and subscriptions with repeated keys, for which the result cannot be    *)
(* decoded (merge.go:119-126) unless the override is handed on.            *)
(*                                                                         *)
(* The merge functions follow the code, item by item; RenderReference      *)
(* states what README.md:85-97 promises of them.                          *)
(***************************************************************************)
EXTENDS Naturals, Sequences

CONSTANTS Keys,      \* the keys of mappings
          Texts,     \* the values of scalars
          Terminals, \* rule texts whose rule type is MATCH
          Depth      \* how deep a document may be nested; the parser has a limit

Blank == ""

ASSUME DocumentsAssumption == /\ Depth \in Nat \ {0}
                              /\ {Blank, "null"} \subseteq Texts
                              /\ "document" \notin Keys

Missing    == [kind |-> "missing"]    \* no file, or a blank one; no such entry
Failed     == [kind |-> "failed"]     \* an error
Unparsable == [kind |-> "unparsable"] \* not YAML
Legacy     == [kind |-> "legacy"]     \* not YAML, with the old placeholders

Scalar(v)  == [kind |-> "scalar", tag |-> "plain", value |-> v]
List(s)    == [kind |-> "list", tag |-> "plain", items |-> s]
Map(at)    == [kind |-> "map", tag |-> "plain", at |-> at, flaw |-> "none"]

\* The mapping with the entries of f.
Mapping(f) == Map([k \in Keys |-> IF k \in DOMAIN f THEN f[k] ELSE Missing])

Tagged(n, t) == [n EXCEPT !.tag = t]
Flawed(n, f) == [n EXCEPT !.flaw = f]
Delete(v)    == Tagged(Scalar(v), "delete")

IsNode(n) == n.kind \in {"scalar", "list", "map"}
IsMap(n)  == n.kind = "map"
IsList(n) == n.kind = "list"
IsScalar(n) == n.kind = "scalar"
IsDeletion(n) == IsNode(n) /\ n.tag = "delete"

\* Nodes with some of the tags and flaws, and children of a set.
Nodes(tags, flaws, children) ==
    [kind : {"scalar"}, tag : tags, value : Texts]
        \cup [kind : {"list"}, tag : tags, items : Seq(children)]
        \cup [kind : {"map"}, tag : tags, at : [Keys -> {Missing} \cup children], flaw : flaws]

\* Documents of such nodes, by how deep they are nested at most.
Documents(tags, flaws) ==
    LET upto[d \in 0..Depth] == IF d = 0 THEN {} ELSE Nodes(tags, flaws, upto[d - 1])
    IN  [d \in 0..Depth |-> upto[d]]

Tags  == {"plain", "replace", "delete"}
Flaws == {"none", "duplicate", "directive"}

\* What an override may be, and what a config and subscription data are: no tags
\* and no repeated keys.
Overlays == Documents(Tags, Flaws)
Configs  == Documents({"plain"}, {"none"})

Get(n, k) == IF IsMap(n) /\ k \in Keys THEN n.at[k] ELSE Missing

KeysOf(n) == {k \in Keys : Get(n, k) # Missing}

\* isNullScalar.
IsNull(n) == IsScalar(n) /\ n.value \in {Blank, "null"}

\* Mutant: only the first level is looked at.
HasDuplicateKeyOnTop(n) == IsMap(n) /\ n.flaw = "duplicate"

Undirected  == Documents({"plain"}, {"none", "duplicate"})
Unambiguous == Documents(Tags, {"none", "directive"})

HasDirective(n)    == n \notin Undirected[Depth]
HasDuplicateKey(n) == n \notin Unambiguous[Depth]

\* A place in the document: the document, a field of it, or anything below one.
Below(place, key) == IF place = "document" THEN key ELSE "nested"

Places == {"document", "nested"} \cup Keys

\* Mutant: providers are merged like any mapping.
NoProviderMaps == {}

IdentityArrays == {"proxies", "proxy-groups", "proxy-providers", "rule-providers"}
ProviderMaps   == {"proxy-providers", "rule-providers"}
-------------------------------------------------------------------------------
\* Mutant: only the node itself loses its tag.
StrippedHere(n) ==
    IF n.tag = "delete" \/ (IsMap(n) /\ n.flaw = "directive")
    THEN Failed ELSE Tagged(n, "plain")

\* mergeReplacement, one node: it without its directives, given its children
\* without theirs.  A deletion has nothing to delete there.
Strip(n, below) ==
    LET Child(k) == IF n.at[k] = Missing THEN Missing ELSE below[n.at[k]]
        Item(i)  == below[n.items[i]]
    IN  CASE n.tag = "delete" -> Failed
          [] n.tag # "delete" /\ IsMap(n)  ->
                 IF n.flaw = "directive" \/ \E k \in Keys : Child(k) = Failed
                 THEN Failed ELSE Map([k \in Keys |-> Child(k)])
          [] n.tag # "delete" /\ IsList(n) ->
                 IF \E i \in DOMAIN n.items : Item(i) = Failed
                 THEN Failed ELSE List([i \in DOMAIN n.items |-> Item(i)])
          [] n.tag # "delete" /\ IsScalar(n) -> Scalar(n.value)

stripped[d \in 0..Depth] ==
    IF d = 0 THEN <<>> ELSE [n \in Overlays[d] |-> Strip(n, stripped[d - 1])]

Stripped(n) == stripped[Depth][n]

\* mappingName: what an item of an identity array is called.
HasName(item) == IsMap(item) /\ IsScalar(Get(item, "name"))
Name(item)    == IF HasName(item) THEN Get(item, "name").value ELSE Missing.kind
Named(item, name) == HasName(item) /\ Name(item) = name

\* The items of a list, those of a name, and a list without some of its items.
ItemsOf(list)         == {list[i] : i \in DOMAIN list}
ItemsNamed(list, name) == {x \in ItemsOf(list) : Named(x, name)}
Without(list, gone) ==
    LET left[i \in 0..Len(list)] ==
            IF i = 0 THEN <<>>
            ELSE IF list[i] \in gone THEN left[i - 1] ELSE Append(left[i - 1], list[i])
    IN  left[Len(list)]

\* Mutant: every item of the name is replaced.
ReplaceEach(list, name, item) ==
    IF ItemsNamed(list, name) # {}
    THEN [i \in DOMAIN list |-> IF Named(list[i], name) THEN item ELSE list[i]]
    ELSE Append(list, item)

\* replaceNamedItem: at the first place the name has; the other items of that
\* name are dropped.
ReplaceNamed(list, name, item) ==
    LET first == CHOOSE i \in DOMAIN list :
                   /\ Named(list[i], name)
                   /\ \A j \in 1..(i - 1) : ~Named(list[j], name)
    IN  IF ItemsNamed(list, name) = {} THEN Append(list, item)
        ELSE SubSeq(list, 1, first - 1) \o <<item>>
               \o Without(SubSeq(list, first + 1, Len(list)), ItemsNamed(list, name))

\* mergeIdentityArray, one item of the overlay after the other.
Start(list) == [list |-> list, deleted |-> {}, added |-> {}, more |-> <<>>, ok |-> TRUE]
Reject(acc) == [acc EXCEPT !.ok = FALSE]

IdentityItem(acc, item) ==
    IF item.tag = "delete"
    THEN IF /\ IsScalar(item) /\ item.value # Blank
            /\ item.value \notin acc.added
            /\ ItemsNamed(acc.list, item.value) # {}
         THEN [acc EXCEPT !.list = Without(@, ItemsNamed(@, item.value)),
                          !.deleted = @ \cup {item.value}]
         ELSE Reject(acc)
    ELSE IF /\ HasName(item)
            /\ Name(item) \notin acc.deleted \cup acc.added
            /\ Stripped(item) # Failed
         THEN [acc EXCEPT !.list = ReplaceNamed(@, Name(item), Stripped(item)),
                          !.added = @ \cup {Name(item)}]
         ELSE Reject(acc)

MergeIdentityArray(b, o) ==
    LET acc[i \in 0..Len(o.items)] ==
            IF i = 0 THEN Start(b.items)
            ELSE IF acc[i - 1].ok THEN IdentityItem(acc[i - 1], o.items[i]) ELSE acc[i - 1]
        end == acc[Len(o.items)]
    IN  IF end.ok THEN List(end.list) ELSE Failed

\* mergeRules: deletions act on the subscription's rules, additions are put
\* before the first that is left whose type is MATCH.
IsRule(item, text) == IsScalar(item) /\ item.value = text
IsTerminal(item)   == IsScalar(item) /\ item.value \in Terminals

RulesOf(list, text) == {x \in ItemsOf(list) : IsRule(x, text)}

RuleItem(acc, item) ==
    IF item.tag = "delete"
    THEN IF /\ IsScalar(item) /\ item.value # Blank
            /\ item.value \notin acc.added
            /\ RulesOf(acc.list, item.value) # {}
         THEN [acc EXCEPT !.list = Without(@, RulesOf(@, item.value)),
                          !.deleted = @ \cup {item.value}]
         ELSE Reject(acc)
    ELSE IF Stripped(item) = Failed \/ (IsScalar(item) /\ item.value \in acc.deleted)
         THEN Reject(acc)
         ELSE [acc EXCEPT !.more = Append(@, Stripped(item)),
                          !.added = @ \cup (IF IsScalar(item) THEN {item.value} ELSE {})]

\* Mutant: before the last terminal rule.
InsertBeforeLast(list, more) ==
    LET n == IF \E i \in DOMAIN list : IsTerminal(list[i])
             THEN (CHOOSE i \in DOMAIN list :
                      IsTerminal(list[i]) /\ \A j \in (i + 1)..Len(list) : ~IsTerminal(list[j])) - 1
             ELSE Len(list)
    IN  SubSeq(list, 1, n) \o more \o SubSeq(list, n + 1, Len(list))

\* The first n rules are those before the first terminal one.
Fallback(list, n) == /\ \A i \in 1..n : ~IsTerminal(list[i])
                     /\ n < Len(list) => IsTerminal(list[n + 1])

InsertRules(list, more) ==
    LET n == CHOOSE n \in 0..Len(list) : Fallback(list, n)
    IN  SubSeq(list, 1, n) \o more \o SubSeq(list, n + 1, Len(list))

MergeRules(b, o) ==
    LET acc[i \in 0..Len(o.items)] ==
            IF i = 0 THEN Start(b.items)
            ELSE IF acc[i - 1].ok THEN RuleItem(acc[i - 1], o.items[i]) ELSE acc[i - 1]
        end == acc[Len(o.items)]
    IN  IF end.ok THEN List(InsertRules(end.list, end.more)) ELSE Failed
-------------------------------------------------------------------------------
\* What an entry of the overlay is in the merged mapping.
Entry(b, o, place, below, k) ==
    CASE o.at[k] = Missing      -> Get(b, k)
      [] IsDeletion(o.at[k])    -> IF IsNull(o.at[k]) /\ Get(b, k) # Missing THEN Missing ELSE Failed
      [] IsNode(o.at[k]) /\ ~IsDeletion(o.at[k]) ->
             IF place \in ProviderMaps THEN Stripped(o.at[k])
             ELSE below[<<Get(b, k), o.at[k], Below(place, k)>>]

\* mergeMapping and mergeProviderMap.
MergeMapping(b, o, place, below) ==
    IF o.flaw = "directive" \/ \E k \in Keys : Entry(b, o, place, below, k) = Failed
    THEN Failed ELSE Map([k \in Keys |-> Entry(b, o, place, below, k)])

MergeList(b, o, place) ==
    IF place \in IdentityArrays THEN MergeIdentityArray(b, o)
    ELSE IF place = "rules" THEN MergeRules(b, o) ELSE Stripped(o)

\* mergeNode, one node, given the merge of its children.
Merge(b, o, place, below) ==
    IF o.tag = "replace" THEN Stripped(o)
    ELSE CASE IsMap(o)    -> MergeMapping(IF IsMap(b) THEN b ELSE Mapping(<<>>), o, place, below)
           [] IsList(o)   -> MergeList(IF IsList(b) THEN b ELSE List(<<>>), o, place)
           [] IsScalar(o) -> Stripped(o)

merge[d \in 0..Depth] ==
    IF d = 0 THEN <<>>
    ELSE [node \in (Configs[d] \cup {Missing}) \X Overlays[d] \X Places |->
            Merge(node[1], node[2], node[3], merge[d - 1])]

MergeNode(b, o, place) == merge[Depth][<<b, o, place>>]

\* mergeConfig: what has nothing to merge with is handed on as it is.
MergeConfig(b, o) ==
    IF o = Missing THEN b
    ELSE IF o = Legacy /\ b = Missing THEN o
    ELSE IF ~IsNode(o) \/ HasDuplicateKey(o) \/ o.tag # "plain" \/ b = Unparsable THEN Failed
    ELSE IF IsMap(b) /\ IsMap(o) THEN MergeNode(b, o, "document")
    ELSE IF HasDirective(o) THEN MergeNode(Missing, o, "document") ELSE o
=============================================================================
