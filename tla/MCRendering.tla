------------------------------ MODULE MCRendering ------------------------------
(***************************************************************************)
(* Rendering and adopting over one instance of the merge: either one       *)
(* render of a pair of inputs, or any number of adoptions with what        *)
(* happens around them.                                                    *)
(***************************************************************************)
EXTENDS RenderReference, ConfigAdoption, TLC

VARIABLE user  \* "renders" or "adopts"

MCInit ==
    \/ /\ user = "renders" /\ RenderInit
       /\ base = Missing /\ override = Missing /\ config = Missing /\ outcome = "none" /\ kept = <<>>
    \/ /\ user = "adopts" /\ Init
       /\ data = Missing /\ overlay = Missing /\ rendered = Missing

MCNext == /\ \/ user = "renders" /\ Render /\ UNCHANGED vars
             \/ user = "adopts" /\ Next /\ UNCHANGED renderVars
          /\ UNCHANGED user

MCSpec == MCInit /\ [][MCNext]_<<renderVars, vars, user>>
-------------------------------------------------------------------------------
(* What is rendered. *)

\* A document with one field.
Field(k, n) == Mapping(k :> n)

\* Functions from a subset of keys.
Partial(keys, values) == UNION {[ks -> values] : ks \in SUBSET keys}

Leaf == {Scalar("1"), Scalar("2")}
Deletion == Delete("null")

\* Nested mappings: what the subscription and the override may have in dns.
BaseDns    == {Mapping(f) : f \in Partial({"x", "y"}, {Scalar("1"), Mapping("a" :> Scalar("1")),
                                                       Mapping([k \in {"a", "b"} |-> Scalar("1")])})}
InnerOver  == {Mapping(f) : f \in Partial({"a", "b"}, {Scalar("2"), Deletion, Tagged(Scalar("2"), "replace")})}
DnsValues  == {Scalar("2"), Deletion, Delete("2"), Flawed(Mapping("a" :> Scalar("2")), "directive"),
               Flawed(Mapping("a" :> Scalar("2")), "duplicate")}
                \cup InnerOver \cup {Tagged(m, "replace") : m \in InnerOver}
OverDns    == {Mapping(f) : f \in Partial({"x"}, DnsValues)}
                \cup {Mapping("x" :> Deletion @@ "y" :> v) : v \in DnsValues}
Over(key, values) == {Field(key, v) : v \in values}
                       \cup {Field(key, Tagged(v, "replace")) : v \in values}
                       \cup {Field(key, Deletion)}

NestedInputs == {Field("dns", b) : b \in BaseDns \cup Leaf} \X (Over("dns", OverDns) \cup {Field("new", Scalar("1"))})

\* The same mappings as the entries of a provider map.
ProviderInputs == {Field("rule-providers", b) : b \in BaseDns} \X Over("rule-providers", OverDns)

\* Arrays merged by name: p and q, of the subscription (1), of the override (2).
Item(n, v) == Mapping("name" :> Scalar(n) @@ "v" :> Scalar(v))
Upto(S, n) == UNION {[1..k -> S] : k \in 0..n}
BaseItems  == {Item("p", "1"), Item("q", "1"), Scalar("p")}
OverItems  == {Item("p", "2"), Tagged(Item("q", "2"), "replace"), Delete("p"), Delete("q"),
               Delete(""), Mapping("v" :> Deletion), Mapping("name" :> Scalar("r") @@ "v" :> Deletion),
               Item("r", "2")}
IdentityInputs == {Field("proxies", List(s)) : s \in Upto(BaseItems, 3)}
                    \X {Field("proxies", List(s)) : s \in Upto(OverItems, 3)}

\* Rules: a and b, and the terminal rules m and n.
BaseRules  == {Scalar("a"), Scalar("b"), Scalar("m"), Scalar("n")}
OverRules  == {Scalar("a"), Scalar("m"), Scalar("c"), Delete("a"), Delete("m"), Delete("c")}
RuleInputs == {Field("rules", List(s)) : s \in Upto(BaseRules, 3)}
                \X {Field("rules", List(s)) : s \in Upto(OverRules, 2)}

\* Documents that are no mapping, or nothing, on either side.
Odd == {Missing, Unparsable, Scalar("1"), List(<<Scalar("1")>>), List(<<Tagged(Scalar("1"), "replace")>>),
        List(<<Deletion>>), Mapping(<<>>), Field("dns", Scalar("1")), Field("dns", Tagged(Scalar("1"), "replace")),
        Field("dns", Deletion), Tagged(Mapping(<<>>), "replace"), Tagged(Scalar("null"), "delete"),
        Field("proxies", List(<<Item("p", "2"), Item("p", "2")>>)),
        Field("proxies", List(<<Tagged(Item("p", "2"), "replace"), Item("p", "2")>>)),
        Field("proxies", List(<<Delete("p")>>)),
        Field("proxies", List(<<Flawed(Item("p", "2"), "duplicate")>>))}
OddInputs == {b \in Odd : ~IsNode(b) \/ b \in Configs[Depth]} \X (Odd \cup {Legacy})

AllInputs == NestedInputs \cup ProviderInputs \cup IdentityInputs \cup RuleInputs \cup OddInputs
-------------------------------------------------------------------------------
(* What is adopted, and around it. *)

One == Scalar("1")
Two == Scalar("2")
Three == Scalar("3")

Proxies(n) == List(<<Scalar(n)>>)
Dns(f) == "dns" :> Mapping(f)

\* A provider that changes values, drops nested keys, and turns a mapping into
\* a value.
PlainSubscriptions ==
    {Mapping("new" :> One @@ Dns("a" :> One @@ "b" :> One) @@ "proxies" :> Proxies("p")),
     Mapping("new" :> Two @@ Dns("a" :> Two @@ "b" :> Two) @@ "proxies" :> Proxies("q")),
     Mapping("dns" :> One @@ "proxies" :> Proxies("p"))}

PlainOverrides ==
    {Missing, Mapping("new" :> Delete("null")),
     Mapping("dns" :> Tagged(Mapping("a" :> Two), "replace") @@ "v" :> One)}

PlainEdits ==
    [f \in {"new", "dns", "proxies", "v"} |->
        CASE f = "new"     -> {Missing, Three}
          [] f = "dns"     -> {Missing, Mapping("a" :> Three @@ "b" :> Mapping("a" :> One))}
          [] f = "proxies" -> {One}
          [] f = "v"       -> {Missing}]

\* A provider entry with two keys; the user removes one of them.
ProviderSubscriptions ==
    {Mapping("rule-providers" :> Mapping("x" :> Mapping("a" :> One @@ "b" :> One)))}
ProviderEdits == "rule-providers" :> {Mapping("x" :> Mapping("a" :> One))}
-------------------------------------------------------------------------------
(* A run of one of the two has nothing for the other. *)

NoInputs == {}
NoSubscriptions == {}
NoOverrides == {}
NoEdits == <<>>
NoOverride == {Missing}

MatchRules == {"m", "n"}
AllKeys == {"dns", "new", "rule-providers", "proxies", "rules", "x", "y", "a", "b", "name", "v"}
AllTexts == {"", "null", "1", "2", "3", "p", "q", "r", "a", "b", "c", "m", "n"}
===============================================================================
