------------------------------ MODULE MCRequests ------------------------------
(* RequestMachines for TLC: small templates, stores, files and histories.   *)
EXTENDS RequestMachines, TLC

Symmetry == Permutations(Jobs) \cup Permutations(Calls)

-----------------------------------------------------------------------------
(* Templates of three nodes, or of two and a map; short lists of extras. *)
Node(class, inputs) == [class |-> class, has_inputs |-> TRUE, inputs |-> inputs]
Bare(class) == [class |-> class, has_inputs |-> FALSE, inputs |-> {}]

Text == Node("CLIPTextEncode", {"text"})
Sampler == Node("KSampler", {"seed", "model"})
Loader == Node("LoraLoader", {"lora_name"})

SmallTextClasses == {"CLIPTextEncode", "CLIPTextEncodeSDXL"}

Kinds == {Text, Sampler, Loader, Node("CLIPTextEncode", {}), Node("UNETLoader", {"unet_name"}),
          Bare("KSampler"), Bare("no_dict")}

Plain == {[nodes |-> ns, mapped |-> FALSE, targets |-> <<>>] : ns \in [1..3 -> Kinds]}

Target(p, n, x) == [parameter |-> p, valid |-> TRUE, node |-> n, input |-> x]
TargetPool == {Target("prompt", 1, "text"), Target("negative_prompt", 1, "text"),
               Target("seed", 2, "noise"), Target("seed", 3, "seed"),
               [Target("seed", 1, "seed") EXCEPT !.valid = FALSE]}

Mapped == {[nodes |-> ns, mapped |-> TRUE, targets |-> ts] :
             ns \in [1..2 -> {Text, Sampler, Bare("KSampler")}],
             ts \in {<<>>} \cup [1..1 -> TargetPool] \cup [1..2 -> TargetPool]}

ExtraFor(n, x) == [given |-> TRUE, valid |-> TRUE, node |-> n, input |-> x]
ExtraLists ==
  {<<>>, <<ExtraFor(1, "text")>>, <<ExtraFor(2, "steps")>>, <<ExtraFor(4, "seed")>>,
   <<[ExtraFor(1, "seed") EXCEPT !.given = FALSE]>>,
   <<ExtraFor(2, "seed"), [ExtraFor(1, "seed") EXCEPT !.valid = FALSE]>>,
   <<ExtraFor(2, "noise"), ExtraFor(1, "lora_name")>>}

SmallTemplates == Plain \cup Mapped
SmallParameters ==
  [given : {{"prompt"}, {"prompt", "seed"}, {"prompt", "negative_prompt", "seed", "model"}},
   loras : 0..2, extras : ExtraLists]

(* Three jobs of two statuses: at first no two of one time, at most one of  *)
(* them done, and at most one key without a valid record.                   *)
SmallStatuses == {"running", "done"}
SmallTimes == 0..2
SmallLimits == 1..2
SmallOffsets == {0, 2}
SmallStores ==
  {s \in [Jobs -> [status : SmallStatuses, updated_at : SmallTimes] \cup {NoJob, Unreadable}] :
     LET there_at_first == {j \in Jobs : s[j] \notin {NoJob, Unreadable}}
     IN /\ Cardinality({j \in Jobs : s[j] = Unreadable}) <= 1
        /\ Cardinality({j \in there_at_first : s[j].status = "done"}) <= 1
        /\ \A j, k \in there_at_first : j # k => s[j].updated_at # s[k].updated_at}

(* Every file of at most five characters. *)
SmallFiles == UNION {[1..n -> Characters] : n \in 0..5}
SmallLines == 1..2

(* Histories of one node or three. *)
Output(name, sub, type) == [ok |-> TRUE, file |-> name, sub |-> sub, type |-> type]
Malformed == [Output("", <<>>, "") EXCEPT !.ok = FALSE]
Ordinary == {Output("f", <<>>, "output"), Output("f", <<"a">>, "output"),
             Output("f", <<>>, "temp"), Malformed}
Unusual == {Output("f", <<"", "a", "", "b", "">>, "output"), Output("g", <<".", "a">>, "output"),
            Output("f", <<"..">>, "output"), Output("f", <<"", "">>, "output"),
            Output("a b", <<".">>, "output"), Output("a%20b", <<"a b">>, "output")}
SmallEscapes == ("a b" :> "a%20b") @@ ("a%20b" :> "a%2520b")
Media(images, videos, gifs) == [images |-> images, videos |-> videos, gifs |-> gifs]
SmallHistories ==
  {<<Media(list, <<>>, <<>>)>> : list \in UNION {[1..n -> Ordinary \cup Unusual] : n \in 0..2}}
  \cup {<<Media(<<x>>, <<Malformed, Output("g", <<"a">>, "output")>>,
                <<Output("h", <<>>, "output")>>)>> : x \in Ordinary \cup Unusual}
  \cup {<<Media(<<>>, <<>>, <<>>), Media(<<x>>, <<>>, <<y>>), Media(<<Malformed, z>>, <<>>, <<>>)>> :
          x \in Ordinary, y \in Ordinary, z \in Ordinary}
=============================================================================
