----------------------------- MODULE RequestProofs -----------------------------
(***************************************************************************)
(* Theorems about the machines of RequestMachines.  The workflow builder,  *)
(* for any templates and parameters of their shapes: the builder's loops   *)
(* compute what the reference, which has no loop, says of each input.  The *)
(* listing of jobs, for any number of jobs, statuses and pages; the log    *)
(* tail, for any file, chunk size and limit; the authentication, for any   *)
(* users, keys and requests; and, with DeliveryProofs, the five side by    *)
(* side.                                                                   *)
(***************************************************************************)
EXTENDS DeliveryProofs, FiniteSetTheorems, FunctionTheorems

Last == Len(template.nodes) + 1

(* A list of those nodes of S, in order, that the loop has visited before b. *)
Collected(list, S, b) ==
  /\ list \in Seq(Nat)
  /\ Len(list) = Cardinality({n \in S : n < b})
  /\ \A k \in 1..Len(list) : list[k] \in S /\ list[k] < b /\ Rank(list[k], S) = k
  /\ \A n \in S : n < b => Rank(n, S) \in 1..Len(list) /\ list[Rank(n, S)] = n

(* What the loops have found in order before the turn b. *)
TargetsFine(b) ==
  \A k \in DOMAIN template.targets :
    LET t == template.targets[k]
    IN k < b /\ t.parameter \in request.given => t.valid /\ Addressable(t.node)
NodesFine(b) == \A n \in Nodes : n < b /\ IsDict(n) => HasInputs(n)
ExtrasFine(b) ==
  \A k \in DOMAIN request.extras :
    LET e == request.extras[k] IN k < b /\ e.given => e.valid /\ Addressable(e.node)

MappingFine ==
  IF template.mapped THEN TargetsFine(Len(template.targets) + 1)
  ELSE NodesFine(Last) /\ request.loras <= Cardinality(LoraNodes)

(* Where the builder is, it has found everything before it in order, and    *)
(* the lists hold the nodes the reference ranks.                            *)
Shapes ==
  /\ template \in TemplateFiles /\ request \in RuntimeParameters
  /\ i \in Nat \ {0}
  /\ phase \in {"load", "not_loaded", "map", "nodes", "loras", "extras", "done", "failed"}

Progress ==
  /\ phase = "load" => text_nodes = <<>> /\ lora_nodes = <<>>
  /\ phase = "map" =>
       template.mapped /\ i <= Len(template.targets) + 1 /\ TargetsFine(i)
  /\ phase = "nodes" =>
       /\ ~template.mapped /\ i <= Last /\ NodesFine(i)
       /\ Collected(text_nodes, TextNodes, i) /\ Collected(lora_nodes, LoraNodes, i)
  /\ phase = "loras" =>
       /\ ~template.mapped /\ NodesFine(Last) /\ Collected(lora_nodes, LoraNodes, Last)
       /\ i <= request.loras + 1 /\ i <= Len(lora_nodes) + 1
  /\ phase = "extras" => MappingFine /\ i <= Len(request.extras) + 1 /\ ExtrasFine(i)
  /\ phase = "done" => ~Broken
  /\ phase = "failed" => Broken

-----------------------------------------------------------------------------
(* The loops run over numbers from 1. *)
LEMMA Sequenced ==
  ASSUME Shapes
  PROVE  /\ Len(template.nodes) \in Nat /\ Nodes = 1..Len(template.nodes)
         /\ Len(template.targets) \in Nat
         /\ DOMAIN template.targets = 1..Len(template.targets)
         /\ Len(request.extras) \in Nat
         /\ DOMAIN request.extras = 1..Len(request.extras)
         /\ request.loras \in Nat
         /\ Last \in Nat
         /\ TextNodes \subseteq Nodes /\ LoraNodes \subseteq Nodes
  BY DEF Shapes, TemplateFiles, RuntimeParameters, Nodes, Last, TextNodes, LoraNodes

(* The nodes up to some number are finitely many. *)
LEMMA FiniteBelow ==
  ASSUME NEW N \in Nat, NEW S, \A n \in S : n \in 1..N, NEW T, T \subseteq S
  PROVE  IsFiniteSet(T) /\ Cardinality(T) \in Nat
<1>1. IsFiniteSet(1..N)
  <2>1. 1 \in Int /\ N \in Int
    OBVIOUS
  <2> QED
    BY <2>1, FS_Interval
<1>2. T \subseteq 1..N
  OBVIOUS
<1> QED
  BY <1>1, <1>2, FS_Subset, FS_CardinalityType

(* One turn of the loop over the nodes. *)
LEMMA CollectNext ==
  ASSUME NEW N \in Nat, NEW S, \A n \in S : n \in 1..N, NEW b \in Nat, NEW list,
         Collected(list, S, b)
  PROVE  /\ b \in S => Collected(Append(list, b), S, b + 1)
         /\ b \notin S => Collected(list, S, b + 1)
<1> DEFINE Before == {n \in S : n < b}
           Now == {n \in S : n < b + 1}
<1>1. IsFiniteSet(Before) /\ \A n \in S : n \in Nat
  <2>1. Before \subseteq S
    OBVIOUS
  <2>2. IsFiniteSet(Before)
    BY <2>1, FiniteBelow
  <2> QED
    BY <2>2
<1>2. ASSUME b \notin S
      PROVE  Collected(list, S, b + 1)
  <2>1. Now = Before /\ \A n \in S : n < b + 1 <=> n < b
    BY <1>1, <1>2
  <2> QED
    BY <1>1, <2>1 DEF Collected
<1>3. ASSUME b \in S
      PROVE  Collected(Append(list, b), S, b + 1)
  <2>1. Now = Before \cup {b} /\ b \notin Before /\ \A n \in S : n < b + 1 <=> n < b \/ n = b
    <3>1. ~(b < b) /\ \A n \in S : n < b + 1 <=> n < b \/ n = b
      BY <1>1
    <3> QED
      BY <1>3, <3>1
  <2>2. Cardinality(Now) = Cardinality(Before) + 1
    BY <1>1, <2>1, FS_AddElement
  <2>3. Rank(b, S) = Cardinality(Now)
    <3>1. {m \in S : m <= b} = Now
      BY <1>1
    <3> QED
      BY <3>1 DEF Rank
  <2> DEFINE more == Append(list, b)
  <2>4. list \in Seq(Nat) /\ Len(list) \in Nat /\ Len(list) = Cardinality(Before)
    BY DEF Collected
  <2>5. /\ more \in Seq(Nat) /\ Len(more) = Len(list) + 1 /\ more[Len(list) + 1] = b
        /\ \A k \in 1..Len(list) : more[k] = list[k]
    <3>1. list \in Seq(Nat) /\ b \in Nat
      BY <2>4
    <3> QED
      BY <3>1
  <2>6. Len(more) = Cardinality(Now) /\ Rank(b, S) = Len(more)
    BY <2>2, <2>3, <2>4, <2>5
  <2> HIDE DEF more
  <2>7. ASSUME NEW k \in 1..Len(more)
        PROVE  more[k] \in S /\ more[k] < b + 1 /\ Rank(more[k], S) = k
    <3>1. CASE k \in 1..Len(list)
      <4>1. more[k] = list[k] /\ list[k] \in S /\ list[k] < b /\ Rank(list[k], S) = k
        BY <2>5, <3>1 DEF Collected
      <4> QED
        BY <1>1, <4>1
    <3>2. CASE k = Len(more)
      BY <1>3, <2>4, <2>5, <2>6, <3>2
    <3> QED
      BY <2>4, <2>5, <3>1, <3>2
  <2>8. ASSUME NEW n \in S, n < b + 1
        PROVE  Rank(n, S) \in 1..Len(more) /\ more[Rank(n, S)] = n
    <3>1. CASE n = b
      BY <2>4, <2>5, <2>6, <3>1
    <3>2. CASE n < b
      <4>1. Rank(n, S) \in 1..Len(list) /\ list[Rank(n, S)] = n
        BY <3>2 DEF Collected
      <4> DEFINE r == Rank(n, S)
      <4>2. r \in 1..Len(more) /\ r \in 1..Len(list) /\ list[r] = n
        BY <2>4, <2>5, <4>1
      <4> QED
        BY <2>5, <4>2
    <3> QED
      BY <2>1, <2>8, <3>1, <3>2
  <2> QED
    BY <2>5, <2>6, <2>7, <2>8 DEF Collected, more
<1> QED
  BY <1>2, <1>3

(* Before the loop nothing is collected. *)
LEMMA CollectNothing ==
  ASSUME NEW N \in Nat, NEW S, \A n \in S : n \in 1..N
  PROVE  Collected(<<>>, S, 1)
<1>1. {n \in S : n < 1} = {} /\ \A n \in S : ~(n < 1)
  OBVIOUS
<1> QED
  BY <1>1, FS_EmptySet DEF Collected

(* After it, everything. *)
LEMMA CollectedAll ==
  ASSUME NEW N \in Nat, NEW S, \A n \in S : n \in 1..N, NEW list, Collected(list, S, N + 1)
  PROVE  Len(list) = Cardinality(S)
<1>1. {n \in S : n < N + 1} = S
  OBVIOUS
<1> QED
  BY <1>1 DEF Collected

-----------------------------------------------------------------------------
(* What depends on the template and the request only stays. *)
LEMMA SameInputs ==
  ASSUME UNCHANGED <<template, request>>
  PROVE  /\ Nodes' = Nodes /\ Last' = Last /\ TextNodes' = TextNodes /\ LoraNodes' = LoraNodes
         /\ MappingFine' = MappingFine /\ Broken' = Broken
         /\ \A b : /\ TargetsFine(b)' = TargetsFine(b) /\ NodesFine(b)' = NodesFine(b)
                   /\ ExtrasFine(b)' = ExtrasFine(b)
  BY DEF Nodes, Last, TextNodes, LoraNodes, MappingFine, Broken, TargetsFine, NodesFine,
         ExtrasFine, Class, IsDict, HasInputs, Addressable, Nodes

(* The builder's state keeps its shapes. *)
LEMMA ShapesNext ==
  ASSUME Shapes, [Next]_vars
  PROVE  Shapes' /\ UNCHANGED <<template, request>>
<1>1. UNCHANGED <<template, request>>
  BY DEF Next, vars, LoadFails, Load, SetMappedValue, VisitNode, InjectText, InjectLora,
         EndMapping, InjectExtra, Finish
<1>2. i' \in Nat \ {0} /\ phase' \in {"load", "not_loaded", "map", "nodes", "loras", "extras",
                                      "done", "failed"}
  BY DEF Shapes, Next, vars, LoadFails, Load, SetMappedValue, VisitNode, InjectText, InjectLora,
         EndMapping, InjectExtra, Finish, Enter, Skip, Fail, SetInput
<1> QED
  BY <1>1, <1>2 DEF Shapes

(* What a turn that writes to an addressed input, or fails, does. *)
LEMMA SetInputDoes ==
  ASSUME NEW n, NEW input, NEW value, SetInput(n, input, value)
  PROVE  \/ Addressable(n) /\ phase' = phase /\ i' = i + 1
         \/ ~Addressable(n) /\ phase' = "failed"
  BY DEF SetInput, Fail, Enter

(* A turn of the loop over the template's input map keeps Progress. *)
LEMMA MapProgress ==
  ASSUME Shapes, Progress, SetMappedValue
  PROVE  Progress'
<1> DEFINE t == template.targets[i]
<1>1. /\ phase = "map" /\ i \in DOMAIN template.targets /\ template.mapped /\ TargetsFine(i)
      /\ UNCHANGED <<template, request, text_nodes, lora_nodes>>
  BY Sequenced DEF SetMappedValue, Progress, Shapes
<1>2. CASE /\ phase' = "map" /\ i' = i + 1
           /\ t.parameter \in request.given => t.valid /\ Addressable(t.node)
  <2>1. TargetsFine(i + 1)
    <3> SUFFICES ASSUME NEW k \in DOMAIN template.targets, k < i + 1,
                        template.targets[k].parameter \in request.given
                 PROVE  template.targets[k].valid /\ Addressable(template.targets[k].node)
      BY DEF TargetsFine
    <3>1. k < i \/ k = i
      BY Sequenced DEF Shapes
    <3> QED
      BY <1>1, <1>2, <3>1 DEF TargetsFine
  <2>2. i + 1 <= Len(template.targets) + 1
    BY <1>1, Sequenced DEF Shapes
  <2> QED
    BY <1>1, <1>2, <2>1, <2>2, SameInputs DEF Progress
<1>3. CASE phase' = "failed" /\ t.parameter \in request.given /\ (~t.valid \/ ~Addressable(t.node))
  <2>1. Broken
    BY <1>1, <1>3 DEF Broken
  <2> QED
    BY <1>1, <1>3, <2>1, SameInputs DEF Progress
<1> QED
  BY <1>1, <1>2, <1>3, SetInputDoes DEF SetMappedValue, Skip, Fail, Enter

(* A turn of the loop over the nodes, when there is no map. *)
LEMMA NodeProgress ==
  ASSUME WorkflowInputs, Shapes, Progress, VisitNode
  PROVE  Progress'
<1>1. /\ phase = "nodes" /\ i \in Nodes /\ ~template.mapped /\ NodesFine(i)
      /\ Collected(text_nodes, TextNodes, i) /\ Collected(lora_nodes, LoraNodes, i)
      /\ UNCHANGED <<template, request>>
  BY DEF VisitNode, Progress
<1>2. i \in Nat /\ Len(template.nodes) \in Nat /\ Nodes = 1..Len(template.nodes) /\ i + 1 <= Last
  BY <1>1, Sequenced DEF Shapes, Last
<1>3. CASE IsDict(i) /\ ~HasInputs(i) /\ phase' = "failed"
  <2>1. Broken
    BY <1>1, <1>3 DEF Broken
  <2> QED
    BY <1>1, <1>3, <2>1, SameInputs DEF Progress
<1>4. CASE /\ phase' = "nodes" /\ i' = i + 1 /\ (IsDict(i) => HasInputs(i))
           /\ text_nodes' = IF i \in TextNodes THEN Append(text_nodes, i) ELSE text_nodes
           /\ lora_nodes' = IF i \in LoraNodes THEN Append(lora_nodes, i) ELSE lora_nodes
  <2>1. NodesFine(i + 1)
    <3> SUFFICES ASSUME NEW n \in Nodes, n < i + 1, IsDict(n)
                 PROVE  HasInputs(n)
      BY DEF NodesFine
    <3>1. n < i \/ n = i
      BY <1>2
    <3> QED
      BY <1>1, <1>4, <3>1 DEF NodesFine
  <2>2. Collected(text_nodes', TextNodes, i + 1)
    <3>1. \A n \in TextNodes : n \in 1..Len(template.nodes)
      BY <1>2 DEF TextNodes
    <3> QED
      BY <1>1, <1>2, <1>4, <3>1, CollectNext
  <2>3. Collected(lora_nodes', LoraNodes, i + 1)
    <3>1. \A n \in LoraNodes : n \in 1..Len(template.nodes)
      BY <1>2 DEF LoraNodes
    <3> QED
      BY <1>1, <1>2, <1>4, <3>1, CollectNext
  <2>4. Collected(text_nodes, TextNodes, i)' /\ Collected(lora_nodes, LoraNodes, i)'
    BY <1>1, <1>4, <2>2, <2>3, SameInputs DEF Collected
  <2> QED
    BY <1>1, <1>2, <1>4, <2>1, <2>4, SameInputs DEF Progress
<1>5. /\ i \in TextNodes <=> IsText(Class(i))
      /\ i \in LoraNodes <=> Class(i) = "LoraLoader"
      /\ ~IsDict(i) => i \notin TextNodes /\ i \notin LoraNodes
  BY <1>1 DEF WorkflowInputs, IsDict, TextNodes, LoraNodes, IsText, Class
<1> QED
  BY <1>1, <1>3, <1>4, <1>5 DEF VisitNode, Skip, Fail, Enter

(* A turn of the loop over the LoRAs. *)
LEMMA LoraProgress ==
  ASSUME Shapes, Progress, InjectLora
  PROVE  Progress'
<1>1. /\ phase = "loras" /\ i <= request.loras /\ ~template.mapped /\ NodesFine(Last)
      /\ Collected(lora_nodes, LoraNodes, Last)
      /\ UNCHANGED <<template, request, text_nodes, lora_nodes>>
  BY DEF InjectLora, Progress
<1>2. /\ i \in Nat /\ request.loras \in Nat /\ Len(template.nodes) \in Nat
      /\ \A n \in LoraNodes : n \in 1..Len(template.nodes)
  BY Sequenced DEF Shapes
<1>3. Len(lora_nodes) = Cardinality(LoraNodes) /\ Len(lora_nodes) \in Nat
  <2>1. Len(lora_nodes) = Cardinality(LoraNodes)
    BY <1>1, <1>2, CollectedAll DEF Last
  <2> QED
    BY <1>1, <2>1 DEF Collected
<1>4. CASE i > Len(lora_nodes) /\ phase' = "failed"
  <2>1. Cardinality(LoraNodes) < request.loras
    BY <1>1, <1>2, <1>3, <1>4
  <2>2. Broken
    BY <1>1, <2>1 DEF Broken
  <2> QED
    BY <1>1, <1>4, <2>2, SameInputs DEF Progress
<1>5. CASE i <= Len(lora_nodes) /\ phase' = "loras" /\ i' = i + 1
  <2>1. i + 1 <= request.loras + 1 /\ i + 1 <= Len(lora_nodes) + 1
    BY <1>1, <1>2, <1>3, <1>5
  <2>2. Collected(lora_nodes, LoraNodes, Last)'
    BY <1>1, SameInputs DEF Collected
  <2> QED
    BY <1>1, <1>5, <2>1, <2>2, SameInputs DEF Progress
<1> QED
  BY <1>1, <1>4, <1>5 DEF InjectLora, Fail, Enter

(* The loops over the map or the nodes end: the mapping was fine. *)
LEMMA EndMappingProgress ==
  ASSUME Shapes, Progress, EndMapping
  PROVE  Progress'
<1>1. UNCHANGED <<template, request, text_nodes, lora_nodes>> /\ phase' = "extras" /\ i' = 1
  BY DEF EndMapping, Enter
<1>2. MappingFine
  <2>1. CASE phase = "map" /\ i > Len(template.targets)
    <3>1. i = Len(template.targets) + 1 /\ template.mapped /\ TargetsFine(i)
      BY <2>1, Sequenced DEF Progress, Shapes
    <3> QED
      BY <3>1 DEF MappingFine
  <2>2. CASE phase = "loras" /\ i > request.loras
    <3>1. /\ ~template.mapped /\ NodesFine(Last) /\ Collected(lora_nodes, LoraNodes, Last)
          /\ i = request.loras + 1 /\ i <= Len(lora_nodes) + 1
      BY <2>2, Sequenced DEF Progress, Shapes
    <3>2. Len(lora_nodes) = Cardinality(LoraNodes)
      BY <3>1, Sequenced, CollectedAll DEF Last
    <3>3. Len(lora_nodes) \in Nat
      BY <3>1 DEF Collected
    <3>4. request.loras <= Cardinality(LoraNodes)
      BY <3>1, <3>2, <3>3, Sequenced
    <3> QED
      BY <3>1, <3>4 DEF MappingFine
  <2> QED
    BY <2>1, <2>2 DEF EndMapping
<1>3. ExtrasFine(1) /\ 1 <= Len(request.extras) + 1
  BY Sequenced DEF ExtrasFine
<1> QED
  BY <1>1, <1>2, <1>3, SameInputs DEF Progress

(* A turn of the loop over the extra parameters. *)
LEMMA ExtraProgress ==
  ASSUME Shapes, Progress, InjectExtra
  PROVE  Progress'
<1> DEFINE e == request.extras[i]
<1>1. /\ phase = "extras" /\ i \in DOMAIN request.extras /\ MappingFine /\ ExtrasFine(i)
      /\ UNCHANGED <<template, request, text_nodes, lora_nodes>>
  BY Sequenced DEF InjectExtra, Progress, Shapes
<1>2. CASE phase' = "extras" /\ i' = i + 1 /\ (e.given => e.valid /\ Addressable(e.node))
  <2>1. ExtrasFine(i + 1)
    <3> SUFFICES ASSUME NEW k \in DOMAIN request.extras, k < i + 1, request.extras[k].given
                 PROVE  request.extras[k].valid /\ Addressable(request.extras[k].node)
      BY DEF ExtrasFine
    <3>1. k < i \/ k = i
      BY Sequenced DEF Shapes
    <3> QED
      BY <1>1, <1>2, <3>1 DEF ExtrasFine
  <2>2. i + 1 <= Len(request.extras) + 1
    BY <1>1, Sequenced DEF Shapes
  <2> QED
    BY <1>1, <1>2, <2>1, <2>2, SameInputs DEF Progress
<1>3. CASE phase' = "failed" /\ e.given /\ (~e.valid \/ ~Addressable(e.node))
  <2>1. Broken
    BY <1>1, <1>3 DEF Broken
  <2> QED
    BY <1>1, <1>3, <2>1, SameInputs DEF Progress
<1> QED
  BY <1>1, <1>2, <1>3, SetInputDoes DEF InjectExtra, Skip, Fail, Enter

(* The last loop ends: nothing was broken. *)
LEMMA FinishProgress ==
  ASSUME Shapes, Progress, Finish
  PROVE  Progress'
<1>1. /\ phase = "extras" /\ phase' = "done" /\ UNCHANGED <<template, request>>
      /\ MappingFine /\ ExtrasFine(i) /\ i > Len(request.extras)
  BY DEF Finish, Enter, Progress
<1>2. \A k \in DOMAIN request.extras : k < i
  BY <1>1, Sequenced DEF Shapes
<1>3. \A k \in DOMAIN template.targets : k < Len(template.targets) + 1
  BY Sequenced
<1>4. \A n \in Nodes : n < Last
  BY Sequenced DEF Last
<1>5. ~Broken
  <2>1. ~\E k \in DOMAIN request.extras :
           LET e == request.extras[k] IN e.given /\ (~e.valid \/ ~Addressable(e.node))
    BY <1>1, <1>2 DEF ExtrasFine
  <2>2. CASE template.mapped
    BY <1>1, <1>3, <2>1, <2>2 DEF Broken, MappingFine, TargetsFine
  <2>3. CASE ~template.mapped
    <3>1. NodesFine(Last) /\ request.loras <= Cardinality(LoraNodes)
      BY <1>1, <2>3 DEF MappingFine
    <3>2. Cardinality(LoraNodes) \in Nat
      BY Sequenced, FiniteBelow
    <3>3. ~(Cardinality(LoraNodes) < request.loras)
      BY <3>1, <3>2, Sequenced
    <3> QED
      BY <1>4, <2>1, <2>3, <3>1, <3>3 DEF Broken, NodesFine
  <2> QED
    BY <2>2, <2>3
<1> QED
  BY <1>1, <1>5, SameInputs DEF Progress

(* Progress is inductive. *)
LEMMA ProgressNext ==
  ASSUME WorkflowInputs, Shapes, Progress, [Next]_vars
  PROVE  Progress'
<1>1. CASE UNCHANGED vars
  <2>1. UNCHANGED <<template, request, phase, i, text_nodes, lora_nodes>>
    BY <1>1 DEF vars
  <2> QED
    BY <2>1, SameInputs DEF Progress, Collected
<1>2. CASE LoadFails
  BY <1>2 DEF LoadFails, Enter, Progress
<1>3. CASE Load
  <2>1. /\ UNCHANGED <<template, request, text_nodes, lora_nodes>> /\ i' = 1
        /\ phase' = (IF template.mapped THEN "map" ELSE "nodes")
        /\ text_nodes = <<>> /\ lora_nodes = <<>>
    BY <1>3 DEF Load, Enter, Progress
  <2>2. TargetsFine(1) /\ NodesFine(1) /\ 1 <= Last /\ 1 <= Len(template.targets) + 1
    BY Sequenced DEF TargetsFine, NodesFine, Last
  <2>3. Collected(<<>>, TextNodes, 1) /\ Collected(<<>>, LoraNodes, 1)
    BY Sequenced, CollectNothing
  <2>4. Collected(text_nodes, TextNodes, i)' /\ Collected(lora_nodes, LoraNodes, i)'
    BY <2>1, <2>3, SameInputs DEF Collected
  <2> QED
    BY <2>1, <2>2, <2>4, SameInputs DEF Progress
<1>4. CASE InjectText
  <2>1. /\ UNCHANGED <<template, request, text_nodes, lora_nodes>> /\ i' = 1
        /\ phase' = "loras" /\ i \notin Nodes /\ ~template.mapped /\ i <= Last
        /\ NodesFine(i) /\ Collected(lora_nodes, LoraNodes, i)
    BY <1>4 DEF InjectText, Enter, Progress
  <2>2. i = Last
    BY <2>1, Sequenced DEF Shapes, Last
  <2>3. 1 <= request.loras + 1 /\ 1 <= Len(lora_nodes) + 1
    BY <2>1, Sequenced DEF Collected
  <2>4. Collected(lora_nodes, LoraNodes, Last)'
    BY <2>1, <2>2, SameInputs DEF Collected
  <2> QED
    BY <2>1, <2>2, <2>3, <2>4, SameInputs DEF Progress
<1> QED
  BY <1>1, <1>2, <1>3, <1>4, MapProgress, NodeProgress, LoraProgress, EndMappingProgress,
     ExtraProgress, FinishProgress DEF Next

(* Progress holds of every reachable state. *)
LEMMA ProgressHolds ==
  ASSUME WorkflowInputs
  PROVE  Spec => [](Shapes /\ Progress)
<1>1. Init => Shapes /\ Progress
  BY DEF WorkflowInputs, Init, Shapes, Progress
<1>2. Shapes /\ Progress /\ [Next]_vars => (Shapes /\ Progress)'
  BY ShapesNext, ProgressNext
<1> QED
  BY <1>1, <1>2, PTL DEF Spec

(* For any templates and requests the builder gives up exactly on what is   *)
(* Broken: each loop stops at the first such thing, and none passes over it. *)
THEOREM BuildFailsIffBroken == Spec => []FailsIffBroken
<1> USE InputsAssumption
<1>1. Progress => FailsIffBroken
  BY DEF Progress, FailsIffBroken
<1> QED
  BY <1>1, ProgressHolds, PTL

-----------------------------------------------------------------------------
(* What an input holds, when S are the values that may have been written to *)
(* it: one of them, or what the template has.                               *)
Fits(original, inputs, x, S) ==
  IF S = {}
  THEN /\ x \in DOMAIN inputs <=> x \in original
       /\ x \in DOMAIN inputs => inputs[x] = Original
  ELSE x \in DOMAIN inputs /\ inputs[x] \in S

Holds(n, x, S) == Fits(template.nodes[n].inputs, graph[n], x, S)

(* What the loops have written before the turn b. *)
Before(S, b) == {k \in S : k < b}

ByMap(n, x, b) ==
  {Parameter(template.targets[k].parameter) : k \in
     {m \in Before(MappedTo(n, x), b) : m = Greatest(Before(MappedTo(n, x), b))}}

ByConvention(n, x) ==
  {Parameter(p) : p \in {q \in request.given : /\ <<Class(n), <<x, q>>>> \in Conventions
                                               /\ x \in template.nodes[n].inputs}}
ByText(n, x) ==
  {Parameter("prompt") : m \in {n} \cap
     {t \in TextNodes : x = "text" /\ Rank(t, TextNodes) = 1}}
  \cup {Parameter("negative_prompt") : m \in {n} \cap
          {t \in TextNodes : /\ x = "text" /\ Rank(t, TextNodes) = 2
                             /\ "negative_prompt" \in request.given}}
ByLora(n, x, b) ==
  {Lora(Rank(m, LoraNodes)) : m \in {n} \cap
     {l \in LoraNodes : x \in LoraInputs /\ Rank(l, LoraNodes) < b}}

ByMapping(n, x) ==
  IF template.mapped THEN ByMap(n, x, Len(template.targets) + 1) ELSE ByClass(n, x)

ByExtras(n, x, b) ==
  IF Before(ExtrasFor(n, x), b) # {} THEN {Extra(Greatest(Before(ExtrasFor(n, x), b)))}
  ELSE ByMapping(n, x)

(* The clone holds what the reference says of the loops gone through so far. *)
CloneInv ==
  /\ phase \in {"map", "nodes", "loras", "extras", "done"} =>
       graph = [n \in Nodes |-> graph[n]]
  /\ phase = "map" => \A n \in Nodes : \A x : Holds(n, x, ByMap(n, x, i))
  /\ phase = "nodes" =>
       \A n \in Nodes : \A x : Holds(n, x, IF n < i THEN ByConvention(n, x) ELSE {})
  /\ phase = "loras" =>
       \A n \in Nodes : \A x :
         Holds(n, x, ByConvention(n, x) \cup ByText(n, x) \cup ByLora(n, x, i))
  /\ phase = "extras" => \A n \in Nodes : \A x : Holds(n, x, ByExtras(n, x, i))
  /\ phase = "done" => \A n \in Nodes : \A x : Holds(n, x, Written(n, x))

-----------------------------------------------------------------------------
(* Writing f over some inputs changes what it names and keeps the rest. *)
LEMMA OverFits ==
  ASSUME NEW original, NEW inputs, NEW f, NEW x, NEW S, NEW T,
         x \in DOMAIN f => f[x] \in T,
         x \notin DOMAIN f => T = S /\ Fits(original, inputs, x, S)
  PROVE  Fits(original, Over(inputs, f), x, T)
<1>1. /\ DOMAIN Over(inputs, f) = DOMAIN inputs \cup DOMAIN f
      /\ x \in DOMAIN Over(inputs, f) =>
           Over(inputs, f)[x] = IF x \in DOMAIN f THEN f[x] ELSE inputs[x]
  BY DEF Over
<1> QED
  BY <1>1 DEF Fits

(* A number that no other of the set exceeds is the greatest. *)
LEMMA GreatestIs ==
  ASSUME NEW S, NEW k \in S, \A m \in S : m \in Nat /\ m <= k
  PROVE  Greatest(S) = k
<1> DEFINE g == Greatest(S)
<1>1. g \in S /\ \A m \in S : m <= g
  BY DEF Greatest
<1>2. g \in Nat /\ k \in Nat /\ g <= k /\ k <= g
  BY <1>1
<1> HIDE DEF g
<1>3. g = k
  BY <1>2
<1> QED
  BY <1>3 DEF g

(* One turn more, none, and all of them. *)
LEMMA BeforeNext ==
  ASSUME NEW S, \A m \in S : m \in Nat, NEW b \in Nat
  PROVE  /\ b \in S => b \in Before(S, b + 1) /\ Greatest(Before(S, b + 1)) = b
         /\ b \notin S => Before(S, b + 1) = Before(S, b)
<1>1. ASSUME b \in S
      PROVE  b \in Before(S, b + 1) /\ Greatest(Before(S, b + 1)) = b
  <2>1. b \in Before(S, b + 1) /\ \A m \in Before(S, b + 1) : m \in Nat /\ m <= b
    BY <1>1 DEF Before
  <2> QED
    BY <2>1, GreatestIs
<1>2. ASSUME b \notin S
      PROVE  Before(S, b + 1) = Before(S, b)
  <2>1. \A m \in S : m < b + 1 <=> m < b
    BY <1>2
  <2> QED
    BY <2>1 DEF Before
<1> QED
  BY <1>1, <1>2

(* No turn comes before the first, and all come before the end. *)
LEMMA BeforeEnds ==
  ASSUME NEW N \in Nat, NEW S, \A m \in S : m \in 1..N
  PROVE  Before(S, 1) = {} /\ Before(S, N + 1) = S
<1>1. \A m \in S : ~(m < 1) /\ m < N + 1
  OBVIOUS
<1> QED
  BY <1>1 DEF Before

(* The targets and extra parameters of an input are numbers of turns. *)
LEMMA Turns ==
  ASSUME Shapes, NEW n, NEW x
  PROVE  /\ \A m \in MappedTo(n, x) : m \in 1..Len(template.targets)
         /\ \A m \in ExtrasFor(n, x) : m \in 1..Len(request.extras)
  BY Sequenced DEF MappedTo, ExtrasFor

(* One more turn of the map's loop decides the input it targets. *)
LEMMA MapNext ==
  ASSUME Shapes, NEW n, NEW x
  PROVE  /\ i \in MappedTo(n, x) =>
              ByMap(n, x, i + 1) = {Parameter(template.targets[i].parameter)}
         /\ i \notin MappedTo(n, x) => ByMap(n, x, i + 1) = ByMap(n, x, i)
<1>1. i \in Nat /\ \A m \in MappedTo(n, x) : m \in Nat
  BY Turns, Sequenced DEF Shapes
<1>2. /\ i \in MappedTo(n, x) => /\ i \in Before(MappedTo(n, x), i + 1)
                                 /\ Greatest(Before(MappedTo(n, x), i + 1)) = i
      /\ i \notin MappedTo(n, x) => Before(MappedTo(n, x), i + 1) = Before(MappedTo(n, x), i)
  BY <1>1, BeforeNext
<1> QED
  BY <1>2 DEF ByMap

(* One more turn of the extra parameters' loop decides the input it targets. *)
LEMMA ExtrasNext ==
  ASSUME Shapes, NEW n, NEW x
  PROVE  /\ i \in ExtrasFor(n, x) => ByExtras(n, x, i + 1) = {Extra(i)}
         /\ i \notin ExtrasFor(n, x) => ByExtras(n, x, i + 1) = ByExtras(n, x, i)
<1>1. i \in Nat /\ \A m \in ExtrasFor(n, x) : m \in Nat
  BY Turns, Sequenced DEF Shapes
<1>2. /\ i \in ExtrasFor(n, x) => /\ i \in Before(ExtrasFor(n, x), i + 1)
                                  /\ Greatest(Before(ExtrasFor(n, x), i + 1)) = i
      /\ i \notin ExtrasFor(n, x) => Before(ExtrasFor(n, x), i + 1) = Before(ExtrasFor(n, x), i)
  BY <1>1, BeforeNext
<1> QED
  BY <1>2 DEF ByExtras

(* The reference, part by part, stays too. *)
LEMMA SameValues ==
  ASSUME UNCHANGED <<template, request>>, NEW n, NEW x
  PROVE  /\ ByMap(n, x, i)' = ByMap(n, x, i')
         /\ ByLora(n, x, i)' = ByLora(n, x, i')
         /\ ByExtras(n, x, i)' = ByExtras(n, x, i')
         /\ ByConvention(n, x)' = ByConvention(n, x)
         /\ ByText(n, x)' = ByText(n, x)
         /\ Written(n, x)' = Written(n, x)
<1>1. /\ MappedTo(n, x)' = MappedTo(n, x) /\ ExtrasFor(n, x)' = ExtrasFor(n, x)
      /\ TextNodes' = TextNodes /\ LoraNodes' = LoraNodes
  BY DEF MappedTo, ExtrasFor, TextNodes, LoraNodes, Nodes, Class
<1>2. ByClass(n, x)' = ByClass(n, x)
  BY <1>1 DEF ByClass, Class
<1> QED
  BY <1>1, <1>2 DEF ByMap, ByLora, ByExtras, ByMapping, ByConvention, ByText, Written, Class,
                    Before

-----------------------------------------------------------------------------
(* Writing one value leaves every other input as it was. *)
LEMMA SetInputHolds ==
  ASSUME graph = [n \in Nodes |-> graph[n]], NEW m, NEW input, NEW value,
         SetInput(m, input, value), Addressable(m)
  PROVE  /\ graph' = [n \in Nodes |-> graph'[n]]
         /\ \A n \in Nodes : \A x : \A S :
              Holds(n, x, S) =>
                Fits(template.nodes[n].inputs, graph'[n], x,
                     IF n = m /\ x = input THEN {value} ELSE S)
<1>1. m \in Nodes /\ graph' = [graph EXCEPT ![m] = Over(@, Entry(input, value))]
  BY DEF SetInput, Addressable
<1>2. \A n \in Nodes : graph'[n] = IF n = m THEN Over(graph[m], Entry(input, value)) ELSE graph[n]
  BY <1>1
<1>3. graph' = [n \in Nodes |-> graph'[n]]
  BY <1>1
<1>4. DOMAIN Entry(input, value) = {input} /\ Entry(input, value)[input] = value
  BY DEF Entry
<1>5. ASSUME NEW n \in Nodes, NEW x, NEW S, Holds(n, x, S)
      PROVE  Fits(template.nodes[n].inputs, graph'[n], x,
                  IF n = m /\ x = input THEN {value} ELSE S)
  <2>1. CASE n = m
    <3>1. Fits(template.nodes[n].inputs, Over(graph[m], Entry(input, value)), x,
               IF x = input THEN {value} ELSE S)
      BY <1>4, <1>5, <2>1, OverFits DEF Holds
    <3> QED
      BY <1>2, <2>1, <3>1
  <2>2. CASE n # m
    BY <1>2, <1>5, <2>2 DEF Holds
  <2> QED
    BY <2>1, <2>2
<1> QED
  BY <1>3, <1>5

(* What the conventions write into a node as the template has it. *)
LEMMA ConventionalIs ==
  ASSUME NEW n, NEW x
  PROVE  LET f == Conventional(Class(n), template.nodes[n].inputs)
         IN /\ x \in DOMAIN f <=> ByConvention(n, x) # {}
            /\ x \in DOMAIN f => f[x] \in ByConvention(n, x)
<1> DEFINE inputs == template.nodes[n].inputs
           taken == {c \in Conventions : /\ c[1] = Class(n) /\ c[2][2] \in request.given
                                         /\ c[2][1] \in inputs}
           f == Conventional(Class(n), inputs)
<1>1. \A c \in Conventions : c = <<c[1], <<c[2][1], c[2][2]>>>>
  BY DEF Conventions
<1>2. f = [y \in {c[2][1] : c \in taken} |->
             Parameter((CHOOSE c \in taken : c[2][1] = y)[2][2])]
  BY DEF Conventional
<1> HIDE DEF f
<1>3. ASSUME NEW c \in taken, c[2][1] = x
      PROVE  Parameter(c[2][2]) \in ByConvention(n, x)
  <2>1. c = <<Class(n), <<x, c[2][2]>>>> /\ c \in Conventions
    BY <1>1, <1>3
  <2> QED
    BY <1>3, <2>1 DEF ByConvention
<1>4. ASSUME x \in DOMAIN f
      PROVE  f[x] \in ByConvention(n, x)
  <2>1. \E c \in taken : c[2][1] = x
    BY <1>2, <1>4
  <2> DEFINE d == CHOOSE c \in taken : c[2][1] = x
  <2>2. d \in taken /\ d[2][1] = x
    BY <2>1
  <2>3. f[x] = Parameter(d[2][2])
    BY <1>2, <1>4
  <2> HIDE DEF d
  <2> QED
    BY <1>3, <2>2, <2>3
<1>5. ASSUME ByConvention(n, x) # {}
      PROVE  x \in DOMAIN f
  <2>1. PICK q \in request.given : <<Class(n), <<x, q>>>> \in Conventions /\ x \in inputs
    BY <1>5 DEF ByConvention
  <2>2. <<Class(n), <<x, q>>>> \in taken
    BY <2>1
  <2> QED
    BY <1>2, <2>2
<1> QED
  BY <1>4, <1>5 DEF f

(* A node that is no dictionary is under no convention. *)
LEMMA NoConvention ==
  ASSUME NEW n, Class(n) = "no_dict", NEW x
  PROVE  ByConvention(n, x) = {}
  BY DEF ByConvention, Conventions

(* What the loop's end writes into a text node. *)
LEMMA TextOfIs ==
  ASSUME Collected(text_nodes, TextNodes, Last), Shapes, NEW n \in Nodes, NEW x
  PROVE  /\ x \in DOMAIN TextOf(n) <=> ByText(n, x) # {}
         /\ x \in DOMAIN TextOf(n) => TextOf(n)[x] \in ByText(n, x)
<1> DEFINE first == n \in TextNodes /\ Rank(n, TextNodes) = 1
           second == n \in TextNodes /\ Rank(n, TextNodes) = 2
           negative == "negative_prompt" \in request.given
<1>1. Len(text_nodes) \in Nat /\ (n \in TextNodes => n < Last)
  BY Sequenced DEF Collected, Last
<1>2. /\ first <=> Len(text_nodes) > 0 /\ n = text_nodes[1]
      /\ second <=> Len(text_nodes) > 1 /\ n = text_nodes[2]
  BY <1>1 DEF Collected
<1>3. TextOf(n) = IF first THEN Entry("text", Parameter("prompt"))
                  ELSE IF second /\ negative THEN Entry("text", Parameter("negative_prompt"))
                  ELSE <<>>
  BY <1>2 DEF TextOf
<1>4. ByText(n, x) = {Parameter("prompt") : m \in {l \in {n} : first /\ x = "text"}}
                \cup {Parameter("negative_prompt") :
                        m \in {l \in {n} : second /\ negative /\ x = "text"}}
  BY DEF ByText
<1> HIDE DEF first, second, negative
<1>5. \A v : DOMAIN Entry("text", v) = {"text"} /\ Entry("text", v)["text"] = v
  BY DEF Entry
<1>6. ~(first /\ second)
  BY DEF first, second
<1>7. CASE first
  BY <1>3, <1>4, <1>5, <1>6, <1>7
<1>8. CASE ~first /\ second /\ negative
  BY <1>3, <1>4, <1>5, <1>8
<1>9. CASE ~first /\ ~(second /\ negative)
  BY <1>3, <1>4, <1>9
<1> QED
  BY <1>7, <1>8, <1>9

-----------------------------------------------------------------------------
(* One target of the map, or an extra parameter: the later one wins. *)
LEMMA MapClone ==
  ASSUME Shapes, Progress, CloneInv, SetMappedValue
  PROVE  CloneInv'
<1> DEFINE t == template.targets[i]
<1>1. /\ phase = "map" /\ i \in DOMAIN template.targets /\ UNCHANGED <<template, request>>
      /\ graph = [n \in Nodes |-> graph[n]] /\ \A n \in Nodes : \A x : Holds(n, x, ByMap(n, x, i))
      /\ Nodes' = Nodes
  BY Sequenced, SameInputs DEF SetMappedValue, CloneInv, Shapes
<1>2. CASE phase' = "failed"
  BY <1>2 DEF CloneInv
<1>3. CASE t.parameter \notin request.given /\ Skip
  <2>1. ASSUME NEW n \in Nodes, NEW x
        PROVE  Holds(n, x, ByMap(n, x, i))'
    <3>1. i \notin MappedTo(n, x)
      BY <1>3 DEF MappedTo
    <3>2. ByMap(n, x, i)' = ByMap(n, x, i)
      BY <1>1, <1>3, <3>1, MapNext, SameValues DEF Skip
    <3> QED
      BY <1>1, <1>3, <3>2 DEF Holds, Skip
  <2> QED
    BY <1>1, <1>3, <2>1 DEF CloneInv, Skip
<1>4. CASE /\ t.parameter \in request.given /\ Addressable(t.node)
           /\ SetInput(t.node, t.input, Parameter(t.parameter))
  <2>1. phase' = "map" /\ i' = i + 1
    BY <1>1, <1>4, SetInputDoes
  <2>2. /\ graph' = [n \in Nodes |-> graph'[n]]
        /\ \A n \in Nodes : \A x : \A S :
             Holds(n, x, S) =>
               Fits(template.nodes[n].inputs, graph'[n], x,
                    IF n = t.node /\ x = t.input THEN {Parameter(t.parameter)} ELSE S)
    BY <1>1, <1>4, SetInputHolds
  <2>3. ASSUME NEW n \in Nodes, NEW x
        PROVE  Holds(n, x, ByMap(n, x, i))'
    <3>1. i \in MappedTo(n, x) <=> n = t.node /\ x = t.input
      BY <1>1, <1>4 DEF MappedTo
    <3>2. ByMap(n, x, i)' =
            IF n = t.node /\ x = t.input THEN {Parameter(t.parameter)} ELSE ByMap(n, x, i)
      BY <1>1, <2>1, <3>1, MapNext, SameValues
    <3>3. Fits(template.nodes[n].inputs, graph'[n], x, ByMap(n, x, i)')
      BY <1>1, <2>2, <3>2
    <3> QED
      BY <1>1, <3>3 DEF Holds
  <2> QED
    BY <1>1, <2>1, <2>2, <2>3 DEF CloneInv
<1> QED
  BY <1>1, <1>2, <1>3, <1>4, SetInputDoes DEF SetMappedValue, Fail, Enter

(* A turn of the loop over the extra parameters keeps CloneInv. *)
LEMMA ExtraClone ==
  ASSUME Shapes, Progress, CloneInv, InjectExtra
  PROVE  CloneInv'
<1> DEFINE e == request.extras[i]
<1>1. /\ phase = "extras" /\ i \in DOMAIN request.extras /\ UNCHANGED <<template, request>>
      /\ graph = [n \in Nodes |-> graph[n]]
      /\ \A n \in Nodes : \A x : Holds(n, x, ByExtras(n, x, i))
      /\ Nodes' = Nodes
  BY Sequenced, SameInputs DEF InjectExtra, CloneInv, Shapes
<1>2. CASE phase' = "failed"
  BY <1>2 DEF CloneInv
<1>3. CASE ~e.given /\ Skip
  <2>1. ASSUME NEW n \in Nodes, NEW x
        PROVE  Holds(n, x, ByExtras(n, x, i))'
    <3>1. i \notin ExtrasFor(n, x)
      BY <1>3 DEF ExtrasFor
    <3>2. ByExtras(n, x, i)' = ByExtras(n, x, i)
      BY <1>1, <1>3, <3>1, ExtrasNext, SameValues DEF Skip
    <3> QED
      BY <1>1, <1>3, <3>2 DEF Holds, Skip
  <2> QED
    BY <1>1, <1>3, <2>1 DEF CloneInv, Skip
<1>4. CASE e.given /\ Addressable(e.node) /\ SetInput(e.node, e.input, Extra(i))
  <2>1. phase' = "extras" /\ i' = i + 1
    BY <1>1, <1>4, SetInputDoes
  <2>2. /\ graph' = [n \in Nodes |-> graph'[n]]
        /\ \A n \in Nodes : \A x : \A S :
             Holds(n, x, S) =>
               Fits(template.nodes[n].inputs, graph'[n], x,
                    IF n = e.node /\ x = e.input THEN {Extra(i)} ELSE S)
    BY <1>1, <1>4, SetInputHolds
  <2>3. ASSUME NEW n \in Nodes, NEW x
        PROVE  Holds(n, x, ByExtras(n, x, i))'
    <3>1. i \in ExtrasFor(n, x) <=> n = e.node /\ x = e.input
      BY <1>1, <1>4 DEF ExtrasFor
    <3>2. ByExtras(n, x, i)' =
            IF n = e.node /\ x = e.input THEN {Extra(i)} ELSE ByExtras(n, x, i)
      <4>1. ByExtras(n, x, i)' = ByExtras(n, x, i + 1)
        BY <1>1, <2>1, SameValues
      <4>2. ByExtras(n, x, i + 1) =
              IF i \in ExtrasFor(n, x) THEN {Extra(i)} ELSE ByExtras(n, x, i)
        BY <1>1, ExtrasNext
      <4> HIDE DEF e
      <4> QED
        BY <3>1, <4>1, <4>2
    <3>3. Fits(template.nodes[n].inputs, graph'[n], x, ByExtras(n, x, i)')
      BY <1>1, <2>2, <3>2
    <3> QED
      BY <1>1, <3>3 DEF Holds
  <2> QED
    BY <1>1, <2>1, <2>2, <2>3 DEF CloneInv
<1> QED
  BY <1>1, <1>2, <1>3, <1>4, SetInputDoes DEF InjectExtra, Fail, Enter

(* One node of the loop over the graph. *)
LEMMA NodeClone ==
  ASSUME Shapes, Progress, CloneInv, VisitNode
  PROVE  CloneInv'
<1>1. /\ phase = "nodes" /\ i \in Nodes /\ UNCHANGED <<template, request>>
      /\ graph = [n \in Nodes |-> graph[n]] /\ Nodes' = Nodes
      /\ \A n \in Nodes : \A x : Holds(n, x, IF n < i THEN ByConvention(n, x) ELSE {})
  BY SameInputs DEF VisitNode, CloneInv
<1>2. i \in Nat /\ \A n \in Nodes : n \in Nat /\ (n < i + 1 <=> n < i \/ n = i)
  BY Sequenced DEF Shapes
<1>3. CASE phase' = "failed"
  BY <1>3 DEF CloneInv
<1>4. CASE phase' = "nodes" /\ i' = i + 1 /\ ~IsDict(i) /\ UNCHANGED graph
  <2>1. ASSUME NEW n \in Nodes, NEW x
        PROVE  Holds(n, x, IF n < i THEN ByConvention(n, x) ELSE {})'
    <3>1. n = i => ByConvention(n, x) = {}
      BY <1>4, NoConvention DEF IsDict, Class
    <3>2. (IF n < i THEN ByConvention(n, x) ELSE {})' = IF n < i THEN ByConvention(n, x) ELSE {}
      BY <1>1, <1>2, <1>4, <3>1, SameValues
    <3> QED
      BY <1>1, <1>4, <3>2 DEF Holds
  <2> QED
    BY <1>1, <1>4, <2>1 DEF CloneInv
<1>5. CASE /\ phase' = "nodes" /\ i' = i + 1
           /\ graph' = [graph EXCEPT ![i] = Over(@, Conventional(Class(i), DOMAIN @))]
  <2>1. DOMAIN graph[i] = template.nodes[i].inputs
    <3>1. \A x : Holds(i, x, {})
      BY <1>1, <1>2
    <3>2. \A x : x \in DOMAIN graph[i] <=> x \in template.nodes[i].inputs
      BY <3>1 DEF Holds, Fits
    <3> QED
      BY <3>2
  <2> DEFINE f == Conventional(Class(i), template.nodes[i].inputs)
  <2>2. graph' = [n \in Nodes |-> IF n = i THEN Over(graph[i], f) ELSE graph[n]]
    BY <1>1, <1>5, <2>1
  <2>3. \A n \in Nodes : graph'[n] = IF n = i THEN Over(graph[i], f) ELSE graph[n]
    BY <2>2
  <2>4. ASSUME NEW n \in Nodes, NEW x
        PROVE  Fits(template.nodes[n].inputs, graph'[n], x,
                    IF n < i + 1 THEN ByConvention(n, x) ELSE {})
    <3>1. CASE n = i
      <4>1. /\ x \in DOMAIN f <=> ByConvention(i, x) # {}
            /\ x \in DOMAIN f => f[x] \in ByConvention(i, x)
        BY ConventionalIs
      <4>2. Fits(template.nodes[i].inputs, graph[i], x, {})
        BY <1>1, <1>2 DEF Holds
      <4> HIDE DEF f
      <4>3. Fits(template.nodes[i].inputs, Over(graph[i], f), x, ByConvention(i, x))
        BY <4>1, <4>2, OverFits
      <4> QED
        BY <1>2, <2>3, <3>1, <4>3
    <3>2. CASE n # i
      BY <1>1, <1>2, <2>3, <3>2 DEF Holds
    <3> QED
      BY <3>1, <3>2
  <2>5. ASSUME NEW n \in Nodes, NEW x
        PROVE  Holds(n, x, IF n < i THEN ByConvention(n, x) ELSE {})'
    <3>1. (IF n < i THEN ByConvention(n, x) ELSE {})' = IF n < i + 1 THEN ByConvention(n, x) ELSE {}
      BY <1>1, <1>5, SameValues
    <3> QED
      BY <1>1, <2>4, <3>1 DEF Holds
  <2>6. graph' = [n \in Nodes |-> graph'[n]]
    BY <2>2
  <2> QED
    BY <1>1, <1>5, <2>5, <2>6 DEF CloneInv
<1> QED
  BY <1>1, <1>3, <1>4, <1>5 DEF VisitNode, Skip, Fail, Enter

(* The prompts go into the first two text nodes. *)
LEMMA TextClone ==
  ASSUME Shapes, Progress, CloneInv, InjectText
  PROVE  CloneInv'
<1>1. /\ phase = "nodes" /\ i \notin Nodes /\ i <= Last /\ UNCHANGED <<template, request>>
      /\ graph' = [n \in Nodes |-> Over(graph[n], TextOf(n))] /\ phase' = "loras" /\ i' = 1
      /\ Nodes' = Nodes
      /\ \A n \in Nodes : \A x : Holds(n, x, IF n < i THEN ByConvention(n, x) ELSE {})
      /\ Collected(text_nodes, TextNodes, i) /\ Collected(lora_nodes, LoraNodes, i)
  BY SameInputs DEF InjectText, Enter, CloneInv, Progress
<1>2. i = Last /\ \A n \in Nodes : n < i
  BY <1>1, Sequenced DEF Shapes, Last
<1>3. ASSUME NEW n \in Nodes, NEW x
      PROVE  Holds(n, x, ByConvention(n, x) \cup ByText(n, x) \cup ByLora(n, x, i))'
  <2>1. ByLora(n, x, 1) = {}
    <3>1. \A l \in LoraNodes : Rank(l, LoraNodes) \in 1..Len(lora_nodes)
      BY <1>1, <1>2, Sequenced DEF Collected
    <3>2. \A l \in LoraNodes : ~(Rank(l, LoraNodes) < 1)
      BY <3>1
    <3> QED
      BY <3>2 DEF ByLora
  <2>2. /\ x \in DOMAIN TextOf(n) <=> ByText(n, x) # {}
        /\ x \in DOMAIN TextOf(n) => TextOf(n)[x] \in ByText(n, x)
    BY <1>1, <1>2, TextOfIs
  <2>3. Fits(template.nodes[n].inputs, graph[n], x, ByConvention(n, x))
    BY <1>1, <1>2 DEF Holds
  <2>4. Fits(template.nodes[n].inputs, Over(graph[n], TextOf(n)), x,
             ByConvention(n, x) \cup ByText(n, x))
    BY <2>2, <2>3, OverFits
  <2>5. (ByConvention(n, x) \cup ByText(n, x) \cup ByLora(n, x, i))' =
          ByConvention(n, x) \cup ByText(n, x)
    BY <1>1, <2>1, SameValues
  <2> QED
    BY <1>1, <2>4, <2>5 DEF Holds
<1>4. graph' = [n \in Nodes |-> graph'[n]]
  BY <1>1
<1> QED
  BY <1>1, <1>3, <1>4 DEF CloneInv

(* Once the loop over the graph has ended, a collected node is found in the  *)
(* list at its rank.                                                         *)
LEMMA RankOf ==
  ASSUME Shapes, NEW S, S \subseteq Nodes, NEW list, Collected(list, S, Last),
         NEW n \in S
  PROVE  /\ Rank(n, S) \in Nat /\ Rank(n, S) \in 1..Len(list)
         /\ list[Rank(n, S)] = n
<1>1. n < Last
  BY Sequenced DEF Last
<1>2. Rank(n, S) \in 1..Len(list) /\ list[Rank(n, S)] = n
  BY <1>1 DEF Collected
<1>3. Len(list) \in Nat
  BY DEF Collected
<1> QED
  BY <1>2, <1>3

(* One LoRA of the list goes into the node of its rank. *)
LEMMA LoraClone ==
  ASSUME Shapes, Progress, CloneInv, InjectLora
  PROVE  CloneInv'
<1>1. /\ phase = "loras" /\ UNCHANGED <<template, request>> /\ Nodes' = Nodes
      /\ graph = [n \in Nodes |-> graph[n]] /\ Collected(lora_nodes, LoraNodes, Last)
      /\ \A n \in Nodes : \A x :
           Holds(n, x, ByConvention(n, x) \cup ByText(n, x) \cup ByLora(n, x, i))
  BY SameInputs DEF InjectLora, CloneInv, Progress
<1>2. CASE phase' = "failed"
  BY <1>2 DEF CloneInv
<1>3. CASE /\ i <= Len(lora_nodes) /\ i' = i + 1 /\ phase' = "loras"
           /\ graph' = [graph EXCEPT ![lora_nodes[i]] = Over(@, [x \in LoraInputs |-> Lora(i)])]
  <2> DEFINE m == lora_nodes[i]
             f == [x \in LoraInputs |-> Lora(i)]
  <2>1. i \in 1..Len(lora_nodes)
    BY <1>1, <1>3 DEF Shapes, Collected
  <2>2. m \in LoraNodes /\ Rank(m, LoraNodes) = i /\ m \in Nodes
    BY <1>1, <2>1, Sequenced DEF Collected
  <2>3. \A n \in LoraNodes : /\ Rank(n, LoraNodes) \in Nat
                             /\ Rank(n, LoraNodes) = i => n = m
    <3>1. LoraNodes \subseteq Nodes /\ lora_nodes \in Seq(Nat)
      BY <1>1, Sequenced DEF Collected
    <3> QED
      BY <1>1, <3>1, RankOf
  <2>4. graph' = [n \in Nodes |-> IF n = m THEN Over(graph[m], f) ELSE graph[n]]
    BY <1>1, <1>3
  <2> HIDE DEF m
  <2>5. ASSUME NEW n \in Nodes, NEW x
        PROVE  Holds(n, x, ByConvention(n, x) \cup ByText(n, x) \cup ByLora(n, x, i))'
    <3> DEFINE W == ByConvention(n, x) \cup ByText(n, x)
    <3>1. (ByConvention(n, x) \cup ByText(n, x) \cup ByLora(n, x, i))' = W \cup ByLora(n, x, i + 1)
      BY <1>1, <1>3, SameValues
    <3>2. Fits(template.nodes[n].inputs, graph[n], x, W \cup ByLora(n, x, i))
      BY <1>1 DEF Holds
    <3>3. CASE n = m /\ x \in LoraInputs
      <4>1. i < i + 1
        BY DEF Shapes
      <4>2. Lora(i) \in ByLora(n, x, i + 1)
        BY <2>2, <3>3, <4>1 DEF ByLora
      <4>3. x \in DOMAIN f /\ f[x] = Lora(i)
        BY <3>3
      <4> HIDE DEF f, W
      <4>4. Fits(template.nodes[n].inputs, Over(graph[n], f), x, W \cup ByLora(n, x, i + 1))
        BY <4>2, <4>3, OverFits
      <4> QED
        BY <1>1, <2>4, <3>1, <3>3, <4>4 DEF Holds
    <3>4. CASE ~(n = m /\ x \in LoraInputs)
      <4>1. ByLora(n, x, i + 1) = ByLora(n, x, i)
        <5>1. ASSUME n \in LoraNodes, x \in LoraInputs
              PROVE  Rank(n, LoraNodes) < i + 1 <=> Rank(n, LoraNodes) < i
          BY <2>3, <3>4, <5>1 DEF Shapes
        <5> QED
          BY <5>1 DEF ByLora
      <4>2. x \notin DOMAIN f \/ n # m
        BY <3>4
      <4> HIDE DEF f, W
      <4>3. Fits(template.nodes[n].inputs, IF n = m THEN Over(graph[n], f) ELSE graph[n], x,
                 W \cup ByLora(n, x, i + 1))
        BY <3>2, <4>1, <4>2, OverFits
      <4> QED
        BY <1>1, <2>4, <3>1, <4>3 DEF Holds
    <3> QED
      BY <3>3, <3>4
  <2>6. graph' = [n \in Nodes |-> graph'[n]]
    BY <2>4
  <2> QED
    BY <1>1, <1>3, <2>5, <2>6 DEF CloneInv
<1> QED
  BY <1>1, <1>2, <1>3 DEF InjectLora, Fail, Enter

(* Where the map or the conventions end and the extra parameters begin. *)
LEMMA EndMappingClone ==
  ASSUME Shapes, Progress, CloneInv, EndMapping
  PROVE  CloneInv'
<1>1. /\ UNCHANGED <<template, request, graph>> /\ phase' = "extras" /\ i' = 1 /\ Nodes' = Nodes
      /\ graph = [n \in Nodes |-> graph[n]]
  BY SameInputs DEF EndMapping, Enter, CloneInv
<1>2. ASSUME NEW n \in Nodes, NEW x
      PROVE  Holds(n, x, ByMapping(n, x))
  <2>1. CASE phase = "map" /\ i > Len(template.targets)
    <3>1. i = Len(template.targets) + 1 /\ template.mapped
      BY <2>1, Sequenced DEF Progress, Shapes
    <3> QED
      BY <2>1, <3>1 DEF CloneInv, ByMapping
  <2>2. CASE phase = "loras" /\ i > request.loras
    <3>1. /\ i = request.loras + 1 /\ ~template.mapped
          /\ Collected(lora_nodes, LoraNodes, Last)
      BY <2>2, Sequenced DEF Progress, Shapes
    <3>2. \A l \in LoraNodes : Rank(l, LoraNodes) < i <=> Rank(l, LoraNodes) <= request.loras
      <4>1. \A l \in LoraNodes : Rank(l, LoraNodes) \in Nat
        <5>1. LoraNodes \subseteq Nodes /\ lora_nodes \in Seq(Nat)
          BY <3>1, Sequenced DEF Collected
        <5> QED
          BY <3>1, <5>1, RankOf
      <4>2. i \in Nat /\ request.loras \in Nat
        BY Sequenced DEF Shapes
      <4> QED
        BY <3>1, <4>1, <4>2
    <3>3. ByClass(n, x) = ByConvention(n, x) \cup ByText(n, x) \cup ByLora(n, x, i)
      BY <3>2 DEF ByClass, ByConvention, ByText, ByLora
    <3> QED
      BY <2>2, <3>1, <3>3 DEF CloneInv, ByMapping
  <2> QED
    BY <2>1, <2>2 DEF EndMapping
<1>3. ASSUME NEW n \in Nodes, NEW x
      PROVE  Holds(n, x, ByExtras(n, x, i))'
  <2>1. Before(ExtrasFor(n, x), 1) = {}
    BY Turns, BeforeEnds, Sequenced
  <2>2. ByExtras(n, x, 1) = ByMapping(n, x)
    BY <2>1 DEF ByExtras
  <2>3. ByExtras(n, x, i)' = ByMapping(n, x)
    BY <1>1, <2>2, SameValues
  <2> QED
    BY <1>1, <1>2, <2>3 DEF Holds
<1> QED
  BY <1>1, <1>3 DEF CloneInv

(* After the last turn the graph is what the reference says. *)
LEMMA FinishClone ==
  ASSUME Shapes, Progress, CloneInv, Finish
  PROVE  CloneInv'
<1>1. /\ phase = "extras" /\ i > Len(request.extras)
      /\ UNCHANGED <<template, request, graph>> /\ phase' = "done" /\ Nodes' = Nodes
      /\ graph = [n \in Nodes |-> graph[n]]
      /\ \A n \in Nodes : \A x : Holds(n, x, ByExtras(n, x, i))
  BY SameInputs DEF Finish, Enter, CloneInv
<1>2. i = Len(request.extras) + 1
  BY <1>1, Sequenced DEF Progress, Shapes
<1>3. ASSUME NEW n \in Nodes, NEW x
      PROVE  Holds(n, x, Written(n, x))'
  <2>1. /\ Before(ExtrasFor(n, x), i) = ExtrasFor(n, x)
        /\ Before(MappedTo(n, x), Len(template.targets) + 1) = MappedTo(n, x)
    BY <1>2, Turns, BeforeEnds, Sequenced
  <2>2. ByExtras(n, x, i) = Written(n, x)
    BY <2>1 DEF ByExtras, ByMapping, ByMap, Written
  <2> QED
    BY <1>1, <2>2, SameValues DEF Holds
<1> QED
  BY <1>1, <1>3 DEF CloneInv

(* The clone begins as the template. *)
LEMMA LoadClone ==
  ASSUME Shapes, CloneInv, Load
  PROVE  CloneInv'
<1>1. /\ UNCHANGED <<template, request>> /\ i' = 1 /\ Nodes' = Nodes
      /\ phase' = (IF template.mapped THEN "map" ELSE "nodes")
      /\ graph' = [n \in Nodes |-> [x \in template.nodes[n].inputs |-> Original]]
  BY SameInputs DEF Load, Enter
<1>2. \A n \in Nodes : ~(n < 1)
  BY Sequenced
<1>3. \A n \in Nodes : \A x : Fits(template.nodes[n].inputs, graph'[n], x, {})
  BY <1>1 DEF Fits
<1>4. ASSUME NEW n \in Nodes, NEW x
      PROVE  ByMap(n, x, i)' = {}
  <2>1. Before(MappedTo(n, x), 1) = {}
    BY Turns, BeforeEnds, Sequenced
  <2>2. ByMap(n, x, 1) = {}
    BY <2>1 DEF ByMap
  <2> QED
    BY <1>1, <2>2, SameValues
<1>5. graph' = [n \in Nodes |-> graph'[n]]
  BY <1>1
<1>6. \A n \in Nodes : \A x : Holds(n, x, {})'
  BY <1>1, <1>3 DEF Holds
<1>7. Nodes' = Nodes
  BY <1>1
<1>8. CASE template.mapped
  <2>1. phase' = "map"
    BY <1>1, <1>8
  <2>2. \A n \in Nodes : \A x : Holds(n, x, ByMap(n, x, i))'
    BY <1>4, <1>6 DEF Holds
  <2> QED
    BY <1>5, <1>7, <2>1, <2>2 DEF CloneInv
<1>9. CASE ~template.mapped
  <2>1. phase' = "nodes"
    BY <1>1, <1>9
  <2>2. \A n \in Nodes : \A x : Holds(n, x, IF n < i THEN ByConvention(n, x) ELSE {})'
    BY <1>1, <1>2, <1>6 DEF Holds
  <2> QED
    BY <1>5, <1>7, <2>1, <2>2 DEF CloneInv
<1> QED
  BY <1>8, <1>9

(* CloneInv is inductive. *)
LEMMA CloneNext ==
  ASSUME Shapes, Progress, CloneInv, [Next]_vars
  PROVE  CloneInv'
<1>1. CASE UNCHANGED vars
  <2>1. UNCHANGED <<template, request, phase, i, graph>> /\ Nodes' = Nodes
    BY <1>1, SameInputs DEF vars
  <2>2. \A n \in Nodes : \A x :
          /\ ByMap(n, x, i)' = ByMap(n, x, i) /\ ByLora(n, x, i)' = ByLora(n, x, i)
          /\ ByExtras(n, x, i)' = ByExtras(n, x, i)
          /\ ByConvention(n, x)' = ByConvention(n, x) /\ ByText(n, x)' = ByText(n, x)
          /\ Written(n, x)' = Written(n, x)
    BY <2>1, SameValues
  <2> QED
    BY <2>1, <2>2 DEF CloneInv, Holds
<1>2. CASE LoadFails
  BY <1>2 DEF LoadFails, Enter, CloneInv
<1> QED
  BY <1>1, <1>2, LoadClone, MapClone, NodeClone, TextClone, LoraClone, EndMappingClone,
     ExtraClone, FinishClone DEF Next

(* The finished graph is the one the reference describes: for any template  *)
(* and parameters each value is where the map, the conventions or its key   *)
(* put it, the latest one where several go, and the rest is the template's. *)
THEOREM BuildIsReference == Spec => []Injected
<1> USE InputsAssumption
<1>1. Init => CloneInv
  BY DEF Init, CloneInv
<1>2. Shapes /\ Progress /\ CloneInv /\ [Next]_vars => CloneInv'
  BY CloneNext
<1>3. CloneInv => Injected
  BY DEF CloneInv, Injected, Holds, Fits
<1> QED
  BY <1>1, <1>2, <1>3, ProgressHolds, PTL DEF Spec

-----------------------------------------------------------------------------
(* The listing of jobs. *)
JobsRead == [id : Jobs, rec : Listing!Records]
Queries == [status : Statuses \cup {AnyStatus}, limit : Nat, offset : Nat]

(* Every key SCAN returned waits for its GET or was read, so that no        *)
(* standing job is missed and none is read more often than it was returned. *)
ScanInv ==
  /\ store \in [Jobs -> Listing!Records \cup {NoJob, Unreadable}]
  /\ stage \in {"idle", "scan", "listed", "counted"}
  /\ query \in Queries
  /\ batch \subseteq returned /\ returned \subseteq Jobs
  /\ repeats \in Nat
  /\ jobs \in Seq(JobsRead)
  /\ matching \subseteq there /\ there \subseteq Jobs
  /\ Len(jobs) + Cardinality(batch) <= Cardinality(returned) + repeats
  /\ stage = "scan" =>
       /\ \A j \in there : Listing!Exists(j)
       /\ \A j \in matching : Listing!Wanted(store[j], query.status)
       /\ \A j \in matching \cap returned : j \in batch \/ j \in Listing!Ids(jobs)
  /\ stage \in {"listed", "counted"} => matching \subseteq Listing!Ids(jobs)
  /\ stage = "counted" => query.status = AnyStatus

-----------------------------------------------------------------------------
(* The instance counts sets as this module does. *)
LEMMA ListingCounts == \A S : Listing!Cardinality(S) = Cardinality(S)
  BY DEF Listing!Cardinality, Cardinality

(* Any set of jobs is finite. *)
LEMMA FiniteJobs ==
  ASSUME ListingInputs, ScanInv
  PROVE  \A S : S \subseteq Jobs => IsFiniteSet(S) /\ Cardinality(S) \in Nat
  BY FS_Subset, FS_CardinalityType DEF ListingInputs

(* No scan has begun: nothing waits for its GET. *)
LEMMA ScanInit ==
  ASSUME ListingInputs, Listing!Init
  PROVE  ScanInv
<1>1. query \in Queries
  BY DEF Listing!Init, Queries
<1>2. jobs \in Seq(JobsRead) /\ Len(jobs) = 0 /\ Cardinality({}) = 0
  BY FS_EmptySet DEF Listing!Init
<1> QED
  BY <1>1, <1>2 DEF Listing!Init, ScanInv, ListingInputs

(* A request begins its scan with nothing read and every existing job still *)
(* to be found.                                                             *)
LEMMA StartsScan ==
  ASSUME ListingInputs, ScanInv, NEW q \in Queries, Listing!StartScan(q),
         UNCHANGED <<store, repeats>>
  PROVE  ScanInv'
<1>1. /\ stage' = "scan" /\ query' = q /\ batch' = {} /\ returned' = {} /\ jobs' = <<>>
      /\ there' = {j \in Jobs : Listing!Exists(j)}
      /\ matching' = {j \in Jobs : Listing!Exists(j) /\ Listing!Wanted(store[j], q.status)}
      /\ store' = store /\ repeats' = repeats
  BY DEF Listing!StartScan
<1>2. \A j : Listing!Exists(j)' <=> Listing!Exists(j)
  BY <1>1 DEF Listing!Exists
<1>4. \A j : Listing!Wanted(store[j], q.status) => Listing!Wanted(store'[j], query'.status)
  BY <1>1 DEF Listing!Wanted
<1>5. jobs' \in Seq(JobsRead) /\ Len(jobs') = 0
  BY <1>1
<1>6. Cardinality({}) = 0
  BY FS_EmptySet
<1> QED
  BY <1>1, <1>2, <1>4, <1>5, <1>6 DEF ScanInv

(* SCAN puts found into the batch: what it returned before counts as a repeat. *)
LEMMA Scans ==
  ASSUME ListingInputs, ScanInv, Listing!Scan
  PROVE  ScanInv'
<1>1. PICK found \in SUBSET {j \in Jobs : Listing!Exists(j)} :
        /\ repeats' = repeats + Cardinality(found \cap returned)
        /\ batch' = found /\ returned' = returned \cup found
  BY ListingCounts DEF Listing!Scan
<1>2. /\ stage = "scan" /\ batch = {}
      /\ UNCHANGED <<store, stage, query, jobs, there, matching>>
  BY DEF Listing!Scan, Listing!ghosts
<1>3. found \subseteq Jobs /\ returned \subseteq Jobs /\ found \cap returned \subseteq Jobs
  BY DEF ScanInv
<1>4. /\ IsFiniteSet(found) /\ Cardinality(found) \in Nat
      /\ IsFiniteSet(returned) /\ Cardinality(returned) \in Nat
      /\ Cardinality(found \cap returned) \in Nat
      /\ returned \cap found = found \cap returned
  BY <1>3, FiniteJobs
<1>5. Cardinality(returned \cup found) =
        Cardinality(returned) + Cardinality(found) - Cardinality(returned \cap found)
  BY <1>4, FS_Union
<1>6. Len(jobs) + 0 <= Cardinality(returned) + repeats /\ Len(jobs) \in Nat /\ repeats \in Nat
  BY <1>2, FS_EmptySet DEF ScanInv
<1>7. Len(jobs') + Cardinality(batch') <= Cardinality(returned') + repeats' /\ repeats' \in Nat
  <2> DEFINE a == Cardinality(found)
             b == Cardinality(returned)
             c == Cardinality(found \cap returned)
             d == Cardinality(returned \cup found)
  <2>1. a \in Nat /\ b \in Nat /\ c \in Nat /\ d = b + a - c
    BY <1>4, <1>5
  <2>2. Len(jobs') = Len(jobs) /\ Cardinality(batch') = a /\ Cardinality(returned') = d
        /\ repeats' = repeats + c
    BY <1>1, <1>2
  <2> HIDE DEF a, b, c, d
  <2>3. Len(jobs) <= b + repeats
    BY <1>6 DEF b
  <2> QED
    BY <1>6, <2>1, <2>2, <2>3
<1>8. \A j : Listing!Exists(j)' <=> Listing!Exists(j)
  BY <1>2 DEF Listing!Exists
<1>9. \A j : Listing!Wanted(store[j], query.status)' <=> Listing!Wanted(store[j], query.status)
  BY <1>2 DEF Listing!Wanted
<1>10. Listing!Ids(jobs)' = Listing!Ids(jobs)
  BY <1>2 DEF Listing!Ids
<1> QED
  BY <1>1, <1>2, <1>3, <1>7, <1>8, <1>9, <1>10 DEF ScanInv

(* A GET takes a key from the batch: its job is read, or has expired. *)
LEMMA Reads ==
  ASSUME ListingInputs, ScanInv, NEW j \in Jobs, Listing!Read(j)
  PROVE  ScanInv'
<1>1. /\ stage = "scan" /\ j \in batch /\ batch' = batch \ {j}
      /\ jobs' = IF Listing!Exists(j) /\ Listing!Wanted(store[j], query.status)
                 THEN Append(jobs, [id |-> j, rec |-> store[j]]) ELSE jobs
      /\ UNCHANGED <<store, stage, query, returned, repeats, there, matching>>
  BY DEF Listing!Read, Listing!ghosts
<1>2. batch \subseteq Jobs /\ returned \subseteq Jobs
  BY DEF ScanInv
<1>3. /\ IsFiniteSet(batch) /\ Cardinality(batch) \in Nat /\ Cardinality(returned) \in Nat
      /\ Cardinality(batch \ {j}) = Cardinality(batch) - 1
  BY <1>1, <1>2, FiniteJobs, FS_RemoveElement
<1>4. Listing!Exists(j) /\ Listing!Wanted(store[j], query.status)
        => [id |-> j, rec |-> store[j]] \in JobsRead
  BY DEF Listing!Exists, Listing!Wanted, ScanInv, JobsRead
<1>5. /\ jobs' \in Seq(JobsRead) /\ Len(jobs) \in Nat
      /\ Len(jobs') = Len(jobs) \/ Len(jobs') = Len(jobs) + 1
      /\ \A k \in 1..Len(jobs) : k \in 1..Len(jobs') /\ jobs'[k] = jobs[k]
      /\ Listing!Exists(j) /\ Listing!Wanted(store[j], query.status) =>
           Len(jobs) + 1 \in 1..Len(jobs') /\ jobs'[Len(jobs) + 1].id = j
  BY <1>1, <1>4 DEF ScanInv
<1>6. Listing!Ids(jobs) \subseteq Listing!Ids(jobs')
  BY <1>5 DEF Listing!Ids, ScanInv
<1>7. Listing!Exists(j) /\ Listing!Wanted(store[j], query.status) => j \in Listing!Ids(jobs')
  BY <1>5 DEF Listing!Ids, ScanInv
<1>8. Len(jobs') + Cardinality(batch') <= Cardinality(returned') + repeats'
  <2> DEFINE a == Cardinality(batch)
             b == Cardinality(returned)
             c == Cardinality(batch \ {j})
  <2>1. a \in Nat /\ b \in Nat /\ c = a - 1
    BY <1>3
  <2>2. Cardinality(batch') = c /\ Cardinality(returned') = b /\ repeats' = repeats
    BY <1>1
  <2>3. Len(jobs) + a <= b + repeats /\ repeats \in Nat
    BY DEF ScanInv
  <2> HIDE DEF a, b, c
  <2> QED
    BY <1>5, <2>1, <2>2, <2>3
<1>9. \A h : Listing!Exists(h)' <=> Listing!Exists(h)
  BY <1>1 DEF Listing!Exists
<1>10. \A h : Listing!Wanted(store[h], query.status)' <=> Listing!Wanted(store[h], query.status)
  BY <1>1 DEF Listing!Wanted
<1>11. \A h \in matching : Listing!Exists(h) /\ Listing!Wanted(store[h], query.status)
  BY <1>1 DEF ScanInv
<1>12. \A h \in matching' \cap returned' : h \in batch' \/ h \in Listing!Ids(jobs)'
  BY <1>1, <1>6, <1>7, <1>11 DEF ScanInv
<1> QED
  BY <1>1, <1>2, <1>5, <1>8, <1>9, <1>10, <1>12 DEF ScanInv

(* A write or an expiry during the scan only takes jobs from those that *)
(* stood all along.                                                     *)
LEMMA Changes ==
  ASSUME ListingInputs, ScanInv, NEW j \in Jobs, NEW rec \in Listing!Records \cup {NoJob},
         Listing!Change(j, rec)
  PROVE  ScanInv'
<1>1. /\ stage = "scan" /\ store' = [store EXCEPT ![j] = rec]
      /\ there' = IF rec = NoJob THEN there \ {j} ELSE there
      /\ matching' = IF rec = NoJob \/ ~Listing!Wanted(rec, query.status)
                     THEN matching \ {j} ELSE matching
      /\ UNCHANGED <<stage, query, batch, returned, repeats, jobs>>
  BY DEF Listing!Change, Listing!scanning
<1>2. store' \in [Jobs -> Listing!Records \cup {NoJob, Unreadable}]
  BY <1>1 DEF ScanInv
<1>3. \A h \in Jobs : store'[h] = IF h = j THEN rec ELSE store[h]
  BY <1>1 DEF ScanInv
<1>4. matching' \subseteq matching /\ there' \subseteq there /\ matching' \subseteq there'
  BY <1>1 DEF ScanInv
<1>7. \A h \in there' : Listing!Exists(h)'
  BY <1>1, <1>3, <1>4 DEF ScanInv, Listing!Exists
<1>8. \A h \in matching' : Listing!Wanted(store[h], query.status)'
  <2> SUFFICES ASSUME NEW h \in matching' PROVE Listing!Wanted(store'[h], query'.status)
    BY DEF Listing!Wanted
  <2>1. h \in Jobs /\ Listing!Wanted(store[h], query.status)
    BY <1>1, <1>4 DEF ScanInv
  <2> QED
    BY <1>1, <1>3, <2>1 DEF Listing!Wanted
<1>9. Listing!Ids(jobs)' = Listing!Ids(jobs)
  BY <1>1 DEF Listing!Ids
<1> QED
  BY <1>1, <1>2, <1>4, <1>7, <1>8, <1>9 DEF ScanInv

(* ScanInv is inductive. *)
LEMMA ScanNext ==
  ASSUME ListingInputs, ScanInv, [Listing!Next]_(Listing!vars)
  PROVE  ScanInv'
<1>1. CASE UNCHANGED Listing!vars
  BY <1>1 DEF Listing!vars, Listing!scanning, Listing!ghosts, ScanInv,
              Listing!Exists, Listing!Wanted, Listing!Ids
<1>2. CASE Listing!FirstRequest
  <2>1. PICK q \in Queries : Listing!StartScan(q)
    BY <1>2 DEF Listing!FirstRequest, Queries, ListingInputs
  <2> QED
    BY <1>2, <2>1, StartsScan DEF Listing!FirstRequest
<1>3. CASE Listing!NextPage
  <2> DEFINE q == [query EXCEPT !.offset = @ + query.limit]
  <2>1. q \in Queries
    BY DEF ScanInv, Queries
  <2>2. Listing!StartScan(q) /\ UNCHANGED <<store, repeats>>
    BY <1>3 DEF Listing!NextPage
  <2> HIDE DEF q
  <2> QED
    BY <2>1, <2>2, StartsScan
<1>4. CASE Listing!Scan
  BY <1>4, Scans
<1>5. CASE \E j \in Jobs : Listing!Read(j)
  BY <1>5, Reads
<1>6. CASE Listing!Answer \/ Listing!AnswerCounts
  <2>1. /\ stage = "scan" /\ batch = {} /\ there \subseteq returned
        /\ stage' \in {"listed", "counted"}
        /\ stage' = "counted" => query.status = AnyStatus
        /\ UNCHANGED <<store, query, batch, returned, repeats, jobs, there, matching>>
    BY <1>6 DEF Listing!Answer, Listing!AnswerCounts, Listing!ScanEnds,
                Listing!scanning, Listing!ghosts
  <2>2. matching \subseteq Listing!Ids(jobs)
    BY <2>1 DEF ScanInv
  <2>3. Listing!Ids(jobs)' = Listing!Ids(jobs)
    BY <2>1 DEF Listing!Ids
  <2> QED
    BY <2>1, <2>2, <2>3 DEF ScanInv
<1>7. CASE \E j \in Jobs, rec \in Listing!Records \cup {NoJob} : Listing!Change(j, rec)
  BY <1>7, Changes
<1> QED
  BY <1>1, <1>2, <1>3, <1>4, <1>5, <1>6, <1>7 DEF Listing!Next

-----------------------------------------------------------------------------
(* The counts add up to the records that were read. *)
LEMMA CountsAddUp ==
  ASSUME ScanInv
  PROVE  IsFiniteSet(Listing!Counted) /\ Cardinality(Listing!Counted) = Len(jobs)
<1> DEFINE Of(s) == {k \in DOMAIN jobs : jobs[k].rec.status = s}
<1>1. /\ DOMAIN jobs = 1..Len(jobs) /\ Len(jobs) \in Nat
      /\ \A k \in DOMAIN jobs : jobs[k].rec.status \in Statuses
  <2>1. jobs \in Seq(JobsRead)
    BY DEF ScanInv
  <2>2. \A k \in DOMAIN jobs : jobs[k] \in JobsRead
    BY <2>1
  <2> QED
    BY <2>1, <2>2 DEF JobsRead, Listing!Records
<1>2. IsFiniteSet(DOMAIN jobs) /\ Cardinality(DOMAIN jobs) = Len(jobs)
  <2>1. 1 \in Int /\ Len(jobs) \in Int
    BY <1>1
  <2>2. IsFiniteSet(1..Len(jobs)) /\
        Cardinality(1..Len(jobs)) = IF 1 > Len(jobs) THEN 0 ELSE Len(jobs) - 1 + 1
    BY <2>1, FS_Interval
  <2> QED
    BY <1>1, <2>2
<1>3. \A s \in Statuses : Listing!counts[s] = Cardinality(Of(s)) /\ Listing!counts[s] \in Nat
                          /\ ExistsBijection(Of(s), 1..Listing!counts[s])
  <2> SUFFICES ASSUME NEW s \in Statuses
               PROVE  /\ Listing!counts[s] = Cardinality(Of(s)) /\ Listing!counts[s] \in Nat
                      /\ ExistsBijection(Of(s), 1..Listing!counts[s])
    OBVIOUS
  <2>1. Listing!counts[s] = Cardinality(Of(s))
    BY ListingCounts DEF Listing!counts
  <2>2. Of(s) \in SUBSET (DOMAIN jobs)
    OBVIOUS
  <2> HIDE DEF Of
  <2>3. IsFiniteSet(Of(s))
    BY <1>2, <2>2, FS_Subset
  <2>4. Cardinality(Of(s)) \in Nat /\ ExistsBijection(1..Cardinality(Of(s)), Of(s))
    BY <2>3, FS_CardinalityType
  <2> QED
    BY <2>1, <2>4, Fun_ExistsBijSymmetric
<1> DEFINE b(s) == CHOOSE f : f \in Bijection(Of(s), 1..Listing!counts[s])
<1>4. \A s \in Statuses : b(s) \in Bijection(Of(s), 1..Listing!counts[s])
  BY <1>3 DEF ExistsBijection
<1> HIDE DEF b
<1> DEFINE g == [k \in DOMAIN jobs |-> <<jobs[k].rec.status, b(jobs[k].rec.status)[k]>>]
<1>5. \A k \in DOMAIN jobs : /\ g[k] = <<jobs[k].rec.status, b(jobs[k].rec.status)[k]>>
                             /\ b(jobs[k].rec.status)[k] \in 1..Listing!counts[jobs[k].rec.status]
  <2> SUFFICES ASSUME NEW k \in DOMAIN jobs
               PROVE  b(jobs[k].rec.status)[k] \in 1..Listing!counts[jobs[k].rec.status]
    OBVIOUS
  <2>1. k \in Of(jobs[k].rec.status) /\ jobs[k].rec.status \in Statuses
    BY <1>1
  <2> QED
    BY <1>4, <2>1 DEF Bijection, Injection
<1>6. \A k \in DOMAIN jobs : g[k] \in Listing!Counted
  BY <1>1, <1>5 DEF Listing!Counted
<1>7. \A k, m \in DOMAIN jobs : g[k] = g[m] => k = m
  <2> SUFFICES ASSUME NEW k \in DOMAIN jobs, NEW m \in DOMAIN jobs, g[k] = g[m]
               PROVE  k = m
    OBVIOUS
  <2>1. PICK s \in Statuses : s = jobs[k].rec.status /\ s = jobs[m].rec.status
    BY <1>1, <1>5
  <2>2. k \in Of(s) /\ m \in Of(s) /\ b(s)[k] = b(s)[m]
    BY <1>5, <2>1
  <2> HIDE DEF g, Of
  <2> QED
    BY <1>4, <2>2 DEF Bijection, Injection, IsInjective
<1>8. \A c \in Listing!Counted : \E k \in DOMAIN jobs : g[k] = c
  <2> SUFFICES ASSUME NEW c \in Listing!Counted
               PROVE  \E k \in DOMAIN jobs : g[k] = c
    OBVIOUS
  <2>1. PICK s \in Statuses : c \in {s} \X (1..Listing!counts[s])
    BY DEF Listing!Counted
  <2>2. PICK n \in 1..Listing!counts[s] : c = <<s, n>>
    BY <2>1
  <2>3. PICK k \in Of(s) : b(s)[k] = n
    BY <1>4, <2>2 DEF Bijection, Surjection
  <2> QED
    BY <1>5, <2>2, <2>3
<1>9. g \in Bijection(DOMAIN jobs, Listing!Counted)
  BY <1>6, <1>7, <1>8 DEF Bijection, Injection, IsInjective, Surjection
<1>10. ExistsBijection(DOMAIN jobs, Listing!Counted)
  BY <1>9 DEF ExistsBijection
<1> QED
  BY <1>2, <1>10, FS_Bijection

(* A list of jobs has no more identifiers than entries. *)
LEMMA IdsAreFew ==
  ASSUME ScanInv
  PROVE  IsFiniteSet(Listing!Ids(jobs)) /\ Cardinality(Listing!Ids(jobs)) <= Len(jobs)
<1>1. DOMAIN jobs = 1..Len(jobs) /\ Len(jobs) \in Nat
  BY DEF ScanInv
<1>2. IsFiniteSet(DOMAIN jobs) /\ Cardinality(DOMAIN jobs) = Len(jobs)
  <2>1. 1 \in Int /\ Len(jobs) \in Int
    BY <1>1
  <2>2. IsFiniteSet(1..Len(jobs)) /\
        Cardinality(1..Len(jobs)) = IF 1 > Len(jobs) THEN 0 ELSE Len(jobs) - 1 + 1
    BY <2>1, FS_Interval
  <2> QED
    BY <1>1, <2>2
<1> DEFINE f == [k \in DOMAIN jobs |-> jobs[k].id]
<1>3. f \in Surjection(DOMAIN jobs, Listing!Ids(jobs))
  BY DEF Surjection, Listing!Ids
<1> QED
  BY <1>2, <1>3, FS_Surjection

(* For any number of jobs: however SCAN batches its found and whatever is     *)
(* written during it, jobs that stay are found and counted.                  *)
THEOREM StandingAreFound == Listing!Spec => []StandingJobsFound
<1> USE InputsAssumption
<1>1. Listing!Init => ScanInv
  BY ScanInit
<1>2. ScanInv /\ [Listing!Next]_(Listing!vars) => ScanInv'
  BY ScanNext
<1>3. ScanInv => StandingJobsFound
  <2> SUFFICES ASSUME ScanInv PROVE StandingJobsFound
    OBVIOUS
  <2>1. ASSUME stage = "counted"
        PROVE  /\ Cardinality(Listing!Counted) >= Cardinality(matching)
               /\ Cardinality(Listing!Counted) <= Cardinality(returned) + repeats
    <3>1. matching \in SUBSET Listing!Ids(jobs) /\ batch \subseteq Jobs /\ returned \subseteq Jobs
          /\ matching \subseteq Jobs
      BY <2>1 DEF ScanInv
    <3>2. /\ Cardinality(matching) <= Cardinality(Listing!Ids(jobs))
          /\ Cardinality(Listing!Ids(jobs)) \in Nat
      BY <3>1, IdsAreFew, FS_Subset, FS_CardinalityType
    <3>3. /\ Cardinality(matching) \in Nat /\ Cardinality(batch) \in Nat
          /\ Cardinality(returned) \in Nat
      BY <3>1, FiniteJobs
    <3>4. Len(jobs) \in Nat /\ Len(jobs) + Cardinality(batch) <= Cardinality(returned) + repeats
          /\ repeats \in Nat
      BY DEF ScanInv
    <3> QED
      BY <3>2, <3>3, <3>4, IdsAreFew, CountsAddUp
  <2> QED
    BY <2>1, ListingCounts DEF StandingJobsFound, Listing!StandingJobsFound, ScanInv
<1> QED
  BY <1>1, <1>2, <1>3, PTL DEF Listing!Spec

-----------------------------------------------------------------------------
(* The jobs that a query for status s asks for when Redis holds st, and the  *)
(* place of each of them, latest first.                                      *)
Standing(st, s) == {j \in Jobs : st[j] # NoJob /\ Listing!Wanted(st[j], s)}
NoOlder(st, s, j) == {m \in Standing(st, s) : st[m].updated_at >= st[j].updated_at}
Position(st, s, j) == Cardinality(NoOlder(st, s, j))
TimesDiffer(st, s) ==
  \A j, m \in Standing(st, s) : j # m => st[j].updated_at # st[m].updated_at

IsWindow(list, st, s, offset, limit) ==
  LET total == Cardinality(Standing(st, s))
      start == Listing!AtMost(offset, total)
  IN /\ list \in Seq(JobsRead)
     /\ Len(list) = Listing!AtMost(start + limit, total) - start
     /\ \A n \in 1..Len(list) :
          /\ list[n].id \in Standing(st, s) /\ list[n].rec = st[list[n].id]
          /\ Position(st, s, list[n].id) = start + n

FitTogether(P, Q, total, offset, limit) ==
  LET both == P \o Q
  IN /\ Listing!Distinct(both)
     /\ \A k \in 1..Len(both) - 1 : both[k].rec.updated_at > both[k + 1].rec.updated_at
     /\ Len(both) = Listing!AtMost(2 * limit, total - Listing!AtMost(offset, total))

Unrepeated == quiet /\ repeats = 0

(* Each job was read at most once, and is what Redis holds. *)
ReadOnce ==
  /\ \A k \in DOMAIN jobs : /\ jobs[k].id \in returned \ batch
                            /\ jobs[k].id \in Standing(store, query.status)
                            /\ jobs[k].rec = store[jobs[k].id]
  /\ \A k, m \in DOMAIN jobs : k # m => jobs[k].id # jobs[m].id

(* While nobody writes and SCAN repeats nothing, every record read is the   *)
(* job's one record, and pages are windows of the jobs in Redis.            *)
PagesInv ==
  /\ stage = "idle" => before = <<>>
  /\ Unrepeated /\ stage # "idle" => matching = Standing(store, query.status) /\ ReadOnce
  /\ Unrepeated /\ stage = "listed" /\ TimesDiffer(store, query.status) =>
       IsWindow(page, store, query.status, query.offset, query.limit)
  /\ Unrepeated /\ before # <<>> /\ TimesDiffer(store, query.status) =>
       /\ query.offset >= query.limit
       /\ before.total = Cardinality(Standing(store, query.status))
       /\ IsWindow(before.page, store, query.status, query.offset - query.limit, query.limit)

-----------------------------------------------------------------------------
(* With times that differ, the positions of the standing jobs, newest first, *)
(* are the numbers from 1 to their count, each taken.                        *)
LEMMA PositionsFill ==
  ASSUME ListingInputs,
         NEW st \in [Jobs -> Listing!Records \cup {NoJob, Unreadable}], NEW s, TimesDiffer(st, s)
  PROVE  LET S == Standing(st, s)
         IN /\ IsFiniteSet(S) /\ Cardinality(S) \in Nat
            /\ \A j \in S : /\ IsFiniteSet(NoOlder(st, s, j))
                            /\ Position(st, s, j) \in 1..Cardinality(S)
            /\ \A j, m \in S : st[j].updated_at > st[m].updated_at =>
                                 Position(st, s, j) < Position(st, s, m)
            /\ \A r \in 1..Cardinality(S) : \E j \in S : Position(st, s, j) = r
<1> DEFINE S == Standing(st, s)
           N == Cardinality(S)
           p == [j \in S |-> Position(st, s, j)]
<1>1. S \subseteq Jobs /\ \A j \in S : st[j].updated_at \in Nat
  BY DEF Standing, Listing!Wanted, Listing!Records, ListingInputs
<1>2. IsFiniteSet(S) /\ N \in Nat
  BY <1>1, FS_Subset, FS_CardinalityType DEF ListingInputs
<1>3. \A j \in S : /\ j \in NoOlder(st, s, j) /\ NoOlder(st, s, j) \in SUBSET S
  BY <1>1 DEF NoOlder
<1> HIDE DEF S
<1>4. \A j \in S : /\ IsFiniteSet(NoOlder(st, s, j))
                   /\ Position(st, s, j) \in Nat /\ Position(st, s, j) # 0
                   /\ Position(st, s, j) <= N
  <2> SUFFICES ASSUME NEW j \in S
               PROVE  /\ IsFiniteSet(NoOlder(st, s, j))
                      /\ Position(st, s, j) \in Nat /\ Position(st, s, j) # 0
                      /\ Position(st, s, j) <= N
    OBVIOUS
  <2>1. IsFiniteSet(NoOlder(st, s, j)) /\ Cardinality(NoOlder(st, s, j)) <= N
    BY <1>2, <1>3, FS_Subset
  <2>2. Cardinality(NoOlder(st, s, j)) \in Nat /\ Cardinality(NoOlder(st, s, j)) # 0
    BY <1>3, <2>1, FS_CardinalityType, FS_EmptySet
  <2> QED
    BY <2>1, <2>2 DEF Position
<1>5. ASSUME NEW j \in S, NEW m \in S, st[j].updated_at > st[m].updated_at
      PROVE  Position(st, s, j) < Position(st, s, m)
  <2>1. NoOlder(st, s, j) \in SUBSET (NoOlder(st, s, m) \ {m})
    BY <1>1, <1>5 DEF NoOlder, S
  <2>2. /\ IsFiniteSet(NoOlder(st, s, m) \ {m})
        /\ Cardinality(NoOlder(st, s, m) \ {m}) = Position(st, s, m) - 1
    BY <1>3, <1>4, FS_RemoveElement DEF Position
  <2>3. Position(st, s, j) <= Position(st, s, m) - 1
    BY <2>1, <2>2, FS_Subset DEF Position
  <2> QED
    BY <1>4, <2>3
<1>6. \A j, m \in S : j # m => Position(st, s, j) # Position(st, s, m)
  <2> SUFFICES ASSUME NEW j \in S, NEW m \in S, j # m
               PROVE  Position(st, s, j) # Position(st, s, m)
    OBVIOUS
  <2>1. st[j].updated_at # st[m].updated_at
    BY DEF TimesDiffer, S
  <2>2. st[j].updated_at > st[m].updated_at \/ st[m].updated_at > st[j].updated_at
    BY <1>1, <2>1
  <2> QED
    BY <1>4, <1>5, <2>2
<1>7. p \in Injection(S, 1..N)
  BY <1>2, <1>4, <1>6 DEF Injection, IsInjective
<1>8. IsFiniteSet(1..N) /\ Cardinality(1..N) = N
  <2>1. 1 \in Int /\ N \in Int
    BY <1>2
  <2>2. IsFiniteSet(1..N) /\ Cardinality(1..N) = IF 1 > N THEN 0 ELSE N - 1 + 1
    BY <2>1, FS_Interval
  <2> QED
    BY <1>2, <2>2
<1>9. p \in Surjection(S, 1..N)
  BY <1>7, <1>8, FS_Injection
<1>10. \A r \in 1..N : \E j \in S : p[j] = r
  BY <1>9 DEF Surjection
<1>11. \A j \in S : Position(st, s, j) \in 1..N
  BY <1>2, <1>4
<1> QED
  BY <1>2, <1>4, <1>5, <1>10, <1>11 DEF S

(* When no job was read twice, entries are as many as their identifiers. *)
LEMMA AsMany ==
  ASSUME ScanInv, ReadOnce, NEW K \in SUBSET (DOMAIN jobs)
  PROVE  Cardinality(K) = Cardinality({jobs[k].id : k \in K})
<1> DEFINE T == {jobs[k].id : k \in K}
           f == [k \in K |-> jobs[k].id]
<1>1. DOMAIN jobs = 1..Len(jobs) /\ Len(jobs) \in Nat
  BY DEF ScanInv
<1>2. 1 \in Int /\ Len(jobs) \in Int
  BY <1>1
<1>3. IsFiniteSet(K)
  BY <1>1, <1>2, FS_Interval, FS_Subset
<1>4. f \in Bijection(K, T)
  BY DEF ReadOnce, Bijection, Injection, IsInjective, Surjection
<1>5. ExistsBijection(K, T)
  BY <1>4 DEF ExistsBijection
<1> QED
  BY <1>3, <1>5, FS_Bijection

(* When the scan is over, the jobs read are those of the reference, and the  *)
(* sort puts each at its position.                                           *)
LEMMA PlaceIsPosition ==
  ASSUME ListingInputs, ScanInv, ReadOnce, TimesDiffer(store, query.status),
         Standing(store, query.status) \subseteq Listing!Ids(jobs)
  PROVE  /\ Len(jobs) = Cardinality(Standing(store, query.status))
         /\ \A k \in DOMAIN jobs : Listing!Place(k) = Position(store, query.status, jobs[k].id)
<1> DEFINE S == Standing(store, query.status)
<1>1. DOMAIN jobs = 1..Len(jobs) /\ Len(jobs) \in Nat
  BY DEF ScanInv
<1>2. Len(jobs) = Cardinality(S)
  <2>1. {jobs[k].id : k \in DOMAIN jobs} = S
    BY DEF Listing!Ids, ReadOnce
  <2>2. Cardinality(DOMAIN jobs) = Cardinality(S)
    BY <2>1, AsMany
  <2>3. 1 \in Int /\ Len(jobs) \in Int
    BY <1>1
  <2>4. Cardinality(1..Len(jobs)) = IF 1 > Len(jobs) THEN 0 ELSE Len(jobs) - 1 + 1
    BY <2>3, FS_Interval
  <2> QED
    BY <1>1, <2>2, <2>4
<1>3. ASSUME NEW k \in DOMAIN jobs
      PROVE  Listing!Place(k) = Position(store, query.status, jobs[k].id)
  <2> DEFINE K == {m \in DOMAIN jobs :
                     \/ jobs[m].rec.updated_at > jobs[k].rec.updated_at
                     \/ jobs[m].rec.updated_at = jobs[k].rec.updated_at /\ m <= k}
  <2>1. \A m \in DOMAIN jobs : /\ jobs[m].id \in S /\ jobs[m].rec = store[jobs[m].id]
                               /\ store[jobs[m].id].updated_at \in Nat
    BY DEF ReadOnce, Standing, ScanInv, Listing!Wanted, Listing!Records, ListingInputs
  <2>2. \A m \in DOMAIN jobs : m \in K <=> jobs[m].id \in NoOlder(store, query.status, jobs[k].id)
    <3> SUFFICES ASSUME NEW m \in DOMAIN jobs
                 PROVE  m \in K <=> store[jobs[m].id].updated_at >= store[jobs[k].id].updated_at
      BY <2>1 DEF NoOlder
    <3>1. m # k => store[jobs[m].id].updated_at # store[jobs[k].id].updated_at
      BY <2>1 DEF ReadOnce, TimesDiffer
    <3>2. m \in Nat /\ k \in Nat
      BY <1>1
    <3>3. CASE m = k
      BY <2>1, <3>2, <3>3
    <3>4. CASE m # k
      BY <2>1, <3>1, <3>4
    <3> QED
      BY <3>3, <3>4
  <2>3. {jobs[m].id : m \in K} = NoOlder(store, query.status, jobs[k].id)
    <3>1. \A j \in NoOlder(store, query.status, jobs[k].id) : \E m \in DOMAIN jobs : jobs[m].id = j
      BY DEF NoOlder, Listing!Ids
    <3>2. K \subseteq DOMAIN jobs
      OBVIOUS
    <3> HIDE DEF K
    <3> QED
      BY <2>2, <3>1, <3>2
  <2>4. Listing!Place(k) = Cardinality(K)
    BY ListingCounts DEF Listing!Place
  <2> HIDE DEF K
  <2>5. K \in SUBSET (DOMAIN jobs)
    BY DEF K
  <2> QED
    BY <2>3, <2>4, <2>5, AsMany DEF Position
<1> QED
  BY <1>2, <1>3

(* The sorted list of what one undisturbed scan read has the standing jobs *)
(* at their positions.                                                     *)
LEMMA SortedIs ==
  ASSUME ListingInputs, ScanInv, ReadOnce, TimesDiffer(store, query.status),
         Standing(store, query.status) \subseteq Listing!Ids(jobs), NEW n \in 1..Len(jobs)
  PROVE  /\ Listing!Sorted[n] \in JobsRead
         /\ Listing!Sorted[n].id \in Standing(store, query.status)
         /\ Listing!Sorted[n].rec = store[Listing!Sorted[n].id]
         /\ Position(store, query.status, Listing!Sorted[n].id) = n
<1> DEFINE S == Standing(store, query.status)
<1>1. DOMAIN jobs = 1..Len(jobs) /\ Len(jobs) \in Nat /\ jobs \in Seq(JobsRead)
      /\ store \in [Jobs -> Listing!Records \cup {NoJob, Unreadable}]
  BY DEF ScanInv
<1>2. PICK j \in S : Position(store, query.status, j) = n
  BY <1>1, PlaceIsPosition, PositionsFill
<1>3. PICK k \in DOMAIN jobs : jobs[k].id = j
  BY DEF Listing!Ids
<1>4. Listing!Place(k) = n
  BY <1>2, <1>3, PlaceIsPosition
<1> DEFINE c == CHOOSE m \in DOMAIN jobs : Listing!Place(m) = n
<1>5. c \in DOMAIN jobs /\ Listing!Place(c) = n
  BY <1>4
<1>6. Listing!Sorted[n] = jobs[c]
  BY <1>1 DEF Listing!Sorted
<1> HIDE DEF c
<1>7. jobs[c] \in JobsRead
  BY <1>1, <1>5
<1>8. Position(store, query.status, jobs[c].id) = n
  BY <1>5, PlaceIsPosition
<1> QED
  BY <1>5, <1>6, <1>7, <1>8 DEF ReadOnce

(* So the window cut from it is the window of the standing jobs. *)
LEMMA WindowIs ==
  ASSUME ListingInputs, ScanInv, ReadOnce, TimesDiffer(store, query.status),
         Standing(store, query.status) \subseteq Listing!Ids(jobs),
         NEW offset \in Nat, NEW limit \in Nat
  PROVE  IsWindow(Listing!Window(offset, limit), store, query.status, offset, limit)
<1> DEFINE N == Len(jobs)
           start == Listing!AtMost(offset, N)
           end == Listing!AtMost(start + limit, N)
           W == SubSeq(Listing!Sorted, start + 1, end)
<1>1. N \in Nat /\ N = Cardinality(Standing(store, query.status))
  BY PlaceIsPosition DEF ScanInv
<1>2. start \in Nat /\ end \in Nat /\ start <= end /\ end <= N
  BY <1>1 DEF Listing!AtMost
<1>3. W = Listing!Window(offset, limit)
  BY DEF Listing!Window
<1> HIDE DEF start, end
<1>4. \A n \in start + 1..end : n \in 1..N
  BY <1>1, <1>2
<1>5. \A n \in start + 1..end : Listing!Sorted[n] \in JobsRead
  BY <1>4, SortedIs
<1>6. start + 1 \in Int /\ end \in Int
  BY <1>2
<1>7. /\ W \in Seq(JobsRead)
      /\ Len(W) = IF start + 1 <= end THEN end - (start + 1) + 1 ELSE 0
      /\ \A n \in 1..end - (start + 1) + 1 : W[n] = Listing!Sorted[start + 1 + n - 1]
  BY <1>5, <1>6, SubSeqProperties
<1> HIDE DEF W
<1>8. Len(W) = end - start
  BY <1>2, <1>7
<1>9. ASSUME NEW n \in 1..Len(W)
      PROVE  /\ W[n].id \in Standing(store, query.status) /\ W[n].rec = store[W[n].id]
             /\ Position(store, query.status, W[n].id) = start + n
  <2>1. n \in 1..end - (start + 1) + 1 /\ start + n \in 1..N /\ start + 1 + n - 1 = start + n
    BY <1>1, <1>2, <1>8
  <2>2. W[n] = Listing!Sorted[start + n]
    BY <1>7, <2>1
  <2> QED
    BY <2>1, <2>2, SortedIs
<1> QED
  BY <1>1, <1>3, <1>7, <1>8, <1>9 DEF IsWindow, start, end

(* Two windows that follow each other hold, together, up to twice the limit. *)
LEMMA WindowSizes ==
  ASSUME NEW offset \in Nat, NEW limit \in Nat, NEW total \in Nat, NEW from, NEW next,
         from = Listing!AtMost(offset, total), next = Listing!AtMost(offset + limit, total)
  PROVE  LET p == Listing!AtMost(from + limit, total) - from
             q == Listing!AtMost(next + limit, total) - next
         IN /\ from \in Nat /\ next \in Nat
            /\ q = 0 \/ next = from + p
            /\ p + q = Listing!AtMost(2 * limit, total - from)
  BY DEF Listing!AtMost

(* Two windows that follow each other list the jobs in between. *)
LEMMA WindowsFit ==
  ASSUME ListingInputs,
         NEW st \in [Jobs -> Listing!Records \cup {NoJob, Unreadable}], NEW s, TimesDiffer(st, s),
         NEW offset \in Nat, NEW limit \in Nat, NEW P, NEW Q,
         IsWindow(P, st, s, offset, limit), IsWindow(Q, st, s, offset + limit, limit)
  PROVE  FitTogether(P, Q, Cardinality(Standing(st, s)), offset, limit)
<1> DEFINE S == Standing(st, s)
           total == Cardinality(S)
           from == Listing!AtMost(offset, total)
           next == Listing!AtMost(offset + limit, total)
           both == P \o Q
<1>1. total \in Nat
  BY PositionsFill
<1>2. /\ P \in Seq(JobsRead) /\ Q \in Seq(JobsRead)
      /\ Len(P) = Listing!AtMost(from + limit, total) - from
      /\ Len(Q) = Listing!AtMost(next + limit, total) - next
      /\ \A n \in 1..Len(P) : /\ P[n].id \in S /\ P[n].rec = st[P[n].id]
                              /\ Position(st, s, P[n].id) = from + n
      /\ \A n \in 1..Len(Q) : /\ Q[n].id \in S /\ Q[n].rec = st[Q[n].id]
                              /\ Position(st, s, Q[n].id) = next + n
  BY DEF IsWindow
<1>3. /\ both \in Seq(JobsRead) /\ Len(both) = Len(P) + Len(Q)
      /\ \A k \in 1..Len(P) + Len(Q) : both[k] = IF k <= Len(P) THEN P[k] ELSE Q[k - Len(P)]
      /\ Len(P) \in Nat /\ Len(Q) \in Nat
  <2>1. P \in Seq(JobsRead) /\ Q \in Seq(JobsRead)
    BY <1>2
  <2> QED
    BY <2>1, ConcatProperties, LenProperties
<1>4. /\ from \in Nat /\ next \in Nat
      /\ Len(Q) = 0 \/ next = from + Len(P)
      /\ Len(P) + Len(Q) = Listing!AtMost(2 * limit, total - from)
  <2>1. from = Listing!AtMost(offset, total) /\ next = Listing!AtMost(offset + limit, total)
    OBVIOUS
  <2>2. /\ Len(P) = Listing!AtMost(from + limit, total) - from
        /\ Len(Q) = Listing!AtMost(next + limit, total) - next
    BY <1>2
  <2> HIDE DEF total, from, next
  <2> QED
    BY <1>1, <2>1, <2>2, WindowSizes
<1> HIDE DEF both, from, next
<1>5. ASSUME NEW k \in 1..Len(both)
      PROVE  /\ both[k].id \in S /\ both[k].rec = st[both[k].id]
             /\ Position(st, s, both[k].id) = from + k
  <2>1. CASE k <= Len(P)
    <3>1. k \in 1..Len(P) /\ both[k] = P[k]
      BY <1>3, <2>1
    <3> QED
      BY <1>2, <3>1
  <2>2. CASE ~(k <= Len(P))
    <3>1. k - Len(P) \in 1..Len(Q) /\ both[k] = Q[k - Len(P)] /\ Len(Q) # 0
      BY <1>3, <2>2
    <3>2. next + (k - Len(P)) = from + k
      <4>1. next = from + Len(P) /\ from \in Nat
        BY <1>4, <3>1
      <4>2. Len(P) \in Nat /\ k \in Int
        BY <1>3
      <4> QED
        BY <4>1, <4>2
    <3> QED
      BY <1>2, <3>1, <3>2
  <2> QED
    BY <2>1, <2>2
<1>6. \A j \in S : st[j].updated_at \in Nat
  BY DEF Standing, Listing!Wanted, Listing!Records, ListingInputs
<1>7. DOMAIN both = 1..Len(both) /\ Len(both) \in Nat
  BY <1>3
<1>8. ASSUME NEW k \in 1..Len(both), NEW m \in 1..Len(both), k # m
      PROVE  /\ both[k].id # both[m].id
             /\ both[k].rec.updated_at # both[m].rec.updated_at
  <2>1. from + k # from + m
    BY <1>4, <1>8
  <2>2. both[k].id # both[m].id
    BY <1>5, <2>1
  <2> QED
    BY <1>5, <2>2 DEF TimesDiffer
<1>9. ASSUME NEW k \in 1..Len(both) - 1
       PROVE  both[k].rec.updated_at > both[k + 1].rec.updated_at
  <2>1. k \in 1..Len(both) /\ k + 1 \in 1..Len(both) /\ k # k + 1
    BY <1>7
  <2>2. both[k].rec.updated_at # both[k + 1].rec.updated_at
    BY <1>8, <2>1
  <2>3. ~(both[k + 1].rec.updated_at > both[k].rec.updated_at)
    <3>1. ASSUME st[both[k + 1].id].updated_at > st[both[k].id].updated_at PROVE FALSE
      <4>1. Position(st, s, both[k + 1].id) < Position(st, s, both[k].id)
        BY <1>5, <2>1, <3>1, PositionsFill
      <4>2. from + (k + 1) < from + k
        BY <1>5, <2>1, <4>1
      <4> QED
        BY <1>4, <4>2
    <3> QED
      BY <1>5, <2>1, <3>1
  <2>4. both[k].rec.updated_at \in Nat /\ both[k + 1].rec.updated_at \in Nat
    BY <1>5, <1>6, <2>1
  <2> QED
    BY <2>2, <2>3, <2>4
<1>10. Listing!Distinct(both)
  BY <1>7, <1>8 DEF Listing!Distinct
<1>11. Len(both) = Listing!AtMost(2 * limit, total - from)
  BY <1>3, <1>4
<1> QED
  BY <1>9, <1>10, <1>11 DEF both, from, FitTogether

-----------------------------------------------------------------------------
(* Before any request there is no earlier page to fit to. *)
LEMMA PagesStart ==
  ASSUME NEW q, Listing!StartScan(q), UNCHANGED store
  PROVE  /\ stage' = "scan" /\ matching' = Standing(store, query.status)'
         /\ ReadOnce'
<1>1. /\ stage' = "scan" /\ query' = q /\ jobs' = <<>> /\ store' = store
      /\ matching' = {j \in Jobs : Listing!Exists(j) /\ Listing!Wanted(store[j], q.status)}
  BY DEF Listing!StartScan
<1>2. matching' = Standing(store', query'.status)
  BY <1>1 DEF Standing, Listing!Exists
<1> QED
  BY <1>1, <1>2 DEF ReadOnce

(* PagesInv is inductive. *)
LEMMA PagesNext ==
  ASSUME ListingInputs, ScanInv, PagesInv, [Listing!Next]_(Listing!vars)
  PROVE  PagesInv'
<1>1. CASE UNCHANGED Listing!vars
  BY <1>1 DEF Listing!vars, Listing!scanning, Listing!ghosts, PagesInv, ReadOnce, Unrepeated
<1>2. CASE Listing!FirstRequest
  <2>1. PICK q : Listing!StartScan(q)
    BY <1>2 DEF Listing!FirstRequest
  <2>2. before' = <<>> /\ store' = store
    BY <1>2 DEF Listing!FirstRequest, PagesInv
  <2> QED
    BY <2>1, <2>2, PagesStart DEF PagesInv
<1>3. CASE Listing!NextPage
  <2> DEFINE q == [query EXCEPT !.offset = @ + query.limit]
  <2>1. /\ stage = "listed" /\ before' = [page |-> page, total |-> Len(jobs)]
        /\ Listing!StartScan(q) /\ UNCHANGED <<store, repeats, quiet>>
    BY <1>3 DEF Listing!NextPage
  <2>2. query' = q
    BY <2>1 DEF Listing!StartScan
  <2>3. /\ query.offset \in Nat /\ query.limit \in Nat
        /\ query'.status = query.status /\ query'.limit = query.limit
        /\ query'.offset = query.offset + query.limit
    BY <2>2 DEF ScanInv, Queries
  <2>4. query'.offset >= query'.limit /\ query'.offset - query'.limit = query.offset
    BY <2>3
  <2>5. ASSUME Unrepeated, TimesDiffer(store, query.status)
        PROVE  /\ Len(jobs) = Cardinality(Standing(store, query.status))
               /\ IsWindow(page, store, query.status, query.offset, query.limit)
    <3>1. ReadOnce /\ Standing(store, query.status) \subseteq Listing!Ids(jobs)
      BY <2>1, <2>5 DEF PagesInv, ScanInv
    <3> QED
      BY <2>1, <2>5, <3>1, PlaceIsPosition DEF PagesInv
  <2>6. before'.page = page /\ before'.total = Len(jobs)
    BY <2>1
  <2>7. Unrepeated' <=> Unrepeated
    BY <2>1 DEF Unrepeated
  <2>8. ASSUME Unrepeated', TimesDiffer(store, query.status)'
        PROVE  /\ before'.total = Cardinality(Standing(store, query.status))'
               /\ IsWindow(before.page, store, query.status, query.offset - query.limit,
                           query.limit)'
    BY <2>1, <2>3, <2>4, <2>5, <2>6, <2>7, <2>8
  <2> HIDE DEF q
  <2> QED
    BY <2>1, <2>4, <2>8, PagesStart DEF PagesInv
<1>4. CASE Listing!Scan
  <2>1. PICK found \in SUBSET {j \in Jobs : Listing!Exists(j)} :
          /\ repeats' = repeats + Cardinality(found \cap returned)
          /\ batch' = found /\ returned' = returned \cup found
    BY <1>4, ListingCounts DEF Listing!Scan
  <2>2. /\ stage = "scan" /\ UNCHANGED <<store, stage, query, jobs, before, matching, quiet>>
    BY <1>4 DEF Listing!Scan, Listing!ghosts
  <2>3. found \cap returned \subseteq Jobs
    OBVIOUS
  <2>4. IsFiniteSet(found \cap returned) /\ Cardinality(found \cap returned) \in Nat
    BY <2>3, FiniteJobs
  <2>5. Unrepeated' => Unrepeated /\ found \cap returned = {}
    <3>1. Unrepeated' => Cardinality(found \cap returned) = 0 /\ repeats = 0 /\ quiet
      BY <2>1, <2>2, <2>4 DEF Unrepeated, ScanInv
    <3> QED
      BY <2>4, <3>1, FS_EmptySet DEF Unrepeated
  <2>6. Unrepeated' => ReadOnce'
    BY <2>1, <2>2, <2>5 DEF PagesInv, ReadOnce
  <2> QED
    BY <2>2, <2>5, <2>6 DEF PagesInv
<1>5. CASE \E j \in Jobs : Listing!Read(j)
  <2>1. PICK j \in Jobs : Listing!Read(j)
    BY <1>5
  <2>2. /\ stage = "scan" /\ j \in batch /\ batch' = batch \ {j}
        /\ jobs' = IF Listing!Exists(j) /\ Listing!Wanted(store[j], query.status)
                   THEN Append(jobs, [id |-> j, rec |-> store[j]]) ELSE jobs
        /\ UNCHANGED <<store, stage, query, returned, repeats, before, matching, quiet>>
    BY <2>1 DEF Listing!Read, Listing!ghosts
  <2>3. Unrepeated' <=> Unrepeated
    BY <2>2 DEF Unrepeated
  <2>4. batch \subseteq returned /\ jobs \in Seq(JobsRead) /\ DOMAIN jobs = 1..Len(jobs)
        /\ Len(jobs) \in Nat
    BY DEF ScanInv
  <2>5. ASSUME ReadOnce
        PROVE  ReadOnce'
    <3>1. CASE Listing!Exists(j) /\ Listing!Wanted(store[j], query.status)
      <4> DEFINE new == [id |-> j, rec |-> store[j]]
      <4>1. jobs' = Append(jobs, new)
        BY <2>2, <3>1
      <4>2. /\ DOMAIN jobs' = 1..Len(jobs) + 1
            /\ \A k \in 1..Len(jobs) : jobs'[k] = jobs[k]
            /\ jobs'[Len(jobs) + 1] = new
        BY <2>4, <4>1
      <4>3. \A k \in 1..Len(jobs) : /\ jobs[k].id \in returned \ batch
                                    /\ jobs[k].id \in Standing(store, query.status)
                                    /\ jobs[k].rec = store[jobs[k].id]
        BY <2>4, <2>5 DEF ReadOnce
      <4>4. new.id = j /\ new.rec = store[j] /\ j \in Standing(store, query.status)
        BY <3>1 DEF Standing, Listing!Exists
      <4> HIDE DEF new
      <4>5. \A k \in DOMAIN jobs' : k \in 1..Len(jobs) \/ k = Len(jobs) + 1
        BY <2>4, <4>2
      <4>6. \A k \in DOMAIN jobs' : /\ jobs'[k].id \in returned' \ batch'
                                    /\ jobs'[k].id \in Standing(store', query'.status)
                                    /\ jobs'[k].rec = store'[jobs'[k].id]
        BY <2>2, <2>4, <4>2, <4>3, <4>4, <4>5
      <4>7. \A k, m \in DOMAIN jobs' : k # m => jobs'[k].id # jobs'[m].id
        BY <2>2, <2>4, <2>5, <4>2, <4>3, <4>4, <4>5 DEF ReadOnce
      <4> QED
        BY <4>6, <4>7 DEF ReadOnce
    <3>2. CASE ~(Listing!Exists(j) /\ Listing!Wanted(store[j], query.status))
      BY <2>2, <2>5, <3>2 DEF ReadOnce
    <3> QED
      BY <3>1, <3>2
  <2> QED
    BY <2>2, <2>3, <2>5 DEF PagesInv
<1>6. CASE Listing!Answer \/ Listing!AnswerCounts
  <2>1. /\ stage = "scan" /\ batch = {} /\ there \subseteq returned
        /\ \/ stage' = "counted"
           \/ stage' = "listed" /\ page' = Listing!Window(query.offset, query.limit)
        /\ UNCHANGED <<store, query, batch, returned, repeats, jobs, before, matching, quiet>>
    BY <1>6 DEF Listing!Answer, Listing!AnswerCounts, Listing!ScanEnds,
                Listing!scanning, Listing!ghosts
  <2>2. matching \subseteq Listing!Ids(jobs)
    BY <2>1 DEF ScanInv
  <2>3. /\ Unrepeated' <=> Unrepeated
        /\ ReadOnce => ReadOnce'
    BY <2>1 DEF Unrepeated, ReadOnce
  <2>4. ASSUME Unrepeated, TimesDiffer(store, query.status), stage' = "listed"
        PROVE  IsWindow(page', store, query.status, query.offset, query.limit)
    <3>1. ReadOnce /\ Standing(store, query.status) \subseteq Listing!Ids(jobs)
      BY <2>1, <2>2, <2>4 DEF PagesInv
    <3>2. query.offset \in Nat /\ query.limit \in Nat
      BY DEF ScanInv, Queries
    <3>3. page' = Listing!Window(query.offset, query.limit)
      BY <2>1, <2>4
    <3> QED
      BY <2>4, <3>1, <3>2, <3>3, WindowIs
  <2> QED
    BY <2>1, <2>3, <2>4 DEF PagesInv
<1>7. CASE \E j \in Jobs, rec \in Listing!Records \cup {NoJob} : Listing!Change(j, rec)
  <2>1. quiet' = FALSE /\ stage' = "scan"
    BY <1>7 DEF Listing!Change
  <2> QED
    BY <2>1 DEF PagesInv, Unrepeated
<1> QED
  BY <1>1, <1>2, <1>3, <1>4, <1>5, <1>6, <1>7 DEF Listing!Next

(* For any number of jobs, any limit and offset: two pages of a store that   *)
(* rests, each from a scan of its own, fit together.                         *)
THEOREM PagesFitTogether == Listing!Spec => []PagesFit
<1> USE InputsAssumption
<1>1. Listing!Init => PagesInv
  BY DEF Listing!Init, PagesInv
<1>2. ScanInv /\ PagesInv /\ [Listing!Next]_(Listing!vars) => PagesInv'
  BY PagesNext
<1>3. ScanInv /\ PagesInv => PagesFit
  <2> SUFFICES ASSUME ScanInv, PagesInv, stage = "listed", before # <<>>, quiet,
                      Listing!Distinct(jobs), repeats = 0
               PROVE  LET both == before.page \o page
                          from == Listing!AtMost(query.offset - query.limit, Len(jobs))
                      IN /\ before.total = Len(jobs)
                         /\ Listing!Distinct(both)
                         /\ \A k \in 1..Len(both) - 1 :
                              both[k].rec.updated_at > both[k + 1].rec.updated_at
                         /\ Len(both) = Listing!AtMost(2 * query.limit, Len(jobs) - from)
    BY DEF PagesFit, Listing!PagesFit
  <2>1. ReadOnce /\ Standing(store, query.status) \subseteq Listing!Ids(jobs)
    BY DEF PagesInv, ScanInv, Unrepeated
  <2>2. TimesDiffer(store, query.status)
    <3> SUFFICES ASSUME NEW j \in Standing(store, query.status),
                        NEW m \in Standing(store, query.status), j # m
                 PROVE  store[j].updated_at # store[m].updated_at
      BY DEF TimesDiffer
    <3>1. PICK a \in DOMAIN jobs : jobs[a].id = j
      BY <2>1 DEF Listing!Ids
    <3>2. PICK b \in DOMAIN jobs : jobs[b].id = m
      BY <2>1 DEF Listing!Ids
    <3> QED
      BY <2>1, <3>1, <3>2 DEF Listing!Distinct, ReadOnce
  <2>3. Len(jobs) = Cardinality(Standing(store, query.status))
    BY <2>1, <2>2, PlaceIsPosition
  <2>4. /\ query.offset >= query.limit
        /\ before.total = Cardinality(Standing(store, query.status))
        /\ IsWindow(before.page, store, query.status, query.offset - query.limit, query.limit)
        /\ IsWindow(page, store, query.status, query.offset, query.limit)
    BY <2>2 DEF PagesInv, Unrepeated
  <2> DEFINE o == query.offset - query.limit
  <2>5. o \in Nat /\ query.limit \in Nat /\ o + query.limit = query.offset
    BY <2>4 DEF ScanInv, Queries
  <2>6. store \in [Jobs -> Listing!Records \cup {NoJob, Unreadable}]
    BY DEF ScanInv
  <2> HIDE DEF o
  <2>7. /\ IsWindow(before.page, store, query.status, o, query.limit)
        /\ IsWindow(page, store, query.status, o + query.limit, query.limit)
    BY <2>4, <2>5 DEF o
  <2>8. FitTogether(before.page, page, Len(jobs), o, query.limit)
    BY <2>3, <2>2, <2>5, <2>6, <2>7, WindowsFit
  <2> QED
    BY <2>3, <2>4, <2>8 DEF o, FitTogether
<1>4. Listing!Init => ScanInv
  BY ScanInit
<1>5. ScanInv /\ [Listing!Next]_(Listing!vars) => ScanInv'
  BY ScanNext
<1> QED
  BY <1>1, <1>2, <1>3, <1>4, <1>5, PTL DEF Listing!Spec

-----------------------------------------------------------------------------
(* The log tail: what was read, and what is before it, is the file as it was *)
(* when the handler asked for its size.                                      *)
TailBase ==
  /\ file \in Seq(Characters)
  /\ lines \in Nat \ {0}
  /\ progress \in {"new", "reading", "answered"}
  /\ read_pos \in Nat /\ bytes_read \in Nat /\ file_size \in Nat
  /\ read_pos + bytes_read = file_size /\ file_size <= Len(file)
  /\ bytes_read <= MaxBytes
  /\ progress = "new" => bytes_read = 0
  /\ progress # "answered" => selected = {}

After(p, S) == {q \in S : q > p}

-----------------------------------------------------------------------------
(* The instance counts sets as this module does. *)
LEMMA LogCounts == \A S : Log!Cardinality(S) = Cardinality(S)
  BY DEF Log!Cardinality, Cardinality

(* Of the ends of lines, fewer come after a later one. *)
LEMMA AfterIs ==
  ASSUME NEW S, IsFiniteSet(S), \A p \in S : p \in Nat, NEW p \in S
  PROVE  /\ IsFiniteSet(After(p, S)) /\ Cardinality(After(p, S)) \in Nat
         /\ Cardinality(After(p, S)) < Cardinality(S)
         /\ \A q \in S : q > p => Cardinality(After(q, S)) < Cardinality(After(p, S))
<1>1. After(p, S) \in SUBSET S
  BY DEF After
<1>2. IsFiniteSet(After(p, S)) /\ Cardinality(After(p, S)) \in Nat
  BY <1>1, FS_Subset, FS_CardinalityType
<1>3. Cardinality(S \ {p}) = Cardinality(S) - 1 /\ IsFiniteSet(S \ {p}) /\ Cardinality(S) \in Nat
  BY FS_RemoveElement, FS_CardinalityType
<1>4. After(p, S) \in SUBSET (S \ {p})
  BY DEF After
<1>5. Cardinality(After(p, S)) <= Cardinality(S) - 1
  BY <1>3, <1>4, FS_Subset
<1>6. ASSUME NEW q \in S, q > p
      PROVE  Cardinality(After(q, S)) < Cardinality(After(p, S))
  <2>1. q \in After(p, S)
    BY <1>6 DEF After
  <2>2. After(q, S) \in SUBSET (After(p, S) \ {q})
    BY <1>6 DEF After
  <2>3. /\ IsFiniteSet(After(p, S) \ {q})
        /\ Cardinality(After(p, S) \ {q}) = Cardinality(After(p, S)) - 1
    BY <1>2, <2>1, FS_RemoveElement
  <2>4. /\ Cardinality(After(q, S)) <= Cardinality(After(p, S)) - 1
        /\ Cardinality(After(q, S)) \in Nat
    BY <2>2, <2>3, FS_Subset, FS_CardinalityType
  <2> QED
    BY <1>2, <2>4
<1> QED
  BY <1>2, <1>3, <1>5, <1>6

(* The last n of at least n numbers are n. *)
LEMMA LastCounts ==
  ASSUME NEW S, IsFiniteSet(S), \A p \in S : p \in Nat,
         NEW n \in Nat, n <= Cardinality(S)
  PROVE  Cardinality(Log!Last(n, S)) = n
<1> DEFINE N == Cardinality(S)
           r == [p \in S |-> Cardinality(After(p, S))]
           g == [p \in Log!Last(n, S) |-> Cardinality(After(p, S))]
<1>1. N \in Nat /\ \A p \in S : Cardinality(After(p, S)) \in 0..N - 1
  BY AfterIs, FS_CardinalityType
<1>2. \A p, q \in S : Cardinality(After(p, S)) = Cardinality(After(q, S)) => p = q
  <2> SUFFICES ASSUME NEW p \in S, NEW q \in S, p # q
               PROVE  Cardinality(After(p, S)) # Cardinality(After(q, S))
    OBVIOUS
  <2>1. p > q \/ q > p
    OBVIOUS
  <2>2. Cardinality(After(p, S)) \in Nat /\ Cardinality(After(q, S)) \in Nat
    BY AfterIs
  <2>3. CASE p > q
    BY <2>2, <2>3, AfterIs
  <2>4. CASE q > p
    BY <2>2, <2>4, AfterIs
  <2> QED
    BY <2>1, <2>3, <2>4
<1>3. r \in Injection(S, 0..N - 1)
  BY <1>1, <1>2 DEF Injection, IsInjective
<1>4. IsFiniteSet(0..N - 1) /\ Cardinality(0..N - 1) = N
  BY <1>1, FS_Interval, 0 \in Int, N - 1 \in Int
<1>5. r \in Surjection(S, 0..N - 1)
  BY <1>3, <1>4, FS_Injection
<1>6. \A k \in 0..n - 1 : \E p \in S : Cardinality(After(p, S)) = k
  <2>1. \A k \in 0..N - 1 : \E p \in S : r[p] = k
    BY <1>5 DEF Surjection
  <2>2. \A p \in S : r[p] = Cardinality(After(p, S))
    OBVIOUS
  <2> HIDE DEF r
  <2>3. \A k \in 0..n - 1 : k \in 0..N - 1
    BY <1>1
  <2> QED
    BY <2>1, <2>2, <2>3
<1>7. Log!Last(n, S) = {p \in S : Cardinality(After(p, S)) < n}
  BY LogCounts DEF Log!Last, After
<1>8. \A p \in Log!Last(n, S) : p \in S /\ Cardinality(After(p, S)) \in 0..n - 1
  BY <1>1, <1>7
<1>9. \A k \in 0..n - 1 : \E p \in Log!Last(n, S) : Cardinality(After(p, S)) = k
  BY <1>6, <1>7
<1>10. g \in Bijection(Log!Last(n, S), 0..n - 1)
  BY <1>2, <1>8, <1>9 DEF Bijection, Injection, IsInjective, Surjection
<1>11. Log!Last(n, S) \in SUBSET S
  BY DEF Log!Last
<1>12. IsFiniteSet(Log!Last(n, S))
  BY <1>11, FS_Subset
<1>13. Cardinality(0..n - 1) = n
  <2>1. 0 \in Int /\ n - 1 \in Int
    OBVIOUS
  <2>2. Cardinality(0..n - 1) = IF 0 > n - 1 THEN 0 ELSE n - 1 - 0 + 1
    BY <2>1, FS_Interval
  <2> QED
    BY <2>2
<1>14. ExistsBijection(Log!Last(n, S), 0..n - 1)
  BY <1>10 DEF ExistsBijection
<1> QED
  BY <1>12, <1>13, <1>14, FS_Bijection

(* All of at most n. *)
LEMMA LastOfFew ==
  ASSUME NEW S, IsFiniteSet(S), \A p \in S : p \in Nat,
         NEW n \in Nat, Cardinality(S) <= n
  PROVE  Log!Last(n, S) = S
<1>1. \A p \in S : Cardinality(After(p, S)) < n
  BY AfterIs, FS_CardinalityType
<1> QED
  BY <1>1, LogCounts DEF Log!Last, After

-----------------------------------------------------------------------------
(* The last lines of the text that was read are the last lines of the file, *)
(* but for a first line that the byte limit may have cut.                   *)
LEMMA AnswerIsTail ==
  ASSUME TailBase, ~Log!More, MaxBytes \in Nat
  PROVE  LET all_lines == Log!splitlines(Log!Text, read_pos + 1, file_size)
             whole == Log!splitlines(Log!Text, 1, file_size)
             cut == IF bytes_read = MaxBytes THEN {read_pos + 1} ELSE {}
         IN Log!Last(lines, all_lines) # {} =>
              /\ \/ Log!Last(lines, all_lines) = Log!Last(lines, whole)
                 \/ /\ cut \subseteq Log!Last(lines, all_lines) /\ cut # {}
                    /\ Log!Last(lines, all_lines) \ cut = {p \in whole : p > read_pos + 1}
              /\ Cardinality(all_lines) > lines =>
                   /\ Cardinality(Log!Last(lines, all_lines)) = lines
                   /\ Cardinality(whole) > lines
<1> DEFINE a == read_pos + 1
           A == Log!splitlines(Log!Text, a, file_size)
           B == Log!splitlines(Log!Bytes, a, file_size)
           W == Log!splitlines(Log!Text, 1, file_size)
<1> SUFFICES ASSUME Log!Last(lines, A) # {}
             PROVE  /\ \/ Log!Last(lines, A) = Log!Last(lines, W)
                       \/ /\ bytes_read = MaxBytes /\ a \in Log!Last(lines, A)
                          /\ Log!Last(lines, A) \ {a} = {p \in W : p > a}
                    /\ Cardinality(A) > lines =>
                         /\ Cardinality(Log!Last(lines, A)) = lines
                         /\ Cardinality(W) > lines
  OBVIOUS
<1>1. /\ read_pos \in Nat /\ a \in Nat /\ lines \in Nat /\ file_size \in Nat /\ a >= 1
      /\ bytes_read \in Nat /\ bytes_read <= MaxBytes
  BY DEF TailBase
<1>2. /\ \A p \in A : p \in Nat /\ p >= a /\ p <= file_size
      /\ \A p \in W : p \in Nat /\ p >= 1 /\ p <= file_size
      /\ a <= file_size => a \in A
      /\ 1 <= file_size => 1 \in W
      /\ \A p : p > a => (p \in A <=> p \in W)
      /\ read_pos = 0 => A = W
  BY <1>1 DEF Log!splitlines
<1>3. B \subseteq A
  BY DEF Log!splitlines, Log!EndsLine, Log!Bytes, Log!Text
<1> HIDE DEF A, W, B
<1>4. IsFiniteSet(1..file_size)
  BY <1>1, FS_Interval, 1 \in Int, file_size \in Int
<1>5. A \in SUBSET (1..file_size) /\ W \in SUBSET (1..file_size)
  BY <1>1, <1>2
<1>6. /\ IsFiniteSet(A) /\ Cardinality(A) \in Nat
      /\ IsFiniteSet(W) /\ Cardinality(W) \in Nat
      /\ IsFiniteSet(B) /\ Cardinality(B) \in Nat /\ Cardinality(B) <= Cardinality(A)
  BY <1>3, <1>4, <1>5, FS_Subset, FS_CardinalityType
<1>7. a \in A
  BY <1>1, <1>2 DEF Log!Last
<1>8. /\ After(a, A) = A \ {a} /\ Cardinality(A \ {a}) = Cardinality(A) - 1
      /\ IsFiniteSet(A \ {a})
  <2>1. \A p \in A : p > a <=> p # a
    BY <1>1, <1>2
  <2>2. After(a, A) = A \ {a}
    BY <2>1 DEF After
  <2> HIDE DEF a
  <2> QED
    BY <1>6, <1>7, <2>2, FS_RemoveElement
<1>9. ASSUME Cardinality(A) > lines
      PROVE  Log!Last(lines, A) = Log!Last(lines, W)
  <2>1. ~(Cardinality(After(a, A)) < lines)
    BY <1>1, <1>6, <1>8, <1>9
  <2>2. ASSUME NEW p \in W, p <= a
        PROVE  ~(Cardinality(After(p, W)) < lines)
    <3>1. A \ {a} \in SUBSET After(p, W)
      BY <1>1, <1>2, <2>2 DEF After
    <3>2. After(p, W) \in SUBSET W
      BY DEF After
    <3>3. Cardinality(A \ {a}) <= Cardinality(After(p, W)) /\ Cardinality(After(p, W)) \in Nat
      BY <1>6, <3>1, <3>2, FS_Subset, FS_CardinalityType
    <3> QED
      BY <1>1, <1>6, <1>8, <1>9, <3>3
  <2>3. \A p : p > a /\ p \in A => After(p, A) = After(p, W)
    BY <1>1, <1>2 DEF After
  <2>4. /\ Log!Last(lines, A) = {p \in A : Cardinality(After(p, A)) < lines}
        /\ Log!Last(lines, W) = {p \in W : Cardinality(After(p, W)) < lines}
    BY LogCounts DEF Log!Last, After
  <2>5. \A p \in A : p = a \/ p > a
    BY <1>1, <1>2
  <2>6. \A p \in W : p <= a \/ p > a
    BY <1>1, <1>2
  <2> QED
    BY <1>2, <2>1, <2>2, <2>3, <2>4, <2>5, <2>6
<1>10. ASSUME Cardinality(A) <= lines, read_pos # 0
       PROVE  /\ bytes_read = MaxBytes /\ a \in Log!Last(lines, A)
              /\ Log!Last(lines, A) \ {a} = {p \in W : p > a}
  <2>1. ~(Cardinality(B) > lines)
    BY <1>1, <1>6, <1>10
  <2>2. bytes_read = MaxBytes
    BY <1>1, <1>6, <1>10, <2>1, LogCounts DEF Log!More, B
  <2>3. Log!Last(lines, A) = A
    BY <1>1, <1>2, <1>6, <1>10, LastOfFew
  <2>4. A \ {a} = {p \in W : p > a}
    BY <1>1, <1>2
  <2> QED
    BY <1>7, <2>2, <2>3, <2>4
<1>11. ASSUME Cardinality(A) > lines
       PROVE  Cardinality(Log!Last(lines, A)) = lines /\ Cardinality(W) > lines
  <2>1. Cardinality(Log!Last(lines, A)) = lines
    BY <1>1, <1>2, <1>6, <1>11, LastCounts
  <2>2. CASE read_pos = 0
    BY <1>2, <1>11, <2>1, <2>2
  <2>3. CASE read_pos # 0
    <3>1. 1 \notin A \ {a} /\ 1 \in W /\ A \ {a} \subseteq W
      BY <1>1, <1>2, <1>7, <2>3
    <3>2. Cardinality((A \ {a}) \cup {1}) = Cardinality(A)
      <4> DEFINE C == A \ {a}
      <4>1. Cardinality(C \cup {1}) = Cardinality(C) + 1
        <5> HIDE DEF C
        <5>1. IsFiniteSet(C) /\ 1 \notin C
          BY <1>8, <3>1 DEF C
        <5> QED
          BY <5>1, FS_AddElement
      <4> QED
        BY <1>6, <1>8, <4>1
    <3>3. (A \ {a}) \cup {1} \in SUBSET W
      BY <3>1
    <3>4. Cardinality(A) <= Cardinality(W)
      BY <1>6, <3>2, <3>3, FS_Subset
    <3> QED
      BY <1>1, <1>6, <1>11, <2>1, <3>4
  <2> QED
    BY <2>2, <2>3
<1>12. Cardinality(A) > lines \/ Cardinality(A) <= lines
  BY <1>1, <1>6
<1> QED
  BY <1>2, <1>9, <1>10, <1>11, <1>12

(* TailBase and the property hold together through every step. *)
LEMMA TailNext ==
  ASSUME ChunkSize \in Nat, MaxBytes \in Nat, TailBase, Log!TailIsTail, [Log!Next]_(Log!vars)
  PROVE  TailBase' /\ Log!TailIsTail'
<1>1. CASE UNCHANGED Log!vars
  BY <1>1 DEF Log!vars, Log!tail, Log!answer, TailBase, Log!TailIsTail, Log!splitlines, Log!EndsLine
<1>2. CASE Log!Log
  <2>1. PICK c \in Characters : file' = Append(file, c)
    BY <1>2 DEF Log!Log, Characters
  <2>2. file' \in Seq(Characters) /\ Len(file') = Len(file) + 1
    BY <2>1 DEF TailBase
  <2>3. TailBase'
    BY <1>2, <2>2 DEF Log!Log, TailBase, Log!tail, Log!answer
  <2> QED
    BY <1>2, <2>3 DEF Log!Log, Log!TailIsTail, TailBase
<1>3. CASE Log!AnswerNothing
  <2>1. TailBase'
    BY <1>3 DEF Log!AnswerNothing, TailBase, Log!tail, Log!answer
  <2>2. selected' = {}
    BY <1>3 DEF Log!AnswerNothing, TailBase, Log!answer
  <2> QED
    BY <2>1, <2>2 DEF Log!TailIsTail
<1>4. CASE Log!Stat
  <2>1. TailBase'
    BY <1>4 DEF Log!Stat, TailBase, Log!answer
  <2> QED
    BY <1>4, <2>1 DEF Log!Stat, Log!TailIsTail
<1>5. CASE Log!ReadChunk
  <2>1. PICK read_size \in Nat : /\ read_size <= read_pos /\ read_size <= MaxBytes - bytes_read
                                 /\ read_pos' = read_pos - read_size
                                 /\ bytes_read' = bytes_read + read_size
    BY <1>5 DEF Log!ReadChunk, Log!AtMost, Log!More, TailBase
  <2>2. TailBase'
    BY <1>5, <2>1 DEF Log!ReadChunk, TailBase, Log!answer
  <2> QED
    BY <1>5, <2>2 DEF Log!ReadChunk, Log!TailIsTail
<1>6. CASE Log!Answer
  <2>1. TailBase'
    BY <1>6 DEF Log!Answer, TailBase, Log!tail
  <2>2. UNCHANGED <<file, lines, file_size, read_pos, bytes_read>>
    BY <1>6 DEF Log!Answer, Log!tail
  <2>3. Log!splitlines(Log!Text, 1, file_size)' = Log!splitlines(Log!Text, 1, file_size)
    BY <2>2 DEF Log!splitlines, Log!EndsLine
  <2>4. /\ selected' = Log!Last(lines, Log!splitlines(Log!Text, read_pos + 1, file_size))
        /\ truncated' => Cardinality(Log!splitlines(Log!Text, read_pos + 1, file_size)) > lines
    BY <1>6, LogCounts DEF Log!Answer
  <2>5. Log!Last(lines, Log!splitlines(Log!Text, 1, file_size))'
          = Log!Last(lines, Log!splitlines(Log!Text, 1, file_size))
    BY <2>2, <2>3 DEF Log!Last
  <2>6. ~Log!More
    BY <1>6 DEF Log!Answer
  <2> QED
    BY <2>1, <2>2, <2>3, <2>4, <2>5, <2>6, AnswerIsTail, LogCounts DEF Log!TailIsTail
<1> QED
  BY <1>1, <1>2, <1>3, <1>4, <1>5, <1>6 DEF Log!Next

(* For any file, chunk size and byte limit: however much is logged while    *)
(* the handler reads, its answer is the end of the file in whole lines.     *)
THEOREM TailIsTheEnd == Log!Spec => []TailIsTail
<1> USE InputsAssumption
<1>1. Log!Init => TailBase /\ Log!TailIsTail
  BY DEF LogInputs, Log!Init, TailBase, Log!TailIsTail
<1>2. TailBase /\ Log!TailIsTail /\ [Log!Next]_(Log!vars) => (TailBase /\ Log!TailIsTail)'
  BY TailNext DEF LogInputs
<1> QED
  BY <1>1, <1>2, PTL DEF Log!Spec, TailIsTail

-----------------------------------------------------------------------------
(* What a request holds while it awaits a statement. *)
CallsAreSound ==
  \A r \in Calls :
    /\ step[r] = "get_user" => credential[r] \in Users
    /\ step[r] \in {"touch", "refresh"} => credential[r] \in Keys
    /\ step[r] = "commit" => principal[r].is_admin
    /\ late[r] => step[r] = "get_user" /\ credential[r] \in revoked

(* Rows agree with what the operator did: nothing the server writes makes a *)
(* user or a key active again.                                              *)
RowsAreSound ==
  /\ \A u \in Users : u \in revoked => ~users[u].is_active
  /\ \A k \in Keys : /\ k \in revoked => ~keys[k].is_active /\ keys[k].made
                     /\ keys[k].is_active => keys[k].made

AccessInv == Access!TypeOK /\ CallsAreSound /\ RowsAreSound

-----------------------------------------------------------------------------
(* The invariant holds of the tables as they are set up. *)
LEMMA AccessInit ==
  ASSUME Access!AccessInputs, Access!Init
  PROVE  AccessInv
<1>1. Access!NoRow \in Access!KeyRows
  BY DEF Access!AccessInputs, Access!NoRow, Access!KeyRows
<1>2. Access!Anonymous \in [id : Users \cup Keys \cup {Nobody}, is_admin : BOOLEAN]
  BY DEF Access!Anonymous
<1>3. users \in [Users -> [is_active : BOOLEAN, is_admin : BOOLEAN]]
  <2> DEFINE Fresh == {[is_active |-> TRUE, is_admin |-> b] : b \in BOOLEAN}
             Rows == [is_active : BOOLEAN, is_admin : BOOLEAN]
  <2>1. Fresh \subseteq Rows
    <3>1. \A b \in BOOLEAN : [is_active |-> TRUE, is_admin |-> b] \in Rows
      OBVIOUS
    <3> QED
      BY <3>1, Zenon
  <2>2. users \in [Users -> Fresh]
    BY DEF Access!Init
  <2> HIDE DEF Fresh, Rows
  <2>3. users \in [Users -> Rows]
    BY <2>1, <2>2
  <2> QED
    BY <2>3 DEF Rows
<1>4. Access!TypeOK
  BY <1>1, <1>2, <1>3 DEF Access!AccessInputs, Access!Init, Access!TypeOK
<1>5. CallsAreSound
  BY DEF Access!Init, CallsAreSound
<1>6. RowsAreSound
  BY DEF Access!Init, RowsAreSound, Access!NoRow
<1> QED
  BY <1>4, <1>5, <1>6 DEF AccessInv

(* A request that ends leaves the variables of the sessions well-typed and  *)
(* the other requests sound.                                                *)
LEMMA AccessLeave ==
  ASSUME Access!AccessInputs, AccessInv, NEW r \in Calls, Access!Leave(r), revoked' = revoked
  PROVE  /\ CallsAreSound'
         /\ step' \in [Calls -> {"idle", "get_user", "touch", "admitted", "commit", "refresh"}]
         /\ credential' \in [Calls -> Users \cup Keys \cup {Nobody}]
         /\ read' \in [Calls -> Access!KeyRows]
         /\ principal' \in [Calls -> [id : Users \cup Keys \cup {Nobody}, is_admin : BOOLEAN]]
         /\ late' \in [Calls -> BOOLEAN]
<1> USE DEF Access!AccessInputs, AccessInv, Access!TypeOK, Access!Leave
<1>1. CallsAreSound'
  BY DEF CallsAreSound
<1>2. Access!NoRow \in Access!KeyRows
  BY DEF Access!NoRow, Access!KeyRows
<1>3. Access!Anonymous \in [id : Users \cup Keys \cup {Nobody}, is_admin : BOOLEAN]
  BY DEF Access!Anonymous
<1> QED
  BY <1>1, <1>2, <1>3

(* The steps of a request preserve the invariant. *)
LEMMA AccessRequest ==
  ASSUME Access!AccessInputs, AccessInv, NEW r \in Calls,
         \/ \E t \in tokens : Access!PresentToken(r, t)
         \/ \E k \in Keys : Access!PresentKey(r, k)
         \/ \E k \in Keys : Access!Commit(r, k)
         \/ Access!GetUser(r) \/ Access!Touch(r) \/ Access!CreateApiKey(r)
         \/ Access!AnswerKey(r) \/ Access!EndRequest(r)
  PROVE  AccessInv'
<1> USE DEF Access!AccessInputs, AccessInv
<1>1. CASE \E t \in tokens : Access!PresentToken(r, t)
  <2> PICK t \in tokens : Access!PresentToken(r, t)
    BY <1>1
  <2>1. Access!TypeOK'
    BY DEF Access!TypeOK, Access!PresentToken, Access!ComeIn
  <2>2. CallsAreSound'
    BY DEF Access!TypeOK, CallsAreSound, Access!PresentToken, Access!ComeIn
  <2>3. RowsAreSound'
    BY DEF RowsAreSound, Access!PresentToken
  <2> QED
    BY <2>1, <2>2, <2>3
<1>2. CASE \E k \in Keys : Access!PresentKey(r, k)
  <2> PICK k \in Keys : Access!PresentKey(r, k)
    BY <1>2
  <2>1. Access!TypeOK'
    BY DEF Access!TypeOK, Access!PresentKey, Access!ComeIn
  <2>2. k \notin revoked
    BY DEF Access!PresentKey, RowsAreSound
  <2>3. CallsAreSound'
    BY <2>2 DEF Access!TypeOK, CallsAreSound, Access!PresentKey, Access!ComeIn
  <2>4. RowsAreSound'
    BY DEF RowsAreSound, Access!PresentKey
  <2> QED
    BY <2>1, <2>3, <2>4
<1>3. CASE \E k \in Keys : Access!Commit(r, k)
  <2> PICK k \in Keys : Access!Commit(r, k)
    BY <1>3
  <2>1. Access!TypeOK'
    BY DEF Access!TypeOK, Access!KeyRows, Access!Commit
  <2>2. CallsAreSound'
    BY DEF Access!TypeOK, CallsAreSound, Access!Commit
  <2>3. RowsAreSound'
    BY DEF Access!TypeOK, Access!KeyRows, RowsAreSound, Access!Commit
  <2> QED
    BY <2>1, <2>2, <2>3
<1>4. CASE Access!GetUser(r)
  <2>1. credential[r] \in Users
    BY <1>4 DEF Access!GetUser, CallsAreSound
  <2>2. CASE users[credential[r]].is_active
    <3>1. Access!Admit(r, credential[r], users[credential[r]].is_admin)
          /\ UNCHANGED <<credential, read, late>>
      BY <1>4, <2>2 DEF Access!GetUser
    <3>2. Access!TypeOK'
      BY <1>4, <2>1, <3>1 DEF Access!TypeOK, Access!GetUser, Access!Admit
    <3>3. ~late[r]
      BY <1>4, <2>1, <2>2 DEF CallsAreSound, RowsAreSound, Access!TypeOK
    <3>4. CallsAreSound'
      BY <1>4, <3>1, <3>3 DEF Access!TypeOK, CallsAreSound, Access!GetUser, Access!Admit
    <3>5. RowsAreSound'
      BY <1>4 DEF RowsAreSound, Access!GetUser
    <3> QED
      BY <3>2, <3>4, <3>5
  <2>3. CASE ~users[credential[r]].is_active
    <3>1. Access!Leave(r) /\ UNCHANGED <<clock, users, keys, tokens, told, revoked>>
      BY <1>4, <2>3 DEF Access!GetUser
    <3>2. Access!TypeOK' /\ CallsAreSound'
      BY <3>1, AccessLeave DEF Access!TypeOK
    <3>3. RowsAreSound'
      BY <3>1 DEF RowsAreSound
    <3> QED
      BY <3>2, <3>3
  <2> QED
    BY <2>2, <2>3
<1>5. CASE Access!Touch(r)
  <2>1. credential[r] \in Keys
    BY <1>5 DEF Access!Touch, CallsAreSound
  <2>2. Access!TypeOK'
    <3>1. keys' \in [Keys -> Access!KeyRows]
      BY <1>5, <2>1 DEF Access!TypeOK, Access!KeyRows, Access!Touch
    <3>2. /\ step' \in [Calls -> {"idle", "get_user", "touch", "admitted", "commit", "refresh"}]
          /\ principal' \in [Calls -> [id : Users \cup Keys \cup {Nobody}, is_admin : BOOLEAN]]
      BY <1>5, <2>1 DEF Access!TypeOK, Access!Touch, Access!Admit
    <3> QED
      BY <1>5, <3>1, <3>2 DEF Access!TypeOK, Access!KeyRows, Access!Touch
  <2>3. CallsAreSound'
    BY <1>5 DEF Access!TypeOK, CallsAreSound, Access!Touch, Access!Admit
  <2>4. RowsAreSound'
    BY <1>5, <2>1 DEF Access!TypeOK, Access!KeyRows, RowsAreSound, Access!Touch
  <2> QED
    BY <2>2, <2>3, <2>4
<1>6. CASE Access!CreateApiKey(r)
  <2>1. Access!TypeOK'
    BY <1>6 DEF Access!TypeOK, Access!CreateApiKey
  <2>2. CallsAreSound'
    BY <1>6 DEF Access!TypeOK, CallsAreSound, Access!CreateApiKey
  <2>3. RowsAreSound'
    BY <1>6 DEF RowsAreSound, Access!CreateApiKey
  <2> QED
    BY <2>1, <2>2, <2>3
<1>7. CASE Access!AnswerKey(r)
  <2>1. credential[r] \in Keys
    BY <1>7 DEF Access!AnswerKey, CallsAreSound
  <2>2. Access!TypeOK' /\ CallsAreSound'
    BY <1>7, <2>1, AccessLeave DEF Access!TypeOK, Access!AnswerKey
  <2>3. RowsAreSound'
    BY <1>7 DEF RowsAreSound, Access!AnswerKey
  <2> QED
    BY <2>2, <2>3
<1>8. CASE Access!EndRequest(r)
  <2>1. Access!TypeOK' /\ CallsAreSound'
    BY <1>8, AccessLeave DEF Access!TypeOK, Access!EndRequest
  <2>2. RowsAreSound'
    BY <1>8 DEF RowsAreSound, Access!EndRequest
  <2> QED
    BY <2>1, <2>2
<1> QED
  BY <1>1, <1>2, <1>3, <1>4, <1>5, <1>6, <1>7, <1>8

(* So do logins, time and the operator. *)
LEMMA AccessNext ==
  ASSUME Access!AccessInputs, AccessInv, [Access!Next]_(Access!vars)
  PROVE  AccessInv'
<1> USE DEF Access!AccessInputs, AccessInv
<1>1. CASE UNCHANGED Access!vars
  BY <1>1 DEF Access!vars, Access!session, Access!TypeOK, CallsAreSound, RowsAreSound
<1>2. CASE Access!Tick
  BY <1>2 DEF Access!Tick, Access!session, Access!TypeOK, Access!KeyRows, CallsAreSound,
     RowsAreSound
<1>3. ASSUME NEW u \in Users, Access!Authenticate(u)
      PROVE  AccessInv'
  <2>1. Access!TypeOK'
    BY <1>3 DEF Access!Authenticate, Access!session, Access!TypeOK
  <2>2. CallsAreSound' /\ RowsAreSound'
    BY <1>3 DEF Access!Authenticate, Access!session, CallsAreSound, RowsAreSound
  <2> QED
    BY <2>1, <2>2
<1>4. ASSUME NEW u \in Users, Access!DeactivateUser(u)
      PROVE  AccessInv'
  <2>1. Access!TypeOK'
    BY <1>4 DEF Access!DeactivateUser, Access!session, Access!TypeOK
  <2>2. CallsAreSound'
    BY <1>4 DEF Access!DeactivateUser, Access!session, CallsAreSound
  <2>3. RowsAreSound'
    BY <1>4 DEF Access!DeactivateUser, Access!TypeOK, RowsAreSound
  <2> QED
    BY <2>1, <2>2, <2>3
<1>5. ASSUME NEW u \in Users, Access!Demote(u)
      PROVE  AccessInv'
  <2>1. Access!TypeOK'
    BY <1>5 DEF Access!Demote, Access!session, Access!TypeOK
  <2>2. CallsAreSound'
    BY <1>5 DEF Access!Demote, Access!session, CallsAreSound
  <2>3. RowsAreSound'
    BY <1>5 DEF Access!Demote, Access!TypeOK, RowsAreSound
  <2> QED
    BY <2>1, <2>2, <2>3
<1>6. ASSUME NEW k \in Keys, Access!DeactivateKey(k)
      PROVE  AccessInv'
  <2>1. Access!TypeOK'
    BY <1>6 DEF Access!DeactivateKey, Access!session, Access!TypeOK, Access!KeyRows
  <2>2. CallsAreSound'
    BY <1>6 DEF Access!DeactivateKey, Access!session, CallsAreSound
  <2>3. RowsAreSound'
    BY <1>6 DEF Access!DeactivateKey, Access!TypeOK, Access!KeyRows, RowsAreSound
  <2> QED
    BY <2>1, <2>2, <2>3
<1> QED
  BY <1>1, <1>2, <1>3, <1>4, <1>5, <1>6, AccessRequest DEF Access!Next

(* Without an administrator no step makes one or makes a key: only a user's *)
(* own row gives rights, and only a request that has them comes to Access!Commit.  *)
LEMMA RightsStep ==
  ASSUME Access!AccessInputs, AccessInv, Access!NoAdministrator, Access!Next
  PROVE  Access!NoAdministrator' /\ \A k \in Keys : keys'[k].made = keys[k].made
<1> USE DEF Access!AccessInputs, AccessInv
<1>1. ASSUME NEW r \in Calls, Access!Leave(r), UNCHANGED <<users, keys>>
      PROVE  Access!NoAdministrator'
  BY <1>1 DEF Access!TypeOK, Access!NoAdministrator, Access!Leave, Access!Anonymous
<1>2. CASE Access!Tick
  BY <1>2 DEF Access!Tick, Access!NoAdministrator, Access!session
<1>3. ASSUME NEW u \in Users, Access!Authenticate(u) \/ Access!DeactivateUser(u) \/ Access!Demote(u)
      PROVE  Access!NoAdministrator' /\ UNCHANGED keys
  <2>1. CASE Access!Authenticate(u)
    BY <2>1 DEF Access!Authenticate, Access!NoAdministrator, Access!session
  <2>2. CASE Access!DeactivateUser(u)
    <3>1. \A v \in Users : users'[v].is_active => users[v].is_active
      BY <2>2 DEF Access!TypeOK, Access!DeactivateUser
    <3>2. \A v \in Users : users'[v].is_admin = users[v].is_admin
      BY <2>2 DEF Access!TypeOK, Access!DeactivateUser
    <3> QED
      BY <2>2, <3>1, <3>2 DEF Access!DeactivateUser, Access!NoAdministrator, Access!session
  <2>3. CASE Access!Demote(u)
    <3>1. \A v \in Users : users'[v].is_admin => users[v].is_admin
      BY <2>3 DEF Access!TypeOK, Access!Demote
    <3>2. \A v \in Users : users'[v].is_active = users[v].is_active
      BY <2>3 DEF Access!TypeOK, Access!Demote
    <3> QED
      BY <2>3, <3>1, <3>2 DEF Access!Demote, Access!NoAdministrator, Access!session
  <2> QED
    BY <1>3, <2>1, <2>2, <2>3
<1>4. ASSUME NEW k \in Keys, Access!DeactivateKey(k)
      PROVE  Access!NoAdministrator' /\ \A j \in Keys : keys'[j].made = keys[j].made
  BY <1>4 DEF Access!TypeOK, Access!KeyRows, Access!DeactivateKey, Access!NoAdministrator,
     Access!session
<1>5. ASSUME NEW r \in Calls
      PROVE  /\ \A t \in tokens :
                  Access!PresentToken(r, t) => Access!NoAdministrator' /\ UNCHANGED keys
             /\ \A k \in Keys :
                  Access!PresentKey(r, k) => Access!NoAdministrator' /\ UNCHANGED keys
             /\ \A k \in Keys : ~Access!Commit(r, k)
  BY DEF Access!PresentToken, Access!PresentKey, Access!Commit, Access!NoAdministrator,
     CallsAreSound
<1>6. ASSUME NEW r \in Calls, Access!GetUser(r)
      PROVE  Access!NoAdministrator' /\ UNCHANGED keys
  <2>1. credential[r] \in Users
    BY <1>6 DEF Access!GetUser, CallsAreSound
  <2>2. CASE users[credential[r]].is_active
    <3>1. ~users[credential[r]].is_admin
      BY <2>1, <2>2 DEF Access!NoAdministrator
    <3>2. principal' = [principal EXCEPT ![r] = [id |-> credential[r],
                                                 is_admin |-> users[credential[r]].is_admin]]
      BY <1>6, <2>2 DEF Access!GetUser, Access!Admit
    <3> QED
      BY <1>6, <3>1, <3>2 DEF Access!GetUser, Access!NoAdministrator, Access!TypeOK
  <2>3. CASE ~users[credential[r]].is_active
    BY <1>1, <1>6, <2>3 DEF Access!GetUser
  <2> QED
    BY <2>2, <2>3
<1>7. ASSUME NEW r \in Calls, Access!Touch(r)
      PROVE  Access!NoAdministrator' /\ \A j \in Keys : keys'[j].made = keys[j].made
  BY <1>7 DEF Access!Touch, Access!Admit, Access!NoAdministrator, Access!TypeOK, Access!KeyRows
<1>8. ASSUME NEW r \in Calls, Access!CreateApiKey(r) \/ Access!AnswerKey(r) \/ Access!EndRequest(r)
      PROVE  Access!NoAdministrator' /\ UNCHANGED keys
  BY <1>1, <1>8 DEF Access!CreateApiKey, Access!AnswerKey, Access!EndRequest, Access!NoAdministrator
<1> QED
  BY <1>2, <1>3, <1>4, <1>5, <1>6, <1>7, <1>8 DEF Access!Next

(* Hence it holds of every behaviour. *)
LEMMA AccessHolds == Access!Spec => []AccessInv
<1>1. Access!Init => AccessInv
  BY AccessInit, InputsAssumption
<1>2. AccessInv /\ [Access!Next]_(Access!vars) => AccessInv'
  BY AccessNext, InputsAssumption
<1> QED
  BY <1>1, <1>2, PTL DEF Access!Spec

-----------------------------------------------------------------------------
(* The authentication keeps its types: a session holds what its statement   *)
(* needs.                                                                   *)
THEOREM AccessIsTyped == Access!Spec => []Access!TypeOK
<1>1. AccessInv => Access!TypeOK
  BY DEF AccessInv
<1> QED
  BY <1>1, AccessHolds, PTL

(* For any users, keys and requests: a request that comes in with what the  *)
(* operator has deactivated is never let through (get_principal_from_token, *)
(* get_principal_from_api_key and its commit of last_used_at).              *)
THEOREM AccessEnds == Access!Spec => []RevokedAreOut
<1>1. AccessInv => RevokedAreOut
  BY DEF AccessInv, CallsAreSound, RevokedAreOut, Access!RevokedAreOut, Access!Admitted
<1> QED
  BY <1>1, AccessHolds, PTL

(* For any users, keys and requests: without an administrator, and without  *)
(* a request of one, there is never one again, nor a new API key.           *)
THEOREM AccessStaysAway == Access!Spec => NoRightsReturn
<1>1. AccessInv /\ [Access!Next]_(Access!vars) =>
        [Access!NoAdministrator =>
           Access!NoAdministrator' /\ \A k \in Keys : keys'[k].made = keys[k].made]_(Access!vars)
  BY RightsStep, InputsAssumption
<1> QED
  BY <1>1, AccessHolds, PTL DEF Access!Spec, NoRightsReturn, Access!NoRightsReturn

-----------------------------------------------------------------------------
(* The types.  First, the builder. *)
(* The values a request gives, and the template's. *)
ValuesOf(r) ==
  {Original} \cup {Parameter(p) : p \in r.given} \cup {Lora(k) : k \in 1..r.loras}
  \cup {Extra(k) : k \in {m \in DOMAIN r.extras : r.extras[m].given}}

OnlyFrom(inputs, r) == \A x \in DOMAIN inputs : inputs[x] \in ValuesOf(r)

(* Nothing but these values is in the clone, and only nodes are collected.  *)
BuilderTypes ==
  /\ template \in Templates /\ request \in Requests
  /\ DOMAIN graph \in {{}, Nodes}
  /\ \A n \in DOMAIN graph : OnlyFrom(graph[n], request)
  /\ text_nodes \in Seq(Nodes) /\ lora_nodes \in Seq(Nodes)

(* Inputs written over others hold no other values. *)
LEMMA OverOnlyFrom ==
  ASSUME NEW r, NEW inputs, NEW f, OnlyFrom(inputs, r), OnlyFrom(f, r)
  PROVE  OnlyFrom(Over(inputs, f), r)
  BY DEF OnlyFrom, Over

(* A turn that writes into one node keeps the types of the clone. *)
LEMMA WritesOne ==
  ASSUME BuilderTypes, NEW m, NEW f, OnlyFrom(f, request), UNCHANGED <<template, request>>,
         graph' = [graph EXCEPT ![m] = Over(@, f)]
  PROVE  /\ DOMAIN graph' \in {{}, Nodes'}
         /\ \A n \in DOMAIN graph' : OnlyFrom(graph'[n], request')
<1>1. /\ DOMAIN graph' = DOMAIN graph /\ Nodes' = Nodes
      /\ \A n \in DOMAIN graph : graph'[n] = IF n = m THEN Over(graph[m], f) ELSE graph[n]
  BY DEF Nodes
<1> QED
  BY <1>1, OverOnlyFrom DEF BuilderTypes

(* Whatever stays as it is keeps the types. *)
LEMMA KeepsGraph ==
  ASSUME BuilderTypes, UNCHANGED <<template, request, graph>>
  PROVE  /\ DOMAIN graph' \in {{}, Nodes'}
         /\ \A n \in DOMAIN graph' : OnlyFrom(graph'[n], request')
  BY DEF BuilderTypes, Nodes

(* So does a value of the request for an input that is addressed by name. *)
LEMMA SetInputTypes ==
  ASSUME BuilderTypes, UNCHANGED <<template, request>>, NEW n, NEW input, NEW value,
         SetInput(n, input, value), value \in ValuesOf(request)
  PROVE  /\ DOMAIN graph' \in {{}, Nodes'}
         /\ \A m \in DOMAIN graph' : OnlyFrom(graph'[m], request')
<1>1. CASE graph' = [graph EXCEPT ![n] = Over(@, Entry(input, value))]
  <2>1. OnlyFrom(Entry(input, value), request)
    BY DEF OnlyFrom, Entry
  <2> QED
    BY <1>1, <2>1, WritesOne
<1>2. CASE UNCHANGED graph
  BY <1>2, KeepsGraph
<1> QED
  BY <1>1, <1>2 DEF SetInput, Fail

(* The conventions write parameters that are given. *)
LEMMA ConventionalOnly ==
  ASSUME NEW class, NEW inputs
  PROVE  OnlyFrom(Conventional(class, inputs), request)
<1> DEFINE given == {c \in Conventions : /\ c[1] = class /\ c[2][2] \in request.given
                                         /\ c[2][1] \in inputs}
<1>1. Conventional(class, inputs) =
        [x \in {c[2][1] : c \in given} |->
           Parameter((CHOOSE c \in given : c[2][1] = x)[2][2])]
  BY DEF Conventional
<1>2. \A c \in given : c[2][2] \in request.given
  OBVIOUS
<1> HIDE DEF given
<1>3. ASSUME NEW x \in {c[2][1] : c \in given}
      PROVE  Parameter((CHOOSE c \in given : c[2][1] = x)[2][2]) \in ValuesOf(request)
  <2> DEFINE d == CHOOSE c \in given : c[2][1] = x
  <2>1. d \in given
    BY <1>3
  <2> HIDE DEF d
  <2>2. d[2][2] \in request.given
    BY <1>2, <2>1
  <2>3. Parameter(d[2][2]) \in ValuesOf(request)
    BY <2>2 DEF ValuesOf
  <2> QED
    BY <2>3 DEF d
<1> DEFINE F(x) == Parameter((CHOOSE c \in given : c[2][1] = x)[2][2])
           S == {c[2][1] : c \in given}
<1>4. Conventional(class, inputs) = [x \in S |-> F(x)] /\ \A x \in S : F(x) \in ValuesOf(request)
  BY <1>1, <1>3
<1> HIDE DEF F, S
<1> QED
  BY <1>4 DEF OnlyFrom

(* So do the prompts: there is always one, the negative one only if given. *)
LEMMA TextOnly ==
  ASSUME WorkflowInputs, request \in Requests, NEW n
  PROVE  OnlyFrom(TextOf(n), request)
<1>1. Parameter("prompt") \in ValuesOf(request)
  BY DEF WorkflowInputs, ValuesOf
<1>2. "negative_prompt" \in request.given => Parameter("negative_prompt") \in ValuesOf(request)
  BY DEF ValuesOf
<1>3. \A v \in ValuesOf(request) : OnlyFrom(Entry("text", v), request)
  BY DEF OnlyFrom, Entry
<1>4. OnlyFrom(<<>>, request)
  BY DEF OnlyFrom
<1> QED
  BY <1>1, <1>2, <1>3, <1>4 DEF TextOf

(* No turn of a loop writes anything else or collects what is no node. *)
LEMMA TypesNext ==
  ASSUME WorkflowInputs, Shapes, Progress, CloneInv, BuilderTypes, [Next]_vars
  PROVE  BuilderTypes'
<1>1. UNCHANGED <<template, request>> /\ Nodes' = Nodes
  BY ShapesNext DEF Nodes
<1>2. template' \in Templates /\ request' \in Requests
  BY <1>1 DEF BuilderTypes
<1> DEFINE CloneTyped == /\ DOMAIN graph \in {{}, Nodes}
                         /\ \A n \in DOMAIN graph : OnlyFrom(graph[n], request)
           ListsTyped == text_nodes \in Seq(Nodes) /\ lora_nodes \in Seq(Nodes)
<1>3. ASSUME UNCHANGED <<text_nodes, lora_nodes>>
      PROVE  ListsTyped'
  BY <1>1, <1>3 DEF BuilderTypes
<1>4. ASSUME UNCHANGED graph
      PROVE  CloneTyped'
  BY <1>1, <1>4, KeepsGraph
<1>5. CASE UNCHANGED vars
  BY <1>2, <1>3, <1>4, <1>5 DEF vars, BuilderTypes
<1>6. CASE LoadFails \/ EndMapping \/ Finish
  BY <1>2, <1>3, <1>4, <1>6 DEF LoadFails, EndMapping, Finish, BuilderTypes
<1>7. CASE Load
  <2>1. graph' = [n \in Nodes |-> [x \in template.nodes[n].inputs |-> Original]]
    BY <1>7 DEF Load
  <2>2. \A n \in Nodes : OnlyFrom([x \in template.nodes[n].inputs |-> Original], request)
    BY DEF OnlyFrom, ValuesOf
  <2>3. CloneTyped'
    BY <1>1, <2>1, <2>2
  <2> QED
    BY <1>2, <1>3, <1>7, <2>3 DEF Load, BuilderTypes
<1>8. CASE SetMappedValue
  <2> DEFINE t == template.targets[i]
  <2>1. CASE UNCHANGED graph
    BY <1>2, <1>3, <1>4, <1>8, <2>1 DEF SetMappedValue, BuilderTypes
  <2>2. CASE t.parameter \in request.given /\ SetInput(t.node, t.input, Parameter(t.parameter))
    <3>1. Parameter(t.parameter) \in ValuesOf(request)
      BY <2>2 DEF ValuesOf
    <3> HIDE DEF t
    <3>2. CloneTyped'
      BY <1>1, <2>2, <3>1, SetInputTypes
    <3> QED
      BY <1>2, <1>3, <1>8, <3>2 DEF SetMappedValue, BuilderTypes
  <2> QED
    BY <1>8, <2>1, <2>2 DEF SetMappedValue, Skip, Fail
<1>9. CASE VisitNode
  <2>1. CASE IsDict(i) /\ HasInputs(i)
    <3>1. /\ graph' = [graph EXCEPT ![i] = Over(@, Conventional(Class(i), DOMAIN @))]
          /\ i \in Nodes
          /\ text_nodes' = IF IsText(Class(i)) THEN Append(text_nodes, i) ELSE text_nodes
          /\ lora_nodes' = IF Class(i) = "LoraLoader" THEN Append(lora_nodes, i) ELSE lora_nodes
      BY <1>9, <2>1 DEF VisitNode
    <3> DEFINE f == Conventional(Class(i), DOMAIN graph[i])
    <3>2. graph' = [graph EXCEPT ![i] = Over(@, f)]
      BY <3>1
    <3>3. OnlyFrom(f, request)
      BY ConventionalOnly
    <3> HIDE DEF f
    <3>4. CloneTyped'
      BY <1>1, <3>2, <3>3, WritesOne
    <3>5. text_nodes \in Seq(Nodes) /\ lora_nodes \in Seq(Nodes)
      BY DEF BuilderTypes
    <3>6. Append(text_nodes, i) \in Seq(Nodes) /\ Append(lora_nodes, i) \in Seq(Nodes)
      BY <3>1, <3>5, AppendProperties
    <3>7. ListsTyped'
      BY <1>1, <3>1, <3>5, <3>6
    <3> QED
      BY <1>2, <3>4, <3>7 DEF BuilderTypes
  <2>2. CASE ~(IsDict(i) /\ HasInputs(i))
    BY <1>2, <1>3, <1>4, <1>9, <2>2 DEF VisitNode, Skip, Fail, BuilderTypes
  <2> QED
    BY <2>1, <2>2
<1>10. CASE InjectText
  <2>1. /\ graph' = [n \in Nodes |-> Over(graph[n], TextOf(n))]
        /\ DOMAIN graph = Nodes
    BY <1>10 DEF InjectText, CloneInv
  <2>2. \A n \in Nodes : OnlyFrom(graph[n], request) /\ OnlyFrom(TextOf(n), request)
    BY <2>1, TextOnly DEF BuilderTypes
  <2>3. \A n \in Nodes : OnlyFrom(Over(graph[n], TextOf(n)), request)
    BY <2>2, OverOnlyFrom
  <2>4. CloneTyped'
    BY <1>1, <2>1, <2>3
  <2> QED
    BY <1>2, <1>3, <1>10, <2>4 DEF InjectText, BuilderTypes
<1>11. CASE InjectLora
  <2>1. CASE UNCHANGED graph
    BY <1>2, <1>3, <1>4, <1>11, <2>1 DEF InjectLora, BuilderTypes
  <2>2. CASE graph' = [graph EXCEPT ![lora_nodes[i]] = Over(@, [x \in LoraInputs |-> Lora(i)])]
    <3>1. i \in 1..request.loras
      BY <1>11, Sequenced DEF InjectLora, Shapes
    <3>2. OnlyFrom([x \in LoraInputs |-> Lora(i)], request)
      BY <3>1 DEF OnlyFrom, ValuesOf
    <3>3. CloneTyped'
      BY <1>1, <2>2, <3>2, WritesOne
    <3> QED
      BY <1>2, <1>3, <1>11, <3>3 DEF InjectLora, BuilderTypes
  <2> QED
    BY <1>11, <2>1, <2>2 DEF InjectLora, Fail
<1>12. CASE InjectExtra
  <2> DEFINE e == request.extras[i]
  <2>1. CASE UNCHANGED graph
    BY <1>2, <1>3, <1>4, <1>12, <2>1 DEF InjectExtra, BuilderTypes
  <2>2. CASE e.given /\ SetInput(e.node, e.input, Extra(i))
    <3>1. i \in DOMAIN request.extras
      BY <1>12, Sequenced DEF InjectExtra, Shapes
    <3>2. Extra(i) \in ValuesOf(request)
      BY <2>2, <3>1 DEF ValuesOf
    <3> HIDE DEF e
    <3>3. CloneTyped'
      BY <1>1, <2>2, <3>2, SetInputTypes
    <3> QED
      BY <1>2, <1>3, <1>12, <3>3 DEF InjectExtra, BuilderTypes
  <2> QED
    BY <1>12, <2>1, <2>2 DEF InjectExtra, Skip, Fail
<1> QED
  BY <1>5, <1>6, <1>7, <1>8, <1>9, <1>10, <1>11, <1>12 DEF Next

(* For any templates and parameters: every value in the clone is the        *)
(* template's or one the request gives, so None is never written.           *)
THEOREM BuilderIsTyped == Spec => []TypeOK
<1> USE InputsAssumption
<1>1. Init => CloneInv /\ BuilderTypes
  <2>1. Init => DOMAIN graph = {} /\ text_nodes = <<>> /\ lora_nodes = <<>>
    BY DEF Init
  <2> QED
    BY <2>1 DEF Init, CloneInv, BuilderTypes
<1>2. Shapes /\ Progress /\ CloneInv /\ BuilderTypes /\ [Next]_vars => (CloneInv /\ BuilderTypes)'
  BY CloneNext, TypesNext
<1>3. Shapes /\ BuilderTypes => TypeOK
  BY DEF Shapes, BuilderTypes, TypeOK, OnlyFrom, ValuesOf
<1> QED
  BY <1>1, <1>2, <1>3, ProgressHolds, PTL DEF Spec

-----------------------------------------------------------------------------
(* The bounds of the listing, and its page, which no limit is exceeded by.  *)
ListingBounds ==
  /\ writes \in 0..MaxWrites /\ repeats \in 0..MaxRepeats
  /\ Len(page) <= query.limit

(* A window has no more records than its limit, in whatever order they are. *)
LEMMA WindowFits ==
  ASSUME ScanInv, NEW offset \in Nat, NEW limit \in Nat
  PROVE  Len(Listing!Window(offset, limit)) <= limit
<1> DEFINE N == Len(jobs)
           start == Listing!AtMost(offset, N)
           end == Listing!AtMost(start + limit, N)
           S == {Listing!Sorted[n] : n \in start + 1..end}
<1>1. N \in Nat
  BY DEF ScanInv
<1>2. start \in Nat /\ end \in Nat /\ start <= end /\ end <= start + limit
  BY <1>1 DEF Listing!AtMost
<1>3. SubSeq(Listing!Sorted, start + 1, end) = Listing!Window(offset, limit)
  BY DEF Listing!Window
<1>4. \A n \in start + 1..end : Listing!Sorted[n] \in S
  OBVIOUS
<1> HIDE DEF start, end, S
<1>5. start + 1 \in Int /\ end \in Int
  BY <1>2
<1>6. Len(SubSeq(Listing!Sorted, start + 1, end)) =
        IF start + 1 <= end THEN end - (start + 1) + 1 ELSE 0
  BY <1>4, <1>5, SubSeqProperties
<1> QED
  BY <1>2, <1>3, <1>6

(* Every step of the listing stays within the bounds. *)
LEMMA BoundsNext ==
  ASSUME ListingInputs, ScanInv, ListingBounds, [Listing!Next]_(Listing!vars)
  PROVE  ListingBounds'
<1>1. CASE UNCHANGED Listing!vars
  BY <1>1 DEF Listing!vars, Listing!scanning, ListingBounds
<1>2. ASSUME NEW q \in Queries, Listing!StartScan(q), UNCHANGED <<writes, repeats>>
      PROVE  ListingBounds'
  <2>1. page' = <<>> /\ query' = q /\ q.limit \in Nat
    BY <1>2 DEF Listing!StartScan, Queries
  <2>2. Len(page') <= query'.limit
    BY <2>1
  <2> QED
    BY <1>2, <2>2 DEF ListingBounds
<1>3. CASE Listing!FirstRequest
  <2>1. PICK q \in Queries : Listing!StartScan(q)
    BY <1>3 DEF Listing!FirstRequest, Queries, ListingInputs
  <2> QED
    BY <1>2, <1>3, <2>1 DEF Listing!FirstRequest
<1>4. CASE Listing!NextPage
  <2> DEFINE q == [query EXCEPT !.offset = @ + query.limit]
  <2>1. q \in Queries
    BY DEF ScanInv, Queries
  <2>2. Listing!StartScan(q) /\ UNCHANGED <<writes, repeats>>
    BY <1>4 DEF Listing!NextPage
  <2> HIDE DEF q
  <2> QED
    BY <1>2, <2>1, <2>2
<1>5. CASE Listing!Scan
  <2>1. PICK found \in SUBSET {j \in Jobs : Listing!Exists(j)} :
          /\ repeats + Cardinality(found \cap returned) <= MaxRepeats
          /\ repeats' = repeats + Cardinality(found \cap returned)
    BY <1>5, ListingCounts DEF Listing!Scan
  <2>2. Cardinality(found \cap returned) \in Nat
    BY FiniteJobs
  <2>3. repeats' \in 0..MaxRepeats
    BY <2>1, <2>2 DEF ListingBounds, ListingInputs
  <2> QED
    BY <1>5, <2>3 DEF Listing!Scan, ListingBounds
<1>6. CASE \E j \in Jobs : Listing!Read(j)
  BY <1>6 DEF Listing!Read, ListingBounds
<1>7. CASE Listing!Answer
  <2>1. page' = Listing!Window(query.offset, query.limit)
        /\ UNCHANGED <<writes, repeats, query>>
    BY <1>7 DEF Listing!Answer, Listing!scanning
  <2>2. query.offset \in Nat /\ query.limit \in Nat
    BY DEF ScanInv, Queries
  <2>3. Len(page') <= query.limit
    BY <2>1, <2>2, WindowFits
  <2> QED
    BY <2>1, <2>3 DEF ListingBounds
<1>8. CASE Listing!AnswerCounts
  BY <1>8 DEF Listing!AnswerCounts, Listing!scanning, ListingBounds
<1>9. ASSUME NEW j \in Jobs, NEW rec \in Listing!Records \cup {NoJob}, Listing!Change(j, rec)
      PROVE  ListingBounds'
  <2>1. writes < MaxWrites /\ writes' = writes + 1 /\ UNCHANGED <<repeats, page, query>>
    BY <1>9 DEF Listing!Change, Listing!scanning
  <2> QED
    BY <2>1 DEF ListingBounds, ListingInputs
<1> QED
  BY <1>1, <1>3, <1>4, <1>5, <1>6, <1>7, <1>8, <1>9 DEF Listing!Next

(* The listing keeps its types: what is read are jobs of the store, and a   *)
(* page has no more of them than its limit, however often SCAN repeats.     *)
THEOREM ListingIsTyped == Listing!Spec => []Listing!TypeOK
<1> USE InputsAssumption
<1>1. Listing!Init => ScanInv /\ ListingBounds
  <2> SUFFICES ASSUME Listing!Init PROVE ScanInv /\ ListingBounds
    OBVIOUS
  <2>1. page = <<>> /\ query.limit = 0
    BY DEF Listing!Init
  <2>2. Len(page) <= query.limit
    BY <2>1
  <2>3. writes \in 0..MaxWrites /\ repeats \in 0..MaxRepeats
    BY DEF ListingInputs, Listing!Init
  <2> QED
    BY <2>2, <2>3, ScanInit DEF ListingBounds
<1>2. ScanInv /\ ListingBounds /\ [Listing!Next]_(Listing!vars) => (ScanInv /\ ListingBounds)'
  BY ScanNext, BoundsNext
<1>3. ScanInv /\ ListingBounds => Listing!TypeOK
  <2> SUFFICES ASSUME ScanInv, ListingBounds PROVE Listing!TypeOK
    OBVIOUS
  <2>1. \A k \in DOMAIN jobs : jobs[k].id \in Jobs /\ jobs[k].rec \in Listing!Records
    <3>1. jobs \in Seq(JobsRead)
      BY DEF ScanInv
    <3>2. \A k \in DOMAIN jobs : jobs[k] \in JobsRead
      BY <3>1
    <3> QED
      BY <3>2 DEF JobsRead
  <2>2. query.status \in Statuses \cup {AnyStatus}
    BY DEF ScanInv, Queries
  <2> QED
    BY <2>1, <2>2 DEF ScanInv, ListingBounds, Listing!TypeOK
<1> QED
  BY <1>1, <1>2, <1>3, PTL DEF Listing!Spec

-----------------------------------------------------------------------------
(* The lines are the ones asked for, the answer is of the file. *)
AnswerTyped ==
  /\ lines \in Lines
  /\ selected \subseteq 1..Len(file)
  /\ truncated \in BOOLEAN

(* A step of the handler, or a line that is logged, keeps them. *)
LEMMA AnswerNext ==
  ASSUME TailBase, AnswerTyped, [Log!Next]_(Log!vars)
  PROVE  AnswerTyped'
<1>1. CASE Log!Log
  <2>1. PICK c \in Characters : file' = Append(file, c)
    BY <1>1 DEF Log!Log, Characters
  <2>2. Len(file') = Len(file) + 1 /\ Len(file) \in Nat
    BY <2>1 DEF TailBase
  <2> QED
    BY <1>1, <2>2 DEF Log!Log, Log!tail, Log!answer, AnswerTyped
<1>2. CASE Log!Answer
  <2>1. selected' \subseteq read_pos + 1..file_size
    BY <1>2 DEF Log!Answer, Log!Last, Log!splitlines
  <2>2. read_pos + 1..file_size \subseteq 1..Len(file)
    BY DEF TailBase
  <2>3. truncated' \in BOOLEAN /\ UNCHANGED <<file, lines>>
    BY <1>2 DEF Log!Answer, Log!tail
  <2> QED
    BY <2>1, <2>2, <2>3 DEF AnswerTyped
<1>3. CASE UNCHANGED Log!vars \/ Log!AnswerNothing \/ Log!Stat \/ Log!ReadChunk
  BY <1>3 DEF Log!vars, Log!AnswerNothing, Log!Stat, Log!ReadChunk, Log!tail, Log!answer,
     AnswerTyped
<1> QED
  BY <1>1, <1>2, <1>3 DEF Log!Next

(* The log tail keeps its types: what is read never passes the byte limit,  *)
(* and the answer is lines of the file.                                     *)
THEOREM TailIsTyped == Log!Spec => []Log!TypeOK
<1> USE InputsAssumption
<1>1. Log!Init => TailBase /\ Log!TailIsTail /\ AnswerTyped
  <2>1. Log!Init => TailBase /\ Log!TailIsTail
    BY DEF LogInputs, Log!Init, TailBase, Log!TailIsTail
  <2>2. Log!Init => AnswerTyped
    BY DEF Log!Init, AnswerTyped
  <2> QED
    BY <2>1, <2>2
<1>2. TailBase /\ Log!TailIsTail /\ AnswerTyped /\ [Log!Next]_(Log!vars)
        => (TailBase /\ Log!TailIsTail /\ AnswerTyped)'
  BY TailNext, AnswerNext DEF LogInputs
<1>3. TailBase /\ AnswerTyped => Log!TypeOK
  BY DEF TailBase, AnswerTyped, Log!TypeOK, Characters
<1> QED
  BY <1>1, <1>2, <1>3, PTL DEF Log!Spec

-----------------------------------------------------------------------------
(* Side by side each machine runs as it does alone. *)
LEMMA MachinesRun ==
  MachinesSpec => Spec /\ Listing!Spec /\ Log!Spec /\ Delivery!Spec /\ Access!Spec
<1>1. MachinesInit => Init /\ Listing!Init /\ Log!Init /\ Delivery!Init /\ Access!Init
  BY DEF MachinesInit
<1>2. ASSUME [MachinesNext]_all
      PROVE  /\ [Next]_vars /\ [Listing!Next]_(Listing!vars) /\ [Log!Next]_(Log!vars)
             /\ [Delivery!Next]_(Delivery!vars) /\ [Access!Next]_(Access!vars)
  <2>1. /\ UNCHANGED workflow => UNCHANGED vars
        /\ UNCHANGED listing => UNCHANGED Listing!vars
        /\ UNCHANGED log => UNCHANGED Log!vars
        /\ UNCHANGED delivery => UNCHANGED Delivery!vars
        /\ UNCHANGED access => UNCHANGED Access!vars
    BY DEF workflow, listing, log, delivery, access, Listing!vars, Listing!scanning,
       Listing!ghosts, Log!vars, Log!tail, Log!answer, Delivery!vars, Access!vars, Access!session
  <2>2. /\ Next \/ UNCHANGED workflow
        /\ Listing!Next \/ UNCHANGED listing
        /\ Log!Next \/ UNCHANGED log
        /\ Delivery!Next \/ UNCHANGED delivery
        /\ Access!Next \/ UNCHANGED access
    BY <1>2, Zenon DEF MachinesNext, all
  <2> QED
    BY <2>1, <2>2
<1> QED
  BY <1>1, <1>2, PTL DEF MachinesSpec, Spec, Listing!Spec, Log!Spec, Delivery!Spec, Access!Spec

(* So the machine that moves keeps its types, whichever it is.              *)
THEOREM MachinesAreTyped == MachinesSpec => []MachineTypeOK
<1>1. machine \in {"workflow", "listing", "log", "delivery", "access"}
        /\ TypeOK /\ Listing!TypeOK /\ Log!TypeOK /\ Delivery!TypeOK /\ Access!TypeOK
        => MachineTypeOK
  BY DEF MachineTypeOK
<1> DEFINE OneMoves == machine \in {"workflow", "listing", "log", "delivery", "access"}
<1>2. MachinesInit => OneMoves
  BY DEF MachinesInit
<1>3. OneMoves /\ [MachinesNext]_all => OneMoves'
  BY DEF MachinesNext, all
<1> QED
  BY <1>1, <1>2, <1>3, MachinesRun, BuilderIsTyped, ListingIsTyped, TailIsTyped, DeliveryIsTyped,
     AccessIsTyped, PTL DEF MachinesSpec

(* And what is proved of each machine holds of the five side by side.       *)
THEOREM MachinesKeepTheirPromises ==
  MachinesSpec => /\ [](Injected /\ FailsIffBroken)
                  /\ [](StandingJobsFound /\ PagesFit /\ TailIsTail)
                  /\ [](ParsedOutputs /\ UrlServesOutput)
                  /\ []RevokedAreOut /\ NoRightsReturn
  BY MachinesRun, BuildIsReference, BuildFailsIffBroken, StandingAreFound, PagesFitTogether,
     TailIsTheEnd, OutputsAreParsed, UrlsServeOutputs, AccessEnds, AccessStaysAway, PTL
=============================================================================
