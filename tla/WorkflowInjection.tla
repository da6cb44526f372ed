-------------------------- MODULE WorkflowInjection --------------------------
(***************************************************************************)
(* WorkflowBuilder.build (server/app/workflows): a template is loaded,     *)
(* cloned, and the request's parameters are written into the clone, by the *)
(* template's parameter map if it has one and by the classes of the nodes  *)
(* otherwise; extra parameters, which name their inputs, come last.  Each  *)
(* turn of a loop is a step; an error leaves a half-written clone.         *)
(*                                                                         *)
(* Nodes are numbered in the order of the JSON object.  What a value is    *)
(* does not matter, only where it comes from: from the template, from a    *)
(* parameter, a LoRA of the list, or an extra parameter.                   *)
(***************************************************************************)
EXTENDS Naturals, Sequences, FiniteSets

CONSTANTS
  Templates,   \* contents of template files
  Requests,    \* runtime parameters
  TextClasses  \* the classes that have CLIPTextEncode in their name

(* A node has its class and the names of its inputs.  JSON allows a node    *)
(* that is no object ("no_dict") and one whose inputs are none.  mapped     *)
(* says whether the template's parameter map is an object with an entry,    *)
(* targets lists the entries' targets, valid unless node_id or input is no  *)
(* string.                                                                  *)
TemplateFiles ==
  [nodes : Seq([class : STRING, has_inputs : BOOLEAN, inputs : SUBSET STRING]),
   mapped : BOOLEAN,
   targets : Seq([parameter : STRING, valid : BOOLEAN, node : Nat, input : STRING])]

(* The names of the parameters that are not None, the length of the list of *)
(* LoRAs, and the extra parameters, valid if the key has the form           *)
(* node_id.input.                                                           *)
RuntimeParameters ==
  [given : SUBSET STRING,
   loras : Nat,
   extras : Seq([given : BOOLEAN, valid : BOOLEAN, node : Nat, input : STRING])]

VARIABLES
  template,    \* the loaded template
  request,     \* the runtime parameters
  phase,       \* where the builder is
  i,           \* the loop's index
  graph,       \* node -> input -> value: the clone
  text_nodes,  \* nodes collected by the loop over the graph
  lora_nodes

vars == <<template, request, phase, i, graph, text_nodes, lora_nodes>>

Value(from, name, k) == [from |-> from, name |-> name, k |-> k]
Original == Value("template", "", 0)
Parameter(p) == Value("parameter", p, 0)
Lora(k) == Value("lora", "", k)
Extra(k) == Value("extra", "", k)

Nodes == DOMAIN template.nodes
IsDict(n) == template.nodes[n].class # "no_dict"
HasInputs(n) == template.nodes[n].has_inputs
Class(n) == template.nodes[n].class

(* Writing f over an inputs object; names that are missing are added. *)
Over(inputs, f) ==
  [x \in DOMAIN inputs \cup DOMAIN f |-> IF x \in DOMAIN f THEN f[x] ELSE inputs[x]]
Entry(input, value) == [x \in {input} |-> value]

-----------------------------------------------------------------------------
Init ==
  /\ template \in Templates
  /\ request \in Requests
  /\ phase = "load"
  /\ i = 1
  /\ graph = <<>>
  /\ text_nodes = <<>> /\ lora_nodes = <<>>

Enter(next) == phase' = next /\ i' = 1

(* The path is refused, no root has the file, or it is no JSON object. *)
LoadFails ==
  /\ phase = "load"
  /\ Enter("not_loaded")
  /\ UNCHANGED <<template, request, graph, text_nodes, lora_nodes>>

(* The clone of the template; an empty map counts as none. *)
Load ==
  /\ phase = "load"
  /\ graph' = [n \in Nodes |-> [x \in template.nodes[n].inputs |-> Original]]
  /\ Enter(IF template.mapped THEN "map" ELSE "nodes")
  /\ UNCHANGED <<template, request, text_nodes, lora_nodes>>

Skip == i' = i + 1 /\ UNCHANGED <<phase, graph>>
Fail == Enter("failed") /\ UNCHANGED graph

(* _get_node and _get_inputs raise for every other id. *)
Addressable(n) == n \in Nodes /\ IsDict(n) /\ HasInputs(n)

(* Writes one value into an input that is addressed by id and name. *)
SetInput(n, input, value) ==
  \/ /\ Addressable(n)
     /\ graph' = [graph EXCEPT ![n] = Over(@, Entry(input, value))]
     /\ i' = i + 1
     /\ UNCHANGED phase
  \/ ~Addressable(n) /\ Fail

(* Variant: a parameter that is None is written like another. *)
SetMappedValueAlways ==
  /\ phase = "map" /\ i <= Len(template.targets)
  /\ LET t == template.targets[i]
     IN \/ ~t.valid /\ Fail
        \/ t.valid /\ SetInput(t.node, t.input, Parameter(t.parameter))
  /\ UNCHANGED <<template, request, text_nodes, lora_nodes>>

(* A parameter that is unknown or None is passed over, targets and all. *)
SetMappedValue ==
  /\ phase = "map" /\ i <= Len(template.targets)
  /\ LET t == template.targets[i]
     IN \/ t.parameter \notin request.given /\ Skip
        \/ t.parameter \in request.given /\ ~t.valid /\ Fail
        \/ /\ t.parameter \in request.given /\ t.valid
           /\ SetInput(t.node, t.input, Parameter(t.parameter))
  /\ UNCHANGED <<template, request, text_nodes, lora_nodes>>

-----------------------------------------------------------------------------
(* The conventions: class, input and the parameter that goes there.         *)
Conventions ==
  ({"KSampler"} \X {<<"seed", "seed">>, <<"sampler_name", "sampler">>,
                    <<"scheduler", "scheduler">>, <<"steps", "steps">>,
                    <<"cfg", "cfg">>, <<"denoise", "denoise">>})
  \cup ({"EmptyLatentImage", "EmptySD3LatentImage"} \X
          {<<"width", "width">>, <<"height", "height">>, <<"batch_size", "batch_size">>})
  \cup ({"CheckpointLoaderSimple", "UNETLoader"} \X
          {<<"ckpt_name", "model">>, <<"unet_name", "model">>})
  \cup ({"LoadImage", "LoadImageMask"} \X {<<"image", "input_image">>})
  \cup ({"VHS_LoadVideo", "LoadVideo", "VideoLoader"} \X
          {<<"video", "input_video">>, <<"video_path", "input_video">>})

IsText(class) == class \in TextClasses

(* Variant: the input is added if the node lacks it. *)
ConventionalAdding(class, inputs) ==
  LET given == {c \in Conventions : c[1] = class /\ c[2][2] \in request.given}
  IN [x \in {c[2][1] : c \in given} |->
        Parameter((CHOOSE c \in given : c[2][1] = x)[2][2])]

(* _set_if_present: the inputs of a node that take a given parameter. *)
Conventional(class, inputs) ==
  LET given == {c \in Conventions : /\ c[1] = class /\ c[2][2] \in request.given
                                    /\ c[2][1] \in inputs}
  IN [x \in {c[2][1] : c \in given} |->
        Parameter((CHOOSE c \in given : c[2][1] = x)[2][2])]

VisitNode ==
  /\ phase = "nodes" /\ i \in Nodes
  /\ \/ /\ ~IsDict(i)
        /\ Skip
        /\ UNCHANGED <<text_nodes, lora_nodes>>
     \/ /\ IsDict(i) /\ ~HasInputs(i)
        /\ Fail
        /\ UNCHANGED <<text_nodes, lora_nodes>>
     \/ /\ IsDict(i) /\ HasInputs(i)
        /\ graph' = [graph EXCEPT ![i] = Over(@, Conventional(Class(i), DOMAIN @))]
        /\ text_nodes' = IF IsText(Class(i)) THEN Append(text_nodes, i) ELSE text_nodes
        /\ lora_nodes' = IF Class(i) = "LoraLoader" THEN Append(lora_nodes, i) ELSE lora_nodes
        /\ i' = i + 1
        /\ UNCHANGED phase
  /\ UNCHANGED <<template, request>>

(* The first text node takes the prompt, the second the negative one. *)
TextOf(n) ==
  IF Len(text_nodes) > 0 /\ n = text_nodes[1] THEN Entry("text", Parameter("prompt"))
  ELSE IF Len(text_nodes) > 1 /\ n = text_nodes[2] /\ "negative_prompt" \in request.given
  THEN Entry("text", Parameter("negative_prompt"))
  ELSE <<>>

InjectText ==
  /\ phase = "nodes" /\ i \notin Nodes
  /\ graph' = [n \in Nodes |-> Over(graph[n], TextOf(n))]
  /\ Enter("loras")
  /\ UNCHANGED <<template, request, text_nodes, lora_nodes>>

LoraInputs == {"lora_name", "strength_model", "strength_clip"}

(* Variant: LoRAs beyond the last loader are dropped. *)
InjectLoraOrDrop ==
  /\ phase = "loras" /\ i <= request.loras
  /\ IF i > Len(lora_nodes) THEN Skip
     ELSE /\ graph' = [graph EXCEPT ![lora_nodes[i]] = Over(@, [x \in LoraInputs |-> Lora(i)])]
          /\ i' = i + 1
          /\ UNCHANGED phase
  /\ UNCHANGED <<template, request, text_nodes, lora_nodes>>

InjectLora ==
  /\ phase = "loras" /\ i <= request.loras
  /\ \/ i > Len(lora_nodes) /\ Fail
     \/ /\ i <= Len(lora_nodes)
        /\ graph' = [graph EXCEPT ![lora_nodes[i]] = Over(@, [x \in LoraInputs |-> Lora(i)])]
        /\ i' = i + 1
        /\ UNCHANGED phase
  /\ UNCHANGED <<template, request, text_nodes, lora_nodes>>

EndMapping ==
  /\ \/ phase = "map" /\ i > Len(template.targets)
     \/ phase = "loras" /\ i > request.loras
  /\ Enter("extras")
  /\ UNCHANGED <<template, request, graph, text_nodes, lora_nodes>>

InjectExtra ==
  /\ phase = "extras" /\ i <= Len(request.extras)
  /\ LET e == request.extras[i]
     IN \/ ~e.given /\ Skip
        \/ e.given /\ ~e.valid /\ Fail
        \/ e.given /\ e.valid /\ SetInput(e.node, e.input, Extra(i))
  /\ UNCHANGED <<template, request, text_nodes, lora_nodes>>

Finish ==
  /\ phase = "extras" /\ i > Len(request.extras)
  /\ Enter("done")
  /\ UNCHANGED <<template, request, graph, text_nodes, lora_nodes>>

Next ==
  \/ LoadFails \/ Load
  \/ SetMappedValue
  \/ VisitNode \/ InjectText \/ InjectLora
  \/ EndMapping
  \/ InjectExtra \/ Finish

Spec == Init /\ [][Next]_vars

-----------------------------------------------------------------------------
(* The reference: what each input has to hold, without any loop.            *)
Greatest(S) == CHOOSE k \in S : \A m \in S : m <= k
Rank(n, S) == Cardinality({m \in S : m <= n})

TextNodes == {n \in Nodes : IsText(Class(n))}
LoraNodes == {n \in Nodes : Class(n) = "LoraLoader"}

MappedTo(n, x) ==
  {k \in DOMAIN template.targets :
     LET t == template.targets[k] IN t.parameter \in request.given /\ t.node = n /\ t.input = x}

ExtrasFor(n, x) ==
  {k \in DOMAIN request.extras :
     LET e == request.extras[k] IN e.given /\ e.node = n /\ e.input = x}

ByClass(n, x) ==
  {Parameter(p) : p \in {q \in request.given : /\ <<Class(n), <<x, q>>>> \in Conventions
                                               /\ x \in template.nodes[n].inputs}}
  \cup {Parameter("prompt") : m \in {n} \cap
          {t \in TextNodes : x = "text" /\ Rank(t, TextNodes) = 1}}
  \cup {Parameter("negative_prompt") : m \in {n} \cap
          {t \in TextNodes : /\ x = "text" /\ Rank(t, TextNodes) = 2
                             /\ "negative_prompt" \in request.given}}
  \cup {Lora(Rank(m, LoraNodes)) : m \in {n} \cap
          {l \in LoraNodes : x \in LoraInputs /\ Rank(l, LoraNodes) <= request.loras}}

(* An extra parameter wins over the map or the conventions, a later target  *)
(* of the map over an earlier one.                                          *)
Written(n, x) ==
  IF ExtrasFor(n, x) # {} THEN {Extra(Greatest(ExtrasFor(n, x)))}
  ELSE IF ~template.mapped THEN ByClass(n, x)
  ELSE {Parameter(template.targets[k].parameter) : k \in
          {m \in MappedTo(n, x) : m = Greatest(MappedTo(n, x))}}

Names ==
  UNION {template.nodes[n].inputs : n \in Nodes}
  \cup {c[2][1] : c \in Conventions} \cup LoraInputs \cup {"text"}
  \cup {template.targets[k].input : k \in DOMAIN template.targets}
  \cup {request.extras[k].input : k \in DOMAIN request.extras}

(* What the builder refuses: a key, a target or a LoRA it was told to place *)
(* and cannot.                                                              *)
Broken ==
  \/ \E k \in DOMAIN request.extras :
       LET e == request.extras[k] IN e.given /\ (~e.valid \/ ~Addressable(e.node))
  \/ /\ template.mapped
     /\ \E k \in DOMAIN template.targets :
          LET t == template.targets[k]
          IN t.parameter \in request.given /\ (~t.valid \/ ~Addressable(t.node))
  \/ /\ ~template.mapped
     /\ \/ \E n \in Nodes : IsDict(n) /\ ~HasInputs(n)
        \/ Cardinality(LoraNodes) < request.loras

-----------------------------------------------------------------------------
(* Types; with them: every value in the clone is the template's or one the  *)
(* request gives, so None is never written.                                 *)
TypeOK ==
  /\ template \in Templates /\ request \in Requests
  /\ phase \in {"load", "not_loaded", "map", "nodes", "loras", "extras", "done", "failed"}
  /\ i \in Nat
  /\ DOMAIN graph \in {{}, Nodes}
  /\ \A n \in DOMAIN graph : \A x \in DOMAIN graph[n] :
       graph[n][x] \in {Original} \cup {Parameter(p) : p \in request.given}
                     \cup {Lora(k) : k \in 1..request.loras}
                     \cup {Extra(k) : k \in {m \in DOMAIN request.extras : request.extras[m].given}}
  /\ \A k \in DOMAIN text_nodes : text_nodes[k] \in Nodes
  /\ \A k \in DOMAIN lora_nodes : lora_nodes[k] \in Nodes

(* The finished graph holds each value where the map, the conventions or    *)
(* its key put it, in the order of precedence, and is the template          *)
(* everywhere else: loops, collected nodes and overwriting agree with the   *)
(* reference.                                                               *)
Injected ==
  phase = "done" =>
    \A n \in Nodes, x \in Names :
      IF Written(n, x) = {}
      THEN /\ x \in DOMAIN graph[n] <=> x \in template.nodes[n].inputs
           /\ x \in DOMAIN graph[n] => graph[n][x] = Original
      ELSE x \in DOMAIN graph[n] /\ graph[n][x] \in Written(n, x)

(* The builder gives up exactly on what is Broken, whichever step of which  *)
(* loop meets it and whatever was written before.  All else that finds no   *)
(* place is passed over in silence and fails nothing: LoRAs if there is a   *)
(* parameter map, a prompt or a negative prompt without its text node, a    *)
(* target of an unknown parameter, a parameter whose node or input is not   *)
(* in the template.                                                         *)
FailsIffBroken ==
  /\ phase = "done" => ~Broken
  /\ phase = "failed" => Broken
=============================================================================
