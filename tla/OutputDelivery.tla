----------------------------- MODULE OutputDelivery -----------------------------
(***************************************************************************)
(* From the history of a prompt to the file a client downloads: the parser *)
(* (server/app/comfy/outputs.py) lists the outputs with their URLs, the    *)
(* worker registers their files as assets (queue/tasks.py), and a client   *)
(* follows a URL, which job responses complete with the host, to the       *)
(* output proxy or to the nginx before it.  ComfyUI may write where both   *)
(* of them look for outputs, or elsewhere; files are deleted at any time.  *)
(*                                                                         *)
(* A path is the sequence of its parts between slashes, so that one with   *)
(* an empty first part is absolute.  A history lists images, videos and    *)
(* gifs of each node; a node or a list of another form counts as empty.    *)
(* An item has ok, which is FALSE if it is no object, its filename is      *)
(* empty, or one of its fields is no string; file; sub, the parts of its   *)
(* subfolder, <<>> when it is empty; and type.  Names with characters that *)
(* a URL reserves have an escaped form.                                    *)
(***************************************************************************)
EXTENDS Naturals, Sequences, SequencesExt

CONSTANTS
  Histories,
  Escapes,  \* name with reserved characters -> what quote() writes for it
  NoOutput

(* What ComfyUI tells.  A file it saved has a name of its own, and a name   *)
(* that looks escaped has a reserved character itself, the percent sign.    *)
Items == [ok : BOOLEAN, file : STRING, sub : Seq(STRING), type : STRING]
Media == [images : Seq(Items), videos : Seq(Items), gifs : Seq(Items)]
Special == {"", ".", "..", "outputs"}
Escaped == {Escapes[name] : name \in DOMAIN Escapes}
DeliveryInputs ==
  /\ Histories \subseteq Seq(Media)
  /\ Escaped \subseteq STRING /\ (DOMAIN Escapes \cup Escaped) \cap Special = {}
  /\ \A a, b \in DOMAIN Escapes : Escapes[a] = Escapes[b] => a = b
  /\ \A h \in Histories : \A n \in DOMAIN h, key \in {"images", "videos", "gifs"} :
       \A k \in DOMAIN h[n][key] :
         LET item == h[n][key][k]
         IN item.ok =>
              /\ item.file \notin {"", ".", ".."}
              /\ ({item.file} \cup {item.sub[j] : j \in DOMAIN item.sub}) \cap Escaped
                   \subseteq DOMAIN Escapes

VARIABLES
  history,   \* what ComfyUI tells of the prompt
  shared,    \* ComfyUI saves to outputs_path
  stored,    \* the files in ComfyUI's directories
  outputs,   \* the job's outputs, as places in the history
  turn,      \* the output that is registered next
  register,  \* the loop over them: waiting, running, ended, failed
  assets,    \* relative paths of registered assets
  skipped,   \* outputs whose file was missing on their turn
  client     \* a request to the proxy and its answer

vars == <<history, shared, stored, outputs, turn, register, assets, skipped, client>>

Item(p) == history[p.node][p.key][p.k]
Places ==
  UNION {{[node |-> n, key |-> key, k |-> k] : k \in DOMAIN history[n][key]} :
           n \in DOMAIN history, key \in {"images", "videos", "gifs"}}

(* A sequence without the members of a set. *)
Without(list, members) ==
  LET upto[k \in 0..Len(list)] ==
        IF k = 0 THEN <<>>
        ELSE IF list[k] \in members THEN upto[k - 1] ELSE Append(upto[k - 1], list[k])
  IN upto[Len(list)]

Unnamed == {"", "."}   \* parts that lead nowhere
Ascends(path) == \E k \in DOMAIN path : path[k] = ".."

(* Where a path leads: ".." leaves a directory, but not the root. *)
Follow(path) ==
  LET at[k \in 0..Len(path)] ==
        IF k = 0 THEN <<>>
        ELSE IF path[k] \in Unnamed THEN at[k - 1]
        ELSE IF path[k] # ".." THEN Append(at[k - 1], path[k])
        ELSE IF at[k - 1] = <<>> THEN <<>> ELSE Front(at[k - 1])
  IN at[Len(path)]

(* The file an item is about; a node that ascends saves outside of what     *)
(* any server shows.                                                        *)
File(p) == [type |-> Item(p).type, path |-> Follow(Append(Item(p).sub, Item(p).file))]
Saved(p) == Item(p).ok /\ ~Ascends(Item(p).sub)

Idle == [stage |-> "idle", door |-> "backend", output |-> NoOutput, path |-> <<>>,
         file |-> NoOutput, lost |-> FALSE]

Init ==
  /\ history \in Histories
  /\ shared \in BOOLEAN
  /\ stored = {File(p) : p \in {q \in Places : Saved(q)}}
  /\ outputs = <<>> /\ turn = 1 /\ register = "waiting"
  /\ assets = {} /\ skipped = {}
  /\ client = Idle

-----------------------------------------------------------------------------
(* Variant: a malformed item ends its list. *)
MediaGroupUntilBad(n, key) ==
  LET items == history[n][key]
      good == {k \in DOMAIN items : \A j \in 1..k : items[j].ok}
  IN [k \in good |-> [node |-> n, key |-> key, k |-> k]]

(* _parse_media_group *)
MediaGroup(n, key) ==
  LET items == [k \in DOMAIN history[n][key] |-> [node |-> n, key |-> key, k |-> k]]
  IN Without(items, {p \in Places : ~Item(p).ok})

(* _VIDEO_KEYS is a set of strings: a process walks through it in either    *)
(* order, always the same one.                                              *)
Parse ==
  /\ register = "waiting"
  /\ \E video_keys \in {<<"videos", "gifs">>, <<"gifs", "videos">>} :
       outputs' = FlattenSeq([n \in DOMAIN history |->
                    MediaGroup(n, "images") \o MediaGroup(n, video_keys[1])
                                            \o MediaGroup(n, video_keys[2])])
  /\ register' = "running"
  /\ UNCHANGED <<history, shared, stored, turn, assets, skipped, client>>

-----------------------------------------------------------------------------
(* _output_relative_path strips slashes from both ends of the subfolder. *)
RelativePath(p) ==
  LET sub == Item(p).sub
      named == {k \in DOMAIN sub : sub[k] # ""}
      from == CHOOSE k \in named : \A j \in named : k <= j
      to == CHOOSE k \in named : \A j \in named : k >= j
  IN IF sub = <<>> THEN <<Item(p).file>>
     ELSE IF named = {} THEN <<"", Item(p).file>>
     ELSE Append(SubSeq(sub, from, to), Item(p).file)

(* resolve raises StorageValidationError for every other path. *)
Resolvable(path) == path[1] # "" /\ ~Ascends(path)

IsFile(path) == shared /\ [type |-> "output", path |-> Follow(path)] \in stored

(* One turn of _register_output_assets.  A missing file is passed over; a   *)
(* path that is refused ends the loop, and the task fails.                  *)
RegisterNext ==
  /\ register = "running" /\ turn \in DOMAIN outputs
  /\ LET p == outputs[turn]
         path == RelativePath(p)
     IN \/ /\ ~Resolvable(path)
           /\ register' = "failed"
           /\ UNCHANGED <<turn, assets, skipped>>
        \/ /\ Resolvable(path) /\ IsFile(path)
           /\ assets' = assets \cup {path}
           /\ turn' = turn + 1
           /\ UNCHANGED <<register, skipped>>
        \/ /\ Resolvable(path) /\ ~IsFile(path)
           /\ skipped' = skipped \cup {p}
           /\ turn' = turn + 1
           /\ UNCHANGED <<register, assets>>
  /\ UNCHANGED <<history, shared, stored, outputs, client>>

RegisterEnds ==
  /\ register = "running" /\ turn = Len(outputs) + 1
  /\ register' = "ended"
  /\ UNCHANGED <<history, shared, stored, outputs, turn, assets, skipped, client>>

-----------------------------------------------------------------------------
quote(name) == IF name \in DOMAIN Escapes THEN Escapes[name] ELSE name
unquote(text) ==
  IF text \in Escaped THEN CHOOSE name \in DOMAIN Escapes : Escapes[name] = text ELSE text

quoted(path) == [k \in DOMAIN path |-> quote(path[k])]
unquoted(url) == [k \in DOMAIN url |-> unquote(url[k])]

build_output_url(p) ==
  quoted(<<"outputs">> \o Without(Item(p).sub, {""}) \o <<Item(p).file>>)

(* A URL is followed as it is, from a job's event, or from a response,      *)
(* where urljoin has completed it and resolved its dots; to the port of     *)
(* the backend or that of nginx, which both undo the escapes.               *)
FollowUrl ==
  /\ client.stage = "idle"
  /\ \E k \in DOMAIN outputs, door \in {"backend", "nginx"} :
       \E url \in {build_output_url(outputs[k]), Follow(build_output_url(outputs[k]))} :
         client' = [client EXCEPT
           !.door = door,
           !.output = outputs[k],
           !.stage = IF url[1] = "outputs" /\ Len(url) > 1 THEN "local" ELSE "404",
           !.path = IF Len(url) > 1 THEN unquoted(Tail(url)) ELSE <<>>,
           !.lost = File(outputs[k]) \notin stored]
  /\ UNCHANGED <<history, shared, stored, outputs, turn, register, assets, skipped>>

(* _safe_output_path_parts *)
PathParts(path) == Without(path, Unnamed)

(* The backend serves the local file if there is one. *)
ServeLocal ==
  /\ client.stage = "local" /\ client.door = "backend"
  /\ LET parts == PathParts(client.path)
     IN client' = [client EXCEPT
          !.stage = CASE parts = <<>> \/ Ascends(parts) -> "400"
                      [] OTHER -> IF IsFile(parts) THEN "200" ELSE "comfyui",
          !.file = IF IsFile(parts) THEN [type |-> "output", path |-> parts] ELSE NoOutput]
  /\ UNCHANGED <<history, shared, stored, outputs, turn, register, assets, skipped>>

(* nginx resolves the dots, refuses a path that leaves the root, and serves *)
(* the file below its alias, which is the same directory, or nothing: it    *)
(* never asks the backend.                                                  *)
ServeAlias ==
  /\ client.stage = "local" /\ client.door = "nginx"
  /\ LET from_root == Follow(<<"/">> \o (<<"outputs">> \o client.path))
         inside == from_root # <<>> /\ from_root[1] = "/"
         at == Tail(from_root)
         found == inside /\ Len(at) > 1 /\ at[1] = "outputs" /\ IsFile(Tail(at))
     IN client' = [client EXCEPT
          !.stage = IF found THEN "200" ELSE IF inside THEN "404" ELSE "400",
          !.file = IF found THEN [type |-> "output", path |-> Tail(at)] ELSE NoOutput]
  /\ UNCHANGED <<history, shared, stored, outputs, turn, register, assets, skipped>>

(* Variant: the subfolder is the one part before the filename. *)
ViewedShallow ==
  LET parts == PathParts(client.path)
  IN [type |-> "output", path |-> SubSeq(parts, IF Len(parts) > 1 THEN Len(parts) - 1 ELSE 1,
                                         Len(parts))]

(* What /view is asked for: filename, subfolder and the default type. *)
Viewed == [type |-> "output", path |-> PathParts(client.path)]

(* ComfyUI has the file or not, or cannot be reached. *)
ServeFromComfyUI ==
  /\ client.stage = "comfyui"
  /\ \/ /\ Viewed \in stored
        /\ client' = [client EXCEPT !.stage = "200", !.file = Viewed]
     \/ /\ Viewed \notin stored
        /\ client' = [client EXCEPT !.stage = "404"]
     \/ client' = [client EXCEPT !.stage = "404", !.lost = TRUE]
  /\ UNCHANGED <<history, shared, stored, outputs, turn, register, assets, skipped>>

(* Somebody deletes a file, an asset say. *)
Vanish(file) ==
  /\ file \in stored
  /\ stored' = stored \ {file}
  /\ client' = IF client.output # NoOutput /\ client.stage \in {"local", "comfyui"}
               THEN [client EXCEPT !.lost = @ \/ file = File(client.output)] ELSE client
  /\ UNCHANGED <<history, shared, outputs, turn, register, assets, skipped>>

Next ==
  \/ Parse \/ RegisterNext \/ RegisterEnds
  \/ FollowUrl \/ ServeLocal \/ ServeAlias \/ ServeFromComfyUI
  \/ \E file \in stored : Vanish(file)

Spec == Init /\ [][Next]_vars

-----------------------------------------------------------------------------
(* Types of the delivery's variables. *)
TypeOK ==
  /\ shared \in BOOLEAN
  /\ \A k \in DOMAIN outputs : outputs[k] \in Places /\ Item(outputs[k]).ok
  /\ turn \in 1..Len(outputs) + 1
  /\ register \in {"waiting", "running", "ended", "failed"}
  /\ \A path \in assets : Resolvable(path)
  /\ skipped \subseteq Places
  /\ client.stage \in {"idle", "local", "comfyui", "200", "400", "404"}
  /\ client.door \in {"backend", "nginx"}

(* Whatever stands between them, every well-formed item of the history is   *)
(* an output of the job, once: node by node, images before videos, and in   *)
(* the order of its list.                                                   *)
Rank(p) == IF p.key = "images" THEN 0 ELSE 1
ParsedOutputs ==
  register # "waiting" =>
    /\ {outputs[k] : k \in DOMAIN outputs} = {p \in Places : Item(p).ok}
    /\ \A j, k \in DOMAIN outputs : j < k =>
         LET p == outputs[j]
             q == outputs[k]
         IN /\ p # q /\ p.node <= q.node
            /\ p.node = q.node => Rank(p) <= Rank(q)
            /\ p.node = q.node /\ p.key = q.key => p.k < q.k

(* An output that ComfyUI saved for good (the URLs of temporary ones lack   *)
(* their type) is what its URL serves, not another file, whatever has to be *)
(* escaped in it; and it does serve it, unless the file was deleted,        *)
(* ComfyUI is away, or nginx, which has no way to ComfyUI, looks elsewhere. *)
(* The worker registers the same file, and without a refused path leaves no *)
(* output out whose file was there.  Only where nothing has to be escaped   *)
(* is the URL of the asset (url_for, which does not quote) the output's.    *)
url_for(path) == <<"outputs">> \o Without(path, Unnamed)
Permanent(p) == Saved(p) /\ Item(p).type = "output"
UrlServesOutput ==
  /\ client.output # NoOutput /\ Permanent(client.output) =>
       /\ client.stage = "200" => client.file = File(client.output)
       /\ client.stage \in {"400", "404"} =>
            client.lost \/ (client.door = "nginx" /\ ~shared)
  /\ register = "ended" =>
       \A k \in DOMAIN outputs : Permanent(outputs[k]) =>
         \/ outputs[k] \in skipped
         \/ \E path \in assets :
              /\ Follow(path) = File(outputs[k]).path
              /\ (\A j \in DOMAIN path : path[j] \notin DOMAIN Escapes)
                   => url_for(path) = Follow(build_output_url(outputs[k]))
  /\ shared => \A p \in skipped : Permanent(p) => File(p) \notin stored
=============================================================================
