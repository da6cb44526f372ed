---------------------------- MODULE RequestMachines ----------------------------
(***************************************************************************)
(* Five machines that share no state, side by side, for one run and for    *)
(* the theorems about them: the workflow builder, which is the module      *)
(* extended here, the listing of jobs, the log tail, the delivery of       *)
(* outputs and the authentication.  Their properties are stated here.      *)
(***************************************************************************)
EXTENDS WorkflowInjection

CONSTANTS
  Jobs, Statuses, Times, Stores, Limits, Offsets, MaxWrites, MaxRepeats, AnyStatus, NoJob,
  Unreadable,
  Files, MaxFile, Lines, ChunkSize, MaxBytes,
  Histories, Escapes, NoOutput,
  Users, Keys, Calls, TokenLife, MaxClock, MaxTokens, Nobody

VARIABLES
  machine,   \* the one that moves
  store, writes, stage, query, batch, returned, repeats, jobs, page, before,
  there, matching, quiet,
  file, progress, lines, file_size, read_pos, bytes_read, selected, truncated,
  history, shared, stored, outputs, turn, register, assets, skipped, client,
  clock, users, keys, tokens, told, step, credential, read, principal, revoked, late

Listing == INSTANCE JobListing
Log == INSTANCE LogTail
Delivery == INSTANCE OutputDelivery
Access == INSTANCE Credentials WITH Requests <- Calls

-----------------------------------------------------------------------------
(* What the builder is given: files and parameters of their shapes; the     *)
(* prompt is the one parameter that is never None.  A node that is no       *)
(* object has no class, so it is no text node.                              *)
WorkflowInputs ==
  /\ Templates \subseteq TemplateFiles
  /\ Requests \subseteq RuntimeParameters
  /\ \A r \in Requests : "prompt" \in r.given
  /\ "no_dict" \notin TextClasses

(* What the listing works on: finitely many keys, and limits and offsets that *)
(* the query parameters admit.                                                *)
ListingInputs ==
  /\ IsFiniteSet(Jobs)
  /\ AnyStatus \notin Statuses
  /\ NoJob # Unreadable /\ {NoJob, Unreadable} \cap Listing!Records = {}
  /\ Times \subseteq Nat
  /\ Stores \subseteq [Jobs -> Listing!Records \cup {NoJob, Unreadable}]
  /\ Limits \subseteq Nat \ {0} /\ Offsets \subseteq Nat
  /\ MaxWrites \in Nat /\ MaxRepeats \in Nat

(* What the handler of the log reads: a file of such characters, from the   *)
(* end backwards in chunks; the query asks for at least one line.           *)
Characters == {"x", "r", "n", "v"}
LogInputs ==
  /\ Files \subseteq Seq(Characters)
  /\ Lines \subseteq Nat \ {0}
  /\ ChunkSize \in Nat /\ MaxBytes \in Nat

(* DeliveryInputs and AccessInputs say it of the delivery and of the        *)
(* authentication.                                                          *)
ASSUME InputsAssumption ==
  WorkflowInputs /\ ListingInputs /\ LogInputs /\ Delivery!DeliveryInputs /\ Access!AccessInputs

-----------------------------------------------------------------------------
(* One of the machines, chosen at the start, moves; the others stay where   *)
(* they begin.                                                              *)
workflow == vars
listing == <<store, writes, stage, query, batch, returned, repeats, jobs, page, before,
             there, matching, quiet>>
log == <<file, progress, lines, file_size, read_pos, bytes_read, selected, truncated>>
delivery == <<history, shared, stored, outputs, turn, register, assets, skipped, client>>
access == <<clock, users, keys, tokens, told, step, credential, read, principal, revoked, late>>
all == <<machine, workflow, listing, log, delivery, access>>

OneOf(S) == CHOOSE x \in S : TRUE

(* A machine that does not move has one initial state. *)
MachinesInit ==
  /\ machine \in {"workflow", "listing", "log", "delivery", "access"}
  /\ \/ machine = "access"
     \/ machine # "access" /\ users = [u \in Users |-> [is_active |-> TRUE, is_admin |-> FALSE]]
  /\ Access!Init
  /\ \/ machine = "listing"
     \/ machine # "listing" /\ store = [j \in Jobs |-> NoJob]
  /\ Listing!Init
  /\ \/ machine = "delivery"
     \/ machine # "delivery" /\ history = OneOf(Histories) /\ shared = TRUE
  /\ Delivery!Init
  /\ \/ machine = "log"
     \/ machine # "log" /\ file = <<>> /\ lines = 1
  /\ Log!Init
  /\ \/ machine = "workflow"
     \/ /\ machine # "workflow"
        /\ template = OneOf(Templates) /\ request = OneOf(Requests)
  /\ Init

MachinesNext ==
  \/ /\ machine = "workflow" /\ Next
     /\ UNCHANGED <<machine, listing, log, delivery, access>>
  \/ /\ machine = "listing" /\ Listing!Next
     /\ UNCHANGED <<machine, workflow, log, delivery, access>>
  \/ /\ machine = "log" /\ Log!Next
     /\ UNCHANGED <<machine, workflow, listing, delivery, access>>
  \/ /\ machine = "delivery" /\ Delivery!Next
     /\ UNCHANGED <<machine, workflow, listing, log, access>>
  \/ /\ machine = "access" /\ Access!Next
     /\ UNCHANGED <<machine, workflow, listing, log, delivery>>

MachinesSpec == MachinesInit /\ [][MachinesNext]_all

-----------------------------------------------------------------------------
(* The types of the machine that moves. *)
MachineTypeOK ==
  CASE machine = "workflow" -> TypeOK
    [] machine = "listing"  -> Listing!TypeOK
    [] machine = "log"      -> Log!TypeOK
    [] machine = "delivery" -> Delivery!TypeOK
    [] machine = "access"   -> Access!TypeOK

(* A job that stays while SCAN runs is listed and counted.                  *)
StandingJobsFound == Listing!StandingJobsFound

(* Two pages of a store at rest fit together.                               *)
PagesFit == Listing!PagesFit

(* The log tail is the end of the file as it was, in whole lines.           *)
TailIsTail == Log!TailIsTail

(* The parser loses no output of the history and repeats none.              *)
ParsedOutputs == Delivery!ParsedOutputs

(* The URL of an output serves the output, and its asset is the same file.  *)
UrlServesOutput == Delivery!UrlServesOutput

(* The token or secret of what the operator has deactivated lets nobody in. *)
RevokedAreOut == Access!RevokedAreOut

(* Without an administrator nobody gets such rights, or an API key.         *)
NoRightsReturn == Access!NoRightsReturn
=============================================================================
