------------------------------ MODULE JobListing ------------------------------
(***************************************************************************)
(* list_jobs and count_by_status of ComfyUIJobTracker                      *)
(* (server/app/comfy/tracking.py): SCAN walks over the keys, each of them  *)
(* is read by a GET of its own, and jobs are written, made and expire all  *)
(* the while.  A client asks for one page and then for the next one, or    *)
(* for the counts.                                                         *)
(*                                                                         *)
(* A record keeps its status and updated_at.  Writers run on clocks of     *)
(* their own, and late writes put back older records, so a write may leave *)
(* any time.  A key may hold what is no valid record, from another version *)
(* of the program say, until it expires.  Redis promises of SCAN only that *)
(* a key which is there from its start to its end is returned, once or     *)
(* more.  A query has a limit of one at least.                             *)
(***************************************************************************)
EXTENDS Naturals, Sequences, FiniteSets

CONSTANTS
  Jobs, Statuses, Times,
  Stores,           \* what Redis may hold at first
  Limits, Offsets,  \* limit and offset of a first page
  MaxWrites,        \* bound on writes by others
  MaxRepeats,       \* bound on keys that SCAN returns once more
  AnyStatus,        \* status is None
  NoJob,
  Unreadable        \* text that is no valid record

Records == [status : Statuses, updated_at : Times]

VARIABLES
  store,     \* job -> its record, NoJob or Unreadable
  writes,
  stage,     \* where the request stands: idle, scan, listed, counted
  query,     \* status, limit, offset
  batch,     \* keys SCAN has returned and no GET has read
  returned,  \* keys SCAN has returned so far
  repeats,   \* how many of them it returned again
  jobs,      \* the records read, with their ids
  page,      \* the window of the sorted jobs
  before,    \* the page and total of the request before, or <<>>
  (* for the properties *)
  there,     \* jobs whose key existed since the scan began
  matching,  \* those of them that had the wanted status all the time
  quiet      \* nothing was written since the first request began

scanning == <<batch, returned, repeats, jobs>>
ghosts == <<there, matching, quiet>>
vars == <<store, writes, stage, query, scanning, page, before, ghosts>>

Exists(j) == store[j] # NoJob
Wanted(rec, s) == rec # Unreadable /\ s \in {AnyStatus, rec.status}

Init ==
  /\ store \in Stores
  /\ writes = 0
  /\ stage = "idle"
  /\ query = [status |-> AnyStatus, limit |-> 0, offset |-> 0]
  /\ batch = {} /\ returned = {} /\ repeats = 0 /\ jobs = <<>>
  /\ page = <<>> /\ before = <<>>
  /\ there = {} /\ matching = {} /\ quiet = TRUE

-----------------------------------------------------------------------------
StartScan(q) ==
  /\ stage' = "scan"
  /\ query' = q
  /\ batch' = {} /\ returned' = {} /\ jobs' = <<>> /\ page' = <<>>
  /\ there' = {j \in Jobs : Exists(j)}
  /\ matching' = {j \in Jobs : Exists(j) /\ Wanted(store[j], q.status)}

FirstRequest ==
  /\ stage = "idle"
  /\ \E s \in Statuses \cup {AnyStatus}, l \in Limits, o \in Offsets :
       StartScan([status |-> s, limit |-> l, offset |-> o])
  /\ UNCHANGED <<store, writes, repeats, before, quiet>>

(* The same query for the page that follows; after a write the two pages   *)
(* have nothing to do with each other.                                      *)
NextPage ==
  /\ stage = "listed" /\ before = <<>> /\ quiet
  /\ before' = [page |-> page, total |-> Len(jobs)]
  /\ StartScan([query EXCEPT !.offset = @ + query.limit])
  /\ UNCHANGED <<store, writes, repeats, quiet>>

Scan ==
  /\ stage = "scan" /\ batch = {}
  /\ \E keys \in SUBSET {j \in Jobs : Exists(j)} :
       /\ repeats + Cardinality(keys \cap returned) <= MaxRepeats
       /\ repeats' = repeats + Cardinality(keys \cap returned)
       /\ keys # {}
       /\ batch' = keys
       /\ returned' = returned \cup keys
  /\ UNCHANGED <<store, writes, stage, query, jobs, page, before, ghosts>>

(* Variant: a key that is gone ends the loop. *)
ReadOrStop(j) ==
  /\ stage = "scan" /\ j \in batch
  /\ batch' = IF Exists(j) THEN batch \ {j} ELSE {}
  /\ jobs' = IF Exists(j) /\ Wanted(store[j], query.status)
             THEN Append(jobs, [id |-> j, rec |-> store[j]]) ELSE jobs
  /\ UNCHANGED <<store, writes, stage, query, returned, repeats, page, before, ghosts>>

(* GET: the key may be gone by now, its text no record, the status another  *)
(* one; each is passed over.                                                *)
Read(j) ==
  /\ stage = "scan" /\ j \in batch
  /\ batch' = batch \ {j}
  /\ jobs' = IF Exists(j) /\ Wanted(store[j], query.status)
             THEN Append(jobs, [id |-> j, rec |-> store[j]]) ELSE jobs
  /\ UNCHANGED <<store, writes, stage, query, returned, repeats, page, before, ghosts>>

(* jobs.sort by updated_at, the latest first; a stable sort. *)
Place(k) ==
  Cardinality({m \in DOMAIN jobs :
    \/ jobs[m].rec.updated_at > jobs[k].rec.updated_at
    \/ jobs[m].rec.updated_at = jobs[k].rec.updated_at /\ m <= k})

Sorted == [n \in DOMAIN jobs |-> jobs[CHOOSE k \in DOMAIN jobs : Place(k) = n]]

AtMost(a, b) == IF a < b THEN a ELSE b

(* Variant: the end is counted as if the window were closed. *)
WindowClosed(offset, limit) ==
  LET start == AtMost(offset, Len(jobs))
  IN SubSeq(Sorted, start + 1, AtMost(start + limit + 1, Len(jobs)))

Window(offset, limit) ==
  LET start == AtMost(offset, Len(jobs))
  IN SubSeq(Sorted, start + 1, AtMost(start + limit, Len(jobs)))

(* The cursor is back at zero: every key that stayed has been returned. *)
ScanEnds == stage = "scan" /\ batch = {} /\ there \subseteq returned

Answer ==
  /\ ScanEnds
  /\ stage' = "listed"
  /\ page' = Window(query.offset, query.limit)
  /\ UNCHANGED <<store, writes, query, scanning, before, ghosts>>

(* count_by_status reads as list_jobs does without a filter. *)
counts == [s \in Statuses |-> Cardinality({k \in DOMAIN jobs : jobs[k].rec.status = s})]

AnswerCounts ==
  /\ ScanEnds
  /\ query.status = AnyStatus /\ before = <<>>
  /\ stage' = "counted"
  /\ UNCHANGED <<store, writes, query, scanning, page, before, ghosts>>

-----------------------------------------------------------------------------
(* Any process creates or saves a record, which takes that it could read    *)
(* the one before, or a key expires.                                        *)
Change(j, rec) ==
  /\ stage = "scan" /\ before = <<>>
  /\ writes < MaxWrites
  /\ writes' = writes + 1
  /\ rec # store[j]
  /\ store[j] = Unreadable => rec = NoJob
  /\ store' = [store EXCEPT ![j] = rec]
  /\ there' = IF rec = NoJob THEN there \ {j} ELSE there
  /\ matching' = IF rec = NoJob \/ ~Wanted(rec, query.status) THEN matching \ {j} ELSE matching
  /\ quiet' = FALSE
  /\ UNCHANGED <<stage, query, scanning, page, before>>

Next ==
  \/ FirstRequest \/ NextPage
  \/ Scan \/ \E j \in Jobs : Read(j)
  \/ Answer \/ AnswerCounts
  \/ \E j \in Jobs, rec \in Records \cup {NoJob} : Change(j, rec)

Spec == Init /\ [][Next]_vars

-----------------------------------------------------------------------------
(* Types of the listing's variables. *)
TypeOK ==
  /\ store \in [Jobs -> Records \cup {NoJob, Unreadable}]
  /\ writes \in 0..MaxWrites /\ repeats \in 0..MaxRepeats
  /\ stage \in {"idle", "scan", "listed", "counted"}
  /\ query.status \in Statuses \cup {AnyStatus}
  /\ batch \subseteq returned /\ returned \subseteq Jobs
  /\ \A k \in DOMAIN jobs : jobs[k].id \in Jobs /\ jobs[k].rec \in Records
  /\ Len(page) <= query.limit
  /\ matching \subseteq there /\ there \subseteq Jobs

Ids(list) == {list[k].id : k \in DOMAIN list}

(* The jobs the counts add up to, numbered in each status. *)
Counted == UNION {{s} \X (1..counts[s]) : s \in Statuses}

(* Whatever is written during the scan, a job that has been there all the   *)
(* time, readable and with the wanted status, is found, and the counts add  *)
(* up to no fewer jobs than these and to no more than SCAN returned.        *)
StandingJobsFound ==
  /\ stage = "listed" => matching \subseteq Ids(jobs)
  /\ stage = "counted" =>
       /\ Cardinality(Counted) >= Cardinality(matching)
       /\ Cardinality(Counted) <= Cardinality(returned) + repeats

Distinct(list) ==
  \A k, m \in DOMAIN list : k # m =>
    list[k].id # list[m].id /\ list[k].rec.updated_at # list[m].rec.updated_at

(* Two pages of jobs that nobody writes fit together although each comes    *)
(* from a scan of its own: in order, no job on both, and every job between  *)
(* the first one's offset and the second one's end.  It takes that SCAN     *)
(* repeats no key and no two jobs were updated at the same moment.          *)
PagesFit ==
  stage = "listed" /\ before # <<>> /\ quiet /\ Distinct(jobs) /\ repeats = 0 =>
    LET both == before.page \o page
        from == AtMost(query.offset - query.limit, Len(jobs))
    IN /\ before.total = Len(jobs)
       /\ Distinct(both)
       /\ \A k \in 1..Len(both) - 1 : both[k].rec.updated_at > both[k + 1].rec.updated_at
       /\ Len(both) = AtMost(2 * query.limit, Len(jobs) - from)
=============================================================================
