-------------------------------- MODULE LogTail --------------------------------
(***************************************************************************)
(* GET /monitoring/logs/tail (server/app/api/v1/monitoring.py): the last   *)
(* lines of the log file.  Its size is taken once; then chunks are read    *)
(* from the end backwards, until they hold more line breaks than asked for *)
(* or the byte limit is reached.  The server logs on between the reads.    *)
(*                                                                         *)
(* A character is "x", an end of line "r", "n" or "r" with "n" after it,   *)
(* or "v", which ends a line for str.splitlines but not for the            *)
(* bytes.splitlines that the loop counts with.  What a buffer holds is the *)
(* positions of the file it was read from: the file only grows.            *)
(***************************************************************************)
EXTENDS Naturals, Sequences, FiniteSets

CONSTANTS
  Files,      \* contents of the log file when the request comes in
  MaxFile,    \* bound on the file's growth
  Lines,      \* the lines a client may ask for
  ChunkSize,  \* 4096
  MaxBytes    \* 2_000_000

VARIABLES
  file,       \* a sequence of characters
  progress,   \* the handler: new, reading, answered
  lines, file_size, read_pos, bytes_read,
  selected,   \* where the lines of the answer begin
  truncated

tail == <<lines, file_size, read_pos, bytes_read>>
answer == <<selected, truncated>>
vars == <<file, progress, tail, answer>>

Init ==
  /\ file \in Files
  /\ progress = "new"
  /\ lines \in Lines
  /\ file_size = 0 /\ read_pos = 0 /\ bytes_read = 0
  /\ selected = {} /\ truncated = FALSE

AtMost(a, b) == IF a < b THEN a ELSE b

(* splitlines on the positions from..to: where lines begin. *)
EndsLine(ends, to, p) ==
  /\ file[p] \in ends
  /\ ~(file[p] = "r" /\ p < to /\ file[p + 1] = "n")
splitlines(ends, from, to) == {p \in from..to : p = from \/ EndsLine(ends, to, p - 1)}

Bytes == {"r", "n"}
Text == {"r", "n", "v"}

(* all_lines[-n:] *)
Last(n, starts) == {p \in starts : Cardinality({q \in starts : q > p}) < n}

-----------------------------------------------------------------------------
(* The handler of one of the server's processes writes to the file. *)
Log ==
  /\ progress = "reading" /\ Len(file) < MaxFile
  /\ \E c \in {"x", "n"} : file' = Append(file, c)
  /\ UNCHANGED <<progress, tail, answer>>

(* No file, an empty one, or an exception: an empty answer. *)
AnswerNothing ==
  /\ progress \in {"new", "reading"}
  /\ progress' = "answered"
  /\ UNCHANGED <<file, tail, answer>>

Stat ==
  /\ progress = "new" /\ file # <<>>
  /\ progress' = "reading"
  /\ file_size' = Len(file) /\ read_pos' = Len(file)
  /\ UNCHANGED <<file, lines, bytes_read, answer>>

(* Variant: the loop stops at as many lines as were asked for. *)
MoreAtLeast ==
  /\ read_pos > 0 /\ bytes_read < MaxBytes
  /\ Cardinality(splitlines(Bytes, read_pos + 1, file_size)) < lines

(* The condition of the loop: one line more than asked for is needed, for   *)
(* the first one may begin before the buffer.                               *)
More ==
  /\ read_pos > 0 /\ bytes_read < MaxBytes
  /\ Cardinality(splitlines(Bytes, read_pos + 1, file_size)) <= lines

ReadChunk ==
  /\ progress = "reading" /\ More
  /\ LET read_size == AtMost(AtMost(ChunkSize, read_pos), MaxBytes - bytes_read)
     IN /\ read_pos' = read_pos - read_size
        /\ bytes_read' = bytes_read + read_size
  /\ UNCHANGED <<file, progress, lines, file_size, answer>>

Answer ==
  /\ progress = "reading" /\ ~More
  /\ progress' = "answered"
  /\ LET all_lines == splitlines(Text, read_pos + 1, file_size)
     IN /\ selected' = Last(lines, all_lines)
        /\ truncated' = (file_size > bytes_read /\ Cardinality(all_lines) > lines)
  /\ UNCHANGED <<file, tail>>

Next == Log \/ AnswerNothing \/ Stat \/ ReadChunk \/ Answer

Spec == Init /\ [][Next]_vars

-----------------------------------------------------------------------------
(* Types; the buffer is what was read, no more than the limit. *)
TypeOK ==
  /\ file \in Seq({"x", "r", "n", "v"})
  /\ progress \in {"new", "reading", "answered"}
  /\ lines \in Lines
  /\ read_pos + bytes_read = file_size /\ file_size <= Len(file)
  /\ bytes_read <= MaxBytes
  /\ selected \subseteq 1..Len(file)
  /\ truncated \in BOOLEAN

(* The answer is the last lines of the file as it was when the request      *)
(* began, whole ones: wherever the borders of the chunks fall, inside a     *)
(* line or between "r" and "n", however much is logged meanwhile.  Only at  *)
(* the byte limit may the first line be cut, or lines be missing before it. *)
(* An answer that calls itself truncated has all the lines asked for, and   *)
(* there are more.                                                          *)
TailIsTail ==
  progress = "answered" /\ selected # {} =>
    LET whole == splitlines(Text, 1, file_size)
        cut == IF bytes_read = MaxBytes THEN {read_pos + 1} ELSE {}
    IN /\ \/ selected = Last(lines, whole)
          \/ /\ cut \subseteq selected /\ cut # {}
             /\ selected \ cut = {p \in whole : p > read_pos + 1}
       /\ truncated => /\ Cardinality(selected) = lines
                       /\ Cardinality(whole) > lines
=============================================================================
