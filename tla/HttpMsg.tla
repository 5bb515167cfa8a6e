------------------------------- MODULE HttpMsg -------------------------------
(***************************************************************************)
(* The incremental HTTP parser of http/http_parser.c: a buffer that grows   *)
(* between calls, and the machine that http_process_request and             *)
(* http_process_response run over it.                                       *)
(*                                                                         *)
(* The buffer is a sequence of lines, of which the last may still lack its  *)
(* newline. A line is what the parser can tell of it: a start line with or  *)
(* without a colon in it, a header (content-length 0 or more, chunked, any  *)
(* other), an empty line, a chunk size, anything else. Of a line that is    *)
(* cut, the words that have arrived count. A chunk's data is one line of    *)
(* any kind. Memory does not run out.                                       *)
(***************************************************************************)
EXTENDS Naturals, Integers, Sequences, FiniteSetsExt

CONSTANTS HttpLines  \* how many lines arrive, at most

ASSUME HttpAssumption == HttpLines \in Nat

Start == {"start", "startcolon"}
Header == {"cl0", "cl", "te", "other"}
Colon == Header \cup {"startcolon"}
Lines == Start \cup Header \cup {"blank", "size0", "size", "text"}

\* How many words a line has.
Words(l) == IF l \in Start THEN 3 ELSE IF l \in Header THEN 2 ELSE IF l = "blank" THEN 0 ELSE 1

VARIABLES
    area,       \* the buffer, line by line
    cut,        \* whether its last line has no newline yet; then the words of it that
                \* have ended, and whether the bytes end inside another one
    msg,        \* the http_msg_t
    status,     \* what the last call returned: "none" before the first
    split,      \* history: the parser has read a start line of less than two whole words
    looked      \* history: the lines, and their cut, that the analyzer was last given

httpVars == <<area, cut, msg, status, split, looked>>

Whole == [on |-> FALSE, ended |-> 0, open |-> FALSE]
Cuts(l) == {c \in [on: {TRUE}, ended: 0..3, open: BOOLEAN] :
              c.ended + (IF c.open THEN 1 ELSE 0) <= Words(l)}

\* The order of the HTTP_MSG_ constants, for the test msg_state < HTTP_MSG_BODY.
BeforeBody == {"RQBEFORE", "HDR_FIRST"}

\* A message as its owner sets it up; first remembers the state it started in.
NewMsg(s) == [msg_state |-> s, first |-> s, next |-> 0, chunked |-> FALSE, length |-> "none", ret |-> "go"]

HttpInit ==
    /\ area = <<>> /\ cut = Whole /\ status = "none" /\ split = FALSE
    /\ looked = [lines |-> 0, cut |-> Whole]
    /\ msg \in {NewMsg(s) : s \in BeforeBody}

\* How many lines are complete, and how many words have ended.
Complete(a, c) == IF c.on THEN Len(a) - 1 ELSE Len(a)
Ended(a, c) == MapThenSumSet(LAMBDA i : Words(a[i]), 1..Complete(a, c)) + c.ended

\* http_parse_request_line takes two words, with line ends before and between them
\* or without: it fails when the first does not end, and when there is no second;
\* a second that goes on is taken as it is. It does not advance next.
http_parse_request_line(m, a, c) ==
    IF Ended(a, c) >= 2 \/ (Ended(a, c) = 1 /\ c.open)
      THEN [m EXCEPT !.msg_state = "HDR_FIRST"]
      ELSE [m EXCEPT !.msg_state = "ERROR", !.ret = "-1"]

\* http_parse_headers, whose loop stops at the first line that is empty or has no
\* colon, or at the last complete one. An empty line ends the headers, a line
\* without a colon is an error, after which next is where it was. The last
\* content-length counts.
http_parse_headers(m, a, c) ==
    LET stops == {k \in (m.next + 1)..Complete(a, c) : a[k] = "blank" \/ a[k] \notin Colon}
        stop == IF stops = {} THEN Complete(a, c) + 1 ELSE Min(stops)
        taken == (m.next + 1)..(stop - 1)
        lengths == {k \in taken : a[k] \in {"cl0", "cl"}}
        x == [m EXCEPT !.length = IF lengths = {} THEN @ ELSE a[Max(lengths)],
                       !.chunked = @ \/ \E k \in taken : a[k] = "te"]
    IN IF stops = {} THEN [x EXCEPT !.next = stop - 1, !.ret = "0"]
       ELSE IF a[stop] = "blank" THEN [x EXCEPT !.next = stop, !.msg_state = "BODY"]
       ELSE [x EXCEPT !.msg_state = "ERROR", !.ret = "-1"]

\* http_parse_chunk_size: what does not begin with a digit has size 0.
http_parse_chunk_size(m, a, c) ==
    IF m.next >= Complete(a, c)
      THEN [m EXCEPT !.ret = "0"]
      ELSE [m EXCEPT !.next = @ + 1,
                     !.msg_state = IF a[m.next + 1] = "size" THEN "CHUNK_DATA" ELSE "DONE"]

\* The body: chunks, none, or a length, for which the loop of the analyzer has
\* no exit unless it is 0.
Body(m) ==
    IF m.chunked THEN [m EXCEPT !.msg_state = "CHUNK_SIZE"]
    ELSE IF m.length = "cl" THEN m
    ELSE [m EXCEPT !.msg_state = "DONE", !.ret = "1"]

ChunkData(m, a, c) ==
    IF m.next >= Complete(a, c)
      THEN [m EXCEPT !.ret = "0"]
      ELSE [m EXCEPT !.next = @ + 1, !.msg_state = "CHUNK_SIZE"]

\* One turn of the switch in http_msg_analyzer.
Turn(m, a, c) ==
    CASE m.msg_state = "RQBEFORE" -> http_parse_request_line(m, a, c)
      [] m.msg_state = "HDR_FIRST" -> http_parse_headers(m, a, c)
      [] m.msg_state = "BODY" -> Body(m)
      [] m.msg_state = "CHUNK_SIZE" -> http_parse_chunk_size(m, a, c)
      [] m.msg_state = "CHUNK_DATA" -> ChunkData(m, a, c)
      [] m.msg_state = "DONE" -> [m EXCEPT !.ret = "1"]

\* http_msg_analyzer: turns until one returns. Every turn but those of a body
\* with a length moves on, so that a message still going after two turns a line
\* and five more goes on for ever.
http_msg_analyzer(m, a, c) ==
    LET fuel == 2 * Len(a) + 5
        after[n \in 0..fuel] ==
            IF n = 0 THEN [m EXCEPT !.ret = "go"]
            ELSE LET x == after[n - 1] IN IF x.ret = "go" THEN Turn(x, a, c) ELSE x
    IN after[fuel]

\* More of the message is read: more of the last line, or another line, whole or
\* in part.
HttpArrive ==
    /\ status \in {"none", "0"}
    /\ \/ /\ cut.on
          /\ cut' \in {Whole} \cup {c \in Cuts(area[Len(area)]) : c.ended > cut.ended}
          /\ UNCHANGED area
       \/ /\ ~cut.on /\ Len(area) < HttpLines
          /\ \E l \in Lines : area' = Append(area, l) /\ cut' \in {Whole} \cup Cuts(l)
    /\ UNCHANGED <<msg, status, split, looked>>

\* Mutant: what the headers said so far is forgotten between two calls.
ProcessAfresh ==
    /\ status \in {"none", "0"}
    /\ IF msg.msg_state \in BeforeBody
         THEN /\ msg' = http_msg_analyzer([msg EXCEPT !.chunked = FALSE], area, cut)
              /\ looked' = [lines |-> Len(area), cut |-> cut]
         ELSE msg' = [msg EXCEPT !.ret = "1"] /\ UNCHANGED looked
    /\ status' = IF msg'.ret = "go" THEN "never" ELSE msg'.ret
    /\ split' = (split \/ (msg.msg_state = "RQBEFORE" /\ Ended(area, cut) < 2))
    /\ UNCHANGED <<area, cut>>

\* http_process_request and http_process_response: the analyzer runs while the
\* headers are not over; a later call takes the message as it is. An analyzer
\* that never returns takes the caller with it.
http_process ==
    /\ status \in {"none", "0"}
    /\ IF msg.msg_state \in BeforeBody
         THEN /\ msg' = http_msg_analyzer(msg, area, cut)
              /\ looked' = [lines |-> Len(area), cut |-> cut]
         ELSE msg' = [msg EXCEPT !.ret = "1"] /\ UNCHANGED looked
    /\ status' = IF msg'.ret = "go" THEN "never" ELSE msg'.ret
    /\ split' = (split \/ (msg.msg_state = "RQBEFORE" /\ Ended(area, cut) < 2))
    /\ UNCHANGED <<area, cut>>

HttpNext == HttpArrive \/ http_process

-----------------------------------------------------------------------------
HttpTypeOK ==
    /\ area \in Seq(Lines) /\ Len(area) <= HttpLines
    /\ cut = Whole \/ (area # <<>> /\ cut \in Cuts(area[Len(area)]))
    /\ msg.msg_state \in BeforeBody \cup {"BODY", "CHUNK_SIZE", "CHUNK_DATA", "DONE", "ERROR"}
    /\ msg.next \in 0..Complete(area, cut)
    /\ status \in {"none", "-1", "0", "1", "never"} /\ split \in BOOLEAN
    /\ looked.lines \in 0..Len(area)

\* How a message was cut into reads does not show in what the parser has looked at:
\* after every call the message is in the state, and the parser at the place, that
\* a single call on those bytes gives. Two cuts are excluded. A request line of which
\* two words are not there yet is refused or taken short (http_parser.c:97, 117). After
\* an error the place is that of the last call without one (http_parser.c:162).
SplitUnseen ==
    (status # "none" /\ ~split) =>
        LET m == http_msg_analyzer(NewMsg(msg.first), SubSeq(area, 1, looked.lines), looked.cut)
        IN m.msg_state = msg.msg_state /\ (m.msg_state # "ERROR" => m.next = msg.next)

\* A message that http_process reports as ready is parsed to its end, unless its
\* body is chunked. The chunks that are there when the headers end are followed;
\* when they are not all there, the next call does not look at the rest
\* (http_parser.c:320) and reports the message as it is.
ReadyIsWhole ==
    status = "1" => msg.msg_state = "DONE" \/ msg.chunked

\* The parser leaves the headers only over an empty line that has arrived, with
\* nothing but lines with a colon before it.
BodyAfterBlank ==
    msg.msg_state \in {"BODY", "CHUNK_SIZE", "CHUNK_DATA", "DONE"}
        => \E k \in 1..msg.next : /\ area[k] = "blank" /\ k <= Complete(area, cut)
                                  /\ \A j \in 1..(k - 1) : area[j] \in Colon

\* What the parser knows does not depend on how the bytes came, a body follows only
\* its headers, and only a chunked body can be reported before its end.
ParsedAlike == SplitUnseen /\ ReadyIsWhole /\ BodyAfterBlank
=============================================================================
