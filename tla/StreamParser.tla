---------------------------- MODULE StreamParser ----------------------------
(***************************************************************************)
(* MultipartStreamParser: a multipart body arrives in chunks cut anywhere, *)
(* even inside a boundary or a line break.  A byte is one of a few         *)
(* symbols; ":", a name and "q" stand for a Content-Disposition line and   *)
(* its name="...".  The 100 and the 10 in the code are Slack and Margin.   *)
(* What a field contains is not kept by the code, only counted.            *)
(***************************************************************************)
EXTENDS Naturals, Sequences, SequencesExt

CONSTANTS
  FieldName, FileName, \* the names of fields, and those that come with a filename
  Content,             \* the contents of a part
  MaxParts,            \* bound: the parts of a body
  Slack, Margin,
  MaxField, MaxFile,   \* config_.max_field_size, max_file_size
  MaxResets            \* bound: calls of reset

ASSUME StreamAssumption ==
  /\ FileName \subseteq FieldName /\ Content \subseteq Seq({"x", "-", "r", "n"})
  /\ FieldName \cap {"x", "-", "r", "n", "b", ":", "q", "nofield"} = {}
  /\ {MaxParts, Slack, Margin, MaxField, MaxFile, MaxResets} \subseteq Nat /\ Margin <= Slack

VARIABLES
  parts, eol,  \* what the client sends, and how it ends its lines
  rest,        \* what of it has not been fed
  parser,      \* the parser: see NewParser
  spoiled,     \* history: a chunk ended inside the end of the end boundary, or abort()
  resets

streamVars == <<parts, eol, rest, parser, spoiled, resets>>

FullBoundary == <<"-", "-", "b">>
NoField == "nofield"
Unnamed == "unnamed"

\* state_, buffer_, current_field_, current_field_size_, result_; and whether the
\* error callback was called and a buffer thrown away.
NewParser == [state |-> "Boundary", buffer |-> <<>>, field |-> NoField, size |-> 0, result |-> <<>>,
              reported |-> FALSE, flushed |-> FALSE]

\* A well-formed body.
PartText(p, nl) == FullBoundary \o nl \o <<":", p.name, "q">> \o nl \o nl \o p.content \o nl
BodyText(ps, nl) == FlattenSeq([i \in DOMAIN ps |-> PartText(ps[i], nl)]) \o FullBoundary \o <<"-", "-">> \o nl

Part == [name : FieldName, content : Content]

StreamInit ==
  /\ parts \in UNION {[1 .. n -> Part] : n \in 0 .. MaxParts}
  /\ eol \in {<<"r", "n">>, <<"n">>}
  /\ rest = BodyText(parts, eol) /\ parser = NewParser /\ spoiled = FALSE /\ resets = 0

-----------------------------------------------------------------------------
(* The processing of the buffer. *)

\* std::string::find, counted from one; zero is npos.
Find(text, pattern) ==
  LET at == {i \in 1 .. Len(text) + 1 - Len(pattern) :
               SubSeq(text, i, i + Len(pattern) - 1) = pattern}
  IN  IF at = {} THEN 0 ELSE CHOOSE i \in at : \A j \in at : i <= j

From(text, i) == SubSeq(text, i, Len(text))

Failed(p) == [p EXCEPT !.state = "Error", !.reported = TRUE]

TooLong(p) == Len(p.buffer) > Len(FullBoundary) + Slack

\* A boundary is skipped with the line break behind it; "--" behind it is the end.
AfterBoundary(text) ==
  CASE IsPrefix(<<"r", "n">>, text) -> From(text, 3)
    [] IsPrefix(<<"n">>, text) -> From(text, 2)
    [] OTHER -> text

\* Each step gives the parser and whether feed_data goes on.
ProcessBoundary(p) ==
  LET at == Find(p.buffer, FullBoundary)
      text == From(p.buffer, at + Len(FullBoundary))
  IN  CASE at = 0 -> <<IF TooLong(p) THEN Failed(p) ELSE p, FALSE>>
        [] at # 0 /\ IsPrefix(<<"-", "-">>, text) ->
             <<[p EXCEPT !.buffer = text, !.state = "Complete"], TRUE>>
        [] OTHER -> <<[p EXCEPT !.buffer = AfterBoundary(text), !.state = "Headers"], TRUE>>

\* A name needs its closing quote.
NameIn(data) ==
  LET at == {i \in 2 .. Len(data) - 1 : data[i - 1] = ":" /\ data[i + 1] = "q"}
  IN  IF at = {} THEN Unnamed ELSE data[CHOOSE i \in at : \A j \in at : j <= i]

\* The four last bytes of the header block are dropped, also if it ends with two
\* line feeds; fewer than four wrap around to the whole buffer.
HeaderData(text, end) == IF end < 4 THEN text ELSE SubSeq(text, 1, end - 4)

ProcessHeaders(p) ==
  LET crlf == Find(p.buffer, <<"r", "n", "r", "n">>)
      lf   == Find(p.buffer, <<"n", "n">>)
      end  == IF crlf # 0 THEN crlf + 3 ELSE lf + 1
  IN  IF crlf = 0 /\ lf = 0 THEN <<p, FALSE>>
      ELSE <<[p EXCEPT !.field = NameIn(HeaderData(p.buffer, end)), !.buffer = From(p.buffer, end + 1),
                       !.size = 0, !.state = "Content"], TRUE>>

WriteContentData(p, n) ==
  LET q == [p EXCEPT !.size = @ + n]
      limit == IF p.field \in FileName THEN MaxFile ELSE MaxField
  IN  CASE p.field = NoField -> p
        [] p.field # NoField /\ q.size > limit -> Failed(q)
        [] OTHER -> q

\* The length of the content before a boundary, without the line breaks at its end.
ContentEnd(text, at) ==
  LET kept == {i \in 1 .. at - 1 : text[i] \notin {"r", "n"}}
  IN  IF kept = {} THEN 0 ELSE CHOOSE i \in kept : \A j \in kept : j <= i

FinalizeCurrentField(p) ==
  IF p.field = NoField THEN p ELSE [p EXCEPT !.result = Append(@, p.field), !.field = NoField]

\* Without a boundary in it, a long buffer is counted and thrown away, the part
\* that was held back for a boundary included.  With one, the state is Boundary
\* again, also after an error.
ProcessContent(p) ==
  LET at == Find(p.buffer, FullBoundary)
      end == ContentEnd(p.buffer, at)
      written == IF end > 0 THEN WriteContentData(p, end) ELSE p
  IN  CASE at = 0 /\ TooLong(p) ->
             <<[WriteContentData(p, Len(p.buffer) - Len(FullBoundary) - Margin)
                  EXCEPT !.buffer = <<>>, !.flushed = TRUE], FALSE>>
        [] at = 0 /\ ~TooLong(p) -> <<p, FALSE>>
        [] OTHER -> <<[FinalizeCurrentField(written) EXCEPT !.buffer = From(p.buffer, at),
                                                            !.state = "Boundary"], TRUE>>

Process(p) ==
  CASE p.state = "Boundary" -> ProcessBoundary(p)
    [] p.state = "Headers"  -> ProcessHeaders(p)
    [] p.state = "Content"  -> ProcessContent(p)

Round(step) ==
  IF step[2] /\ step[1].buffer # <<>> /\ step[1].state \notin {"Complete", "Error"}
  THEN Process(step[1]) ELSE <<step[1], FALSE>>

\* The loop of feed_data.  A round that goes on takes something from the buffer or
\* leaves Content for Boundary, so it is over after this many.
Consume(p) ==
  LET rounds == 2 * Len(p.buffer) + 2
      after[i \in 0 .. rounds] == IF i = 0 THEN <<p, TRUE>> ELSE Round(after[i - 1])
  IN  after[rounds][1]

-----------------------------------------------------------------------------
(* The calls. *)

\* feed_data with the next n bytes.
FeedData(n) ==
  /\ n \in 1 .. Len(rest)
  /\ parser' = Consume([parser EXCEPT !.buffer = @ \o SubSeq(rest, 1, n)])
  /\ rest' = From(rest, n + 1)
  /\ spoiled' = (spoiled \/ Len(rest') - Len(eol) \in {1, 2})
  /\ UNCHANGED <<parts, eol, resets>>

\* A reset that keeps the buffer.
ResetKeeps ==
  /\ resets < MaxResets /\ resets' = resets + 1 /\ rest' = BodyText(parts, eol) /\ spoiled' = FALSE
  /\ parser' = [parser EXCEPT !.state = "Boundary", !.size = 0, !.result = <<>>, !.reported = FALSE]
  /\ UNCHANGED <<parts, eol>>

\* reset() keeps current_field_; then the body is sent again.
Reset ==
  /\ resets < MaxResets /\ resets' = resets + 1 /\ rest' = BodyText(parts, eol) /\ spoiled' = FALSE
  /\ parser' = [NewParser EXCEPT !.field = parser.field]
  /\ UNCHANGED <<parts, eol>>

Abort ==
  /\ parser' = [parser EXCEPT !.state = "Error"] /\ spoiled' = TRUE
  /\ UNCHANGED <<parts, eol, rest, resets>>

StreamNext == (\E n \in 1 .. Len(rest) : FeedData(n)) \/ Reset \/ Abort

StreamSpec == StreamInit /\ [][StreamNext]_streamVars

-----------------------------------------------------------------------------
(* Properties. *)

\* The content of a part as the parser counts it.
Counted(p) == ContentEnd(p.content, Len(p.content) + 1)
Oversized(p) == Counted(p) > IF p.name \in FileName THEN MaxFile ELSE MaxField

\* However a body with CRLF line ends is cut into chunks, and after a reset() at
\* any moment, every field is found, once and in order, and a content over the
\* limit is reported - as long as no chunk ends inside the "--" of the end
\* boundary, the parts are short enough never to fill the buffer, and abort() was
\* not called.
FindsEveryField ==
  rest = <<>> /\ Len(eol) = 2 /\ ~spoiled /\ ~parser.flushed =>
    /\ parser.state = "Complete"
    /\ parser.result = [i \in DOMAIN parts |-> parts[i].name]
    /\ parser.reported = (\E i \in DOMAIN parts : Oversized(parts[i]))
=============================================================================
