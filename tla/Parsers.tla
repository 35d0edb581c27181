------------------------------ MODULE Parsers ------------------------------
(***************************************************************************)
(* The parsers of whole bodies and of the query: pure functions of a text, *)
(* which is a sequence of bytes.  Two independent pieces of code read      *)
(* "name=value&..." - FormParser for bodies, RequestContext for the query  *)
(* - and are checked against each other; the other functions are checked   *)
(* against definitions that do not scan.                                   *)
(***************************************************************************)
EXTENDS Naturals, Sequences, FiniteSets, SequencesExt

CONSTANTS
  MaxFieldSize, MaxTotalSize,  \* FormConfig
  SupportArrays,
  ValBits  \* the width of an int, cut to what TLC's integers hold

ASSUME ParsersAssumption ==
  MaxFieldSize \in Nat /\ MaxTotalSize \in Nat /\ SupportArrays \in BOOLEAN /\ ValBits \in 15 .. 30

\* The bytes that matter.
Tab == 9
LF == 10
CR == 13
Space == 32
Quote == 34
Percent == 37
Amp == 38
Plus == 43
Comma == 44
Hyphen == 45
Slash == 47
Zero == 48
Colon == 58
Semicolon == 59
Equals == 61
Question == 63
Open == 91
Close == 93
Brace == 125

Suffix(text, i) == SubSeq(text, i, Len(text))

\* The pieces std::getline reads: what is between separators, and not an empty rest.
Pieces(text, separator) ==
  LET stops == {i \in DOMAIN text : text[i] = separator} \cup {Len(text) + 1}
      start(e) == LET before == {s \in stops : s < e}
                  IN  IF before = {} THEN 1 ELSE 1 + CHOOSE s \in before : \A r \in before : r <= s
      ends == SetToSortSeq(stops, <)
      all == [k \in DOMAIN ends |-> SubSeq(text, start(ends[k]), ends[k] - 1)]
  IN  IF Last(all) = <<>> THEN Front(all) ELSE all

\* The place of the first such byte, or behind the text.
First(text, byte) ==
  LET at == {i \in DOMAIN text : text[i] = byte}
  IN  IF at = {} THEN Len(text) + 1 ELSE CHOOSE i \in at : \A j \in at : i <= j

\* The text without the blanks at its ends.
Trim(text, blanks) ==
  LET kept == {i \in DOMAIN text : text[i] \notin blanks}
  IN  IF kept = {} THEN <<>>
      ELSE SubSeq(text, CHOOSE i \in kept : \A j \in kept : i <= j,
                        CHOOSE i \in kept : \A j \in kept : i >= j)

NonEmpty(pieces) == SelectSeq(pieces, LAMBDA piece : piece # <<>>)

-----------------------------------------------------------------------------
(* Percent-encoding. *)

Digit(c) ==
  CASE c \in 48 .. 57 -> c - 48 [] c \in 65 .. 70 -> c - 55 [] c \in 97 .. 102 -> c - 87 [] OTHER -> 16
IsHex(c) == Digit(c) < 16
IsSpace(c) == c \in 9 .. 13 \cup {Space}
HexPrefix(a, b) == a = Zero /\ b \in {88, 120}
Hex(n) == IF n < 10 THEN 48 + n ELSE 55 + n
Unreserved(c) == c \in 48 .. 57 \cup 65 .. 90 \cup 97 .. 122 \cup {45, 46, 95, 126}

\* What the two libraries make of two characters, 256 if they fail.  Both pass over
\* a blank, take a sign, and end at a character that is no digit.  External.

\* operator>> with std::hex: "0x" is a prefix, and the digits behind it are missing.
StreamHex(a, b) ==
  CASE IsHex(a) /\ IsHex(b) -> 16 * Digit(a) + Digit(b)
    [] IsHex(a) /\ ~IsHex(b) -> IF HexPrefix(a, b) THEN 256 ELSE Digit(a)
    [] a \in (9 .. 13) \cup {Space, Plus} /\ IsHex(b) -> Digit(b)
    [] a = Hyphen /\ IsHex(b) -> (256 - Digit(b)) % 256
    [] OTHER -> 256

\* std::stoi with base 16: of "0x" it takes the 0 and leaves the x.
StoiHex(a, b) ==
  LET digits == IF IsHex(a) THEN 16 * Digit(a) + Digit(b) ELSE Digit(b)
  IN  CASE IsHex(a) /\ ~IsHex(b) -> Digit(a)
        [] IsHex(b) /\ (IsHex(a) \/ IsSpace(a) \/ a = Plus) -> digits
        [] IsHex(b) /\ a = Hyphen -> IF b = Zero THEN 0 ELSE 256 - digits
        [] OTHER -> 256

\* FormParserImpl::url_decode.
UrlDecode(text) ==
  LET from[i \in 1 .. Len(text) + 1] ==
        IF i > Len(text) THEN <<>>
        ELSE IF text[i] = Percent /\ i + 2 <= Len(text) /\ StreamHex(text[i + 1], text[i + 2]) < 256
             THEN <<StreamHex(text[i + 1], text[i + 2])>> \o from[i + 3]
             ELSE <<IF text[i] = Plus THEN Space ELSE text[i]>> \o from[i + 1]
  IN  from[1]

\* RequestContext's url_decode, by its branches.
QueryDecode(text) ==
  LET encoded(i) == text[i] = Percent /\ i + 2 <= Len(text) /\ StoiHex(text[i + 1], text[i + 2]) # 256
      from[i \in 1 .. Len(text) + 1] ==
        IF i > Len(text) THEN <<>>
        ELSE CASE encoded(i) -> <<StoiHex(text[i + 1], text[i + 2])>> \o from[i + 3]
               [] text[i] = Plus -> <<Space>> \o from[i + 1]
               [] OTHER -> <<text[i]>> \o from[i + 1]
  IN  from[1]

UrlEncode(text) ==
  FlattenSeq([i \in DOMAIN text |->
    IF Unreserved(text[i]) THEN <<text[i]>>
    ELSE <<Percent, Hex(text[i] \div 16), Hex(text[i] % 16)>>])

-----------------------------------------------------------------------------
(* Forms and queries. *)

At(pair) == First(pair, Equals)
ExtractFieldName(pair)  == SubSeq(pair, 1, At(pair) - 1)
ExtractFieldValue(pair) == Suffix(pair, At(pair) + 1)

IsArrayField(name) == SupportArrays /\ IsSuffix(<<Open, Close>>, name)
NormalizeFieldName(name) == IF IsArrayField(name) THEN SubSeq(name, 1, Len(name) - 2) ELSE name

Put(map, key, value) == [k \in DOMAIN map \cup {key} |-> IF k = key THEN value ELSE map[k]]

\* A field that is overwritten when its name comes again.
AddPairOverwrites(form, pair) ==
  LET name == UrlDecode(ExtractFieldName(pair)) value == UrlDecode(ExtractFieldValue(pair))
  IN  Put(form, NormalizeFieldName(name), [values |-> <<value>>, array |-> IsArrayField(name)])

AddPair(form, pair) ==
  LET name == UrlDecode(ExtractFieldName(pair)) value == UrlDecode(ExtractFieldValue(pair))
      key == NormalizeFieldName(name)
  IN  Put(form, key, IF key \in DOMAIN form
                     THEN [values |-> Append(form[key].values, value), array |-> TRUE]
                     ELSE [values |-> <<value>>, array |-> IsArrayField(name)])

\* The limits are on what was sent, before it is decoded.
FitsLimits(text) ==
  /\ Len(text) <= MaxTotalSize
  /\ \A pair \in Range(Pieces(text, Amp)) :
       Len(ExtractFieldName(pair)) <= MaxFieldSize /\ Len(ExtractFieldValue(pair)) <= MaxFieldSize

NoFields == [k \in {} |-> k]
ParseForm(text) == FoldLeft(AddPair, NoFields, NonEmpty(Pieces(text, Amp)))

\* A value is split at commas once it is decoded; an empty one is no value.
AddParameter(query, pair) ==
  LET key == QueryDecode(ExtractFieldName(pair))
      values == NonEmpty(Pieces(QueryDecode(ExtractFieldValue(pair)), Comma))
      before == IF key \in DOMAIN query THEN query[key] ELSE <<>>
  IN  IF values = <<>> THEN query ELSE Put(query, key, before \o values)

ParseQuery(text) == FoldLeft(AddParameter, NoFields, NonEmpty(Pieces(text, Amp)))

\* A piece of the Cookie header without "=" is left out; of two the last counts.
AddCookie(cookies, pair) ==
  IF At(pair) > Len(pair) THEN cookies
  ELSE Put(cookies, Trim(ExtractFieldName(pair), {Space, Tab}), Trim(ExtractFieldValue(pair), {Space, Tab}))

ParseCookies(text) == FoldLeft(AddCookie, NoFields, Pieces(text, Semicolon))

\* The target of a request, at its first "?".
PathOf(target) == SubSeq(target, 1, First(target, Question) - 1)
Query(target) == Suffix(target, First(target, Question) + 1)

-----------------------------------------------------------------------------
(* The credentials AuthMiddleware reads. *)

\* The value of a base64 digit; 64 is none.
Sextet(c) ==
  CASE c \in 65 .. 90 -> c - 65 [] c \in 97 .. 122 -> c - 71 [] c \in 48 .. 57 -> c + 4
    [] c = 43 -> 62 [] c = 47 -> 63 [] OTHER -> 64

\* The int val wraps; it has 32 bits in the code and ValBits here.  Of it only the
\* lowest bits are looked at, those of the last three digits at most.
Base64Step(s, c) ==
  LET val == (s.val % 2 ^ (ValBits - 6)) * 64 + Sextet(c)
      bits == s.bits + 6
  IN  CASE s.over \/ c = Equals -> [s EXCEPT !.over = TRUE]
        [] ~s.over /\ c # Equals /\ Sextet(c) = 64 -> s
        [] OTHER -> IF bits < 0 THEN [s EXCEPT !.val = val, !.bits = bits]
                    ELSE [s EXCEPT !.val = val, !.bits = bits - 8,
                                   !.out = Append(@, (val \div 2 ^ bits) % 256)]

Base64Decode(text) ==
  FoldLeft(Base64Step, [val |-> 0, bits |-> -8, over |-> FALSE, out |-> <<>>], text).out

\* parse_kv of a Digest header: in a key, in a value, or in its quotes.
KeyByte(c) == c \in 48 .. 57 \cup 65 .. 90 \cup 97 .. 122 \cup {45, 95}

KvStep(s, c) ==
  CASE s.in = "K" /\ c = Equals -> [s EXCEPT !.in = "V"]
    [] s.in = "K" /\ KeyByte(c) -> [s EXCEPT !.key = Append(@, c)]
    [] s.in = "V" /\ c = Quote -> [s EXCEPT !.in = "Q"]
    [] s.in = "V" /\ c = Comma ->
         [in |-> "K", key |-> <<>>, val |-> <<>>, out |-> Put(s.out, s.key, s.val)]
    [] s.in = "V" /\ c \notin {Quote, Comma, 127} /\ c >= Space -> [s EXCEPT !.val = Append(@, c)]
    [] s.in = "Q" /\ c = Quote -> [s EXCEPT !.in = "V"]
    [] s.in = "Q" /\ c \notin {Quote, CR, LF} -> [s EXCEPT !.val = Append(@, c)]
    [] OTHER -> s

ParseKv(text) ==
  LET s == FoldLeft(KvStep, [in |-> "K", key |-> <<>>, val |-> <<>>, out |-> NoFields], text)
  IN  IF s.key = <<>> THEN s.out ELSE Put(s.out, s.key, s.val)

-----------------------------------------------------------------------------
(* PlainTextParser::process_text. *)

CrlfToLf(text) ==
  LET from[i \in 1 .. Len(text) + 1] ==
        IF i > Len(text) THEN <<>>
        ELSE IF i < Len(text) /\ text[i] = CR /\ text[i + 1] = LF THEN <<LF>> \o from[i + 2]
        ELSE <<text[i]>> \o from[i + 1]
  IN  from[1]

NormalizeLineEndings(text) ==
  LET lf == CrlfToLf(text) IN [i \in DOMAIN lf |-> IF lf[i] = CR THEN LF ELSE lf[i]]

TrimWhitespace(text) == Trim(text, {c \in 9 .. Space : IsSpace(c)})

Lead(c) ==
  CASE c < 128 -> 1 [] c \in 192 .. 223 -> 2 [] c \in 224 .. 239 -> 3 [] c \in 240 .. 247 -> 4 [] OTHER -> 0
Follows(c) == c \in 128 .. 191

IsValidUtf8(text) ==
  LET from[i \in 1 .. Len(text) + 1] ==
        i <= Len(text) =>
          LET next == i + Lead(text[i])
          IN  next # i /\ next <= Len(text) + 1 /\ (\A j \in i + 1 .. next - 1 : Follows(text[j])) /\ from[next]
  IN  from[1]

\* What is switched on is done in this order; a text that is not UTF-8 then throws.
ProcessText(text, on) ==
  LET lines == IF "normalize_line_endings" \in on THEN NormalizeLineEndings(text) ELSE text
      result == IF "trim_whitespace" \in on THEN TrimWhitespace(lines) ELSE lines
  IN  [ok |-> "validate_encoding" \in on => IsValidUtf8(result), text |-> result]

-----------------------------------------------------------------------------
(* What JsonParser changes before it parses, the boundary of a multipart    *)
(* body, and the client's URLs.                                             *)

\* From "//" to the end of the line, inside a string too.
RemoveComments(text) ==
  LET from[i \in 1 .. Len(text) + 1] ==
        IF i > Len(text) THEN <<>>
        ELSE IF i < Len(text) /\ text[i] = Slash /\ text[i + 1] = Slash
             THEN from[i - 1 + First(Suffix(text, i), LF)]
             ELSE <<text[i]>> \o from[i + 1]
  IN  from[1]

\* The search for ",]" starts where the one for ",}" ended, at npos: it finds nothing.
PreprocessJson(text) ==
  LET json == RemoveComments(text)
      trailing(i) == json[i] = Comma /\ i < Len(json) /\ json[i + 1] = Brace
  IN  FlattenSeq([i \in DOMAIN json |-> IF trailing(i) THEN <<>> ELSE <<json[i]>>])

\* Of what follows "boundary=" in a Content-Type.
ExtractBoundary(text) ==
  LET ends == {i \in DOMAIN text : text[i] \in {Semicolon, Space, Tab, CR, LF}} \cup {Len(text) + 1}
      value == SubSeq(text, 1, (CHOOSE i \in ends : \A j \in ends : i <= j) - 1)
  IN  IF Len(value) >= 2 /\ Head(value) = Quote /\ Last(value) = Quote
      THEN SubSeq(value, 2, Len(value) - 1) ELSE value

\* Of what follows the scheme: the port is behind the last colon of the authority.
DefaultPort(https) == IF https THEN <<52, 52, 51>> ELSE <<56, 48>>

ParseAbsoluteUrl(text, https) ==
  LET authority == SubSeq(text, 1, First(text, Slash) - 1)
      colons == {i \in DOMAIN authority : authority[i] = Colon}
      colon == CHOOSE i \in colons : \A j \in colons : i >= j
      host == IF colons = {} THEN authority ELSE SubSeq(authority, 1, colon - 1)
      port == IF colons = {} THEN DefaultPort(https) ELSE Suffix(authority, colon + 1)
  IN  [ok |-> host # <<>>, host |-> host, port |-> port,
       target |-> IF Slash \in Range(text) THEN Suffix(text, First(text, Slash)) ELSE <<Slash>>,
       hostField |-> IF ~https /\ port = DefaultPort(FALSE) THEN host ELSE authority]

-----------------------------------------------------------------------------
(* Properties, of every text. *)

\* A text in which the two decoders read an escape differently.
HasHexPrefix(text) ==
  \E i \in 1 .. Len(text) - 2 : text[i] = Percent /\ HexPrefix(text[i + 1], text[i + 2])

\* Either decoder undoes the form parser's encoder; and the two agree on every
\* text, well encoded or not, in which no escape is "0x": for one of them that is
\* no escape, for the other it is the byte 0.
DecodingIsRight(text) ==
  /\ UrlDecode(UrlEncode(text)) = text /\ QueryDecode(UrlEncode(text)) = text
  /\ ~HasHexPrefix(text) => UrlDecode(text) = QueryDecode(text)

\* No pair sent is lost or goes to another name: a field has the values of the
\* pairs with its name in the order sent, and is an array if there are two or it
\* was written as one; and the query gives the same values, split at commas, where
\* the decoders agree.
FormIsRight(text) ==
  FitsLimits(text) =>
  LET pairs == NonEmpty(Pieces(text, Amp))
      form == ParseForm(text) query == ParseQuery(text)
      named(n) == SelectSeq(pairs, LAMBDA p : NormalizeFieldName(UrlDecode(ExtractFieldName(p))) = n)
  IN  /\ DOMAIN form = {NormalizeFieldName(UrlDecode(ExtractFieldName(p))) : p \in Range(pairs)}
      /\ \A n \in DOMAIN form :
           LET mine == named(n) IN
           /\ form[n].values = [i \in DOMAIN mine |-> UrlDecode(ExtractFieldValue(mine[i]))]
           /\ form[n].array =
                (Len(mine) > 1 \/ IsArrayField(UrlDecode(ExtractFieldName(mine[1]))))
           /\ ~HasHexPrefix(text) /\ n \in DOMAIN query /\ (\A i \in DOMAIN mine : ~IsArrayField(UrlDecode(ExtractFieldName(mine[i])))) =>
                query[n] = FlattenSeq([i \in DOMAIN mine |-> NonEmpty(Pieces(form[n].values[i], Comma))])

\* The path and the query are the target without its first "?".
TargetIsRight(text) ==
  /\ text = PathOf(text) \o (IF Question \in Range(text) THEN <<Question>> ELSE <<>>) \o Query(text)
  /\ Question \notin Range(PathOf(text))

\* The Cookie header gives each name the value it was last given.
CookiesAreRight(text) ==
  LET pairs == SelectSeq(Pieces(text, Semicolon), LAMBDA p : Equals \in Range(p))
      cookies == ParseCookies(text)
      name(p) == Trim(ExtractFieldName(p), {Space, Tab})
  IN  /\ DOMAIN cookies = {name(p) : p \in Range(pairs)}
      /\ \A i \in DOMAIN pairs :
           (\A j \in i + 1 .. Len(pairs) : name(pairs[j]) # name(pairs[i])) =>
             cookies[name(pairs[i])] = Trim(ExtractFieldValue(pairs[i]), {Space, Tab})

\* The base64 encoding of RFC 4648, by groups of three bytes.
Base64Encode(text) ==
  LET n == Len(text)
      byte(i) == IF i <= n THEN text[i] ELSE 0
      group(g) == 65536 * byte(3 * g - 2) + 256 * byte(3 * g - 1) + byte(3 * g)
      digit(g, d) == CHOOSE c \in 43 .. 122 : Sextet(c) = (group(g) \div 64 ^ (4 - d)) % 64
  IN  FlattenSeq([g \in 1 .. (n + 2) \div 3 |->
        [d \in 1 .. 4 |-> IF d <= n - 3 * g + 4 THEN digit(g, d) ELSE Equals]])

\* A password comes out of base64 as it went in, although val overflows on the
\* way, and a quoted Digest value keeps the separators in it.
CredentialsAreRight(text) ==
  /\ Base64Decode(Base64Encode(text)) = text
  /\ Range(text) \cap {Quote, CR, LF} = {} =>
       LET kv == ParseKv(<<66, Equals, Quote>> \o text \o <<Quote, Comma, Space, 50, Equals, 50>>)
       IN  DOMAIN kv = {<<66>>, <<50>>} /\ kv[<<66>>] = text /\ kv[<<50>>] = <<50>>

\* The bytes that are no white space, in order.
WithoutSpace(text) == FlattenSeq([i \in DOMAIN text |-> IF IsSpace(text[i]) THEN <<>> ELSE <<text[i]>>])

\* The line ends of a text, whichever they are, become line feeds and stay as many;
\* nothing but white space is trimmed.
LinesAreRight(text) ==
  LET normal == NormalizeLineEndings(text)
      breaks == {i \in DOMAIN text : text[i] = LF /\ ~(i > 1 /\ text[i - 1] = CR)} \cup
                {i \in DOMAIN text : text[i] = CR}
  IN  /\ CR \notin Range(normal)
      /\ Cardinality({i \in DOMAIN normal : normal[i] = LF}) = Cardinality(breaks)
      /\ WithoutSpace(TrimWhitespace(normal)) = WithoutSpace(text)

\* Neither the line ends nor the blanks decide whether a text is UTF-8, and a text
\* that was processed is not changed by being processed again.
ProcessingIsRight(text) ==
  LET all == {"normalize_line_endings", "trim_whitespace", "validate_encoding"}
      once == ProcessText(text, all)
  IN  once.ok = ProcessText(text, {"validate_encoding"}).ok /\ ProcessText(once.text, all) = once

\* A text from which exactly the bytes are taken that have "//" before them in
\* their line, and the commas before "}" or "]": no byte of the other lines is
\* lost, and all line ends stay, so that an error is reported in the right line.
WithoutCommentsAndCommas(text) ==
  LET commented(i) == \E j \in 1 .. i : /\ j < Len(text) /\ text[j] = Slash /\ text[j + 1] = Slash
                                        /\ \A k \in j .. i : text[k] # LF
      trailing(i) == text[i] = Comma /\ i < Len(text) /\ text[i + 1] \in {Brace, Close}
  IN  FlattenSeq([i \in DOMAIN text |-> IF commented(i) \/ trailing(i) THEN <<>> ELSE <<text[i]>>])

\* JsonParser changes a text as it means to, if no comma stands before a "]":
\* those it leaves where they are.
JsonIsRight(text) ==
  (\A i \in 1 .. Len(text) - 1 : text[i] = Comma => text[i + 1] # Close) =>
    PreprocessJson(text) = WithoutCommentsAndCommas(text)

\* A boundary is the same with and without the quotes around it.
BoundaryIsRight(text) ==
  Range(text) \cap {Quote, Semicolon, Space, Tab, CR, LF} = {} =>
    /\ ExtractBoundary(text \o <<Semicolon>>) = text
    /\ ExtractBoundary(<<Quote>> \o text \o <<Quote>>) = text

\* The Host header names the host and the port that are connected to, unless the
\* authority has more than one colon; and a target begins with "/".
UrlIsRight(text) ==
  \A https \in BOOLEAN :
    LET url == ParseAbsoluteUrl(text, https)
        again == ParseAbsoluteUrl(url.hostField, https)
    IN  url.ok =>
          /\ Head(url.target) = Slash
          /\ Cardinality({i \in 1 .. First(text, Slash) - 1 : text[i] = Colon}) < 2 =>
               again.host = url.host /\ again.port = url.port

\* A text is accepted exactly if its leading bytes have their followers and its
\* followers a leading byte.
Utf8IsRight(text) ==
  IsValidUtf8(text) =
    (/\ \A i \in DOMAIN text : ~Follows(text[i]) =>
          Lead(text[i]) # 0 /\ \A j \in i + 1 .. i + Lead(text[i]) - 1 : j <= Len(text) /\ Follows(text[j])
     /\ \A j \in DOMAIN text : Follows(text[j]) =>
          \E i \in 1 .. j - 1 : ~Follows(text[i]) /\ j < i + Lead(text[i]))
=============================================================================
