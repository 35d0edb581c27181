------------------------------ MODULE MCBodies ------------------------------
(***************************************************************************)
(* Instances of StreamParser and of Parsers for TLC.  A behaviour feeds a  *)
(* multipart body to the stream parser, or makes a text byte by byte and   *)
(* the parsers of whole texts are checked on every text it reaches.        *)
(***************************************************************************)
EXTENDS StreamParser, Parsers

CONSTANTS
  Alphabet,  \* the bytes of each kind of text
  MaxText    \* bound: the length of a text

VARIABLES part, text

bodyVars == <<streamVars, part, text>>

\* Empty, like a boundary, with a line break in it, and too long.
MCContents == {<<>>, <<"x">>, <<"-", "-", "x">>, <<"x", "r", "n", "-">>, <<"x", "x", "x", "x", "x">>}

Alphabets ==
  [form   |-> {37, 38, 44, 48, 61, 91, 93, 120},
   escape |-> {32, 37, 43, 45, 48, 56, 120},
   cookie |-> {9, 32, 44, 48, 59, 61},
   lines  |-> {10, 13, 32, 128, 195},
   utf8   |-> {32, 128, 195, 226, 240},
   secret |-> {32, 44, 61, 128, 195},
   marks  |-> {10, 34, 44, 47, 48, 56, 58, 63, 93, 125}]

\* Whatever part moves, the stream parser of the other parts rests before an empty body.
BodyInit ==
  /\ text = <<>> /\ StreamInit
  /\ part # "stream" => parts = <<>> /\ Len(eol) = 2

Write ==
  /\ part \in DOMAIN Alphabet /\ Len(text) < MaxText
  /\ \E c \in Alphabet[part] : text' = Append(text, c)
  /\ UNCHANGED streamVars

BodyNext ==
  /\ UNCHANGED part
  /\ \/ part = "stream" /\ StreamNext /\ UNCHANGED text
     \/ Write

BodySpec == part \in {"stream"} \cup DOMAIN Alphabet /\ BodyInit /\ [][BodyNext]_bodyVars

-----------------------------------------------------------------------------
(* Properties. *)

\* What a client encodes into a form, a query or a Cookie header is what the
\* handlers read, whichever of the two decoders reads it, and so are a base64
\* password and a quoted Digest value with separators in them; PlainTextParser
\* changes nothing but line ends and the blanks around a text and accepts the
\* UTF-8 it should; JsonParser takes out comments and, where no array ends behind
\* one, trailing commas and no more; and the client connects to the server that its
\* Host header names.
ParsersAreRight ==
  /\ part = "form" => FormIsRight(text)
  /\ part = "escape" => DecodingIsRight(text)
  /\ part = "cookie" => CookiesAreRight(text)
  /\ part = "lines" => LinesAreRight(text) /\ ProcessingIsRight(text)
  /\ part = "utf8" => Utf8IsRight(text) /\ ProcessingIsRight(text)
  /\ part = "secret" => CredentialsAreRight(text)
  /\ part = "marks" => JsonIsRight(text) /\ BoundaryIsRight(text) /\ UrlIsRight(text) /\ TargetIsRight(text)

\* json_parser.cpp:159 says "Remove trailing commas if not allowed", and the code
\* goes on to look for them before "}" and then before "]".
TrailingCommasGone == part = "marks" => PreprocessJson(text) = WithoutCommentsAndCommas(text)
=============================================================================
