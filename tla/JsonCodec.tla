------------------------------ MODULE JsonCodec ------------------------------
(***************************************************************************)
(* The chat lab's hand-written JSON (src/game-server/gameserver-           *)
(* fundamentals/lab1.3-ws-chat/websocket_session.cpp): make_payload and   *)
(* escape_json build every frame the server writes, parse_json_object     *)
(* reads every frame a client sends.  A string is a sequence of           *)
(* characters, each a one-character TLA+ string ("<BS>" and "<VT>" stand  *)
(* for \b and \v).  Positions are 1-based.                                 *)
(***************************************************************************)
EXTENDS Naturals, Sequences, SequencesExt, TLC

Quote == "\""
Backslash == "\\"

\* Mutant of escape_json: '"' is not escaped.
EscapeChar_NoQuote(c) ==
    CASE c = Backslash -> <<Backslash, Backslash>>
      [] c = "\n"      -> <<Backslash, "n">>
      [] c = "\r"      -> <<Backslash, "r">>
      [] c = "\t"      -> <<Backslash, "t">>
      [] OTHER         -> <<c>>

\* escape_json, one character: \\, \", \n, \r and \t; others as they are.
EscapeChar(c) ==
    CASE c = Backslash -> <<Backslash, Backslash>>
      [] c = Quote     -> <<Backslash, Quote>>
      [] c = "\n"      -> <<Backslash, "n">>
      [] c = "\r"      -> <<Backslash, "r">>
      [] c = "\t"      -> <<Backslash, "t">>
      [] OTHER         -> <<c>>

escape_json(s) == FlattenSeq([i \in 1..Len(s) |-> EscapeChar(s[i])])

\* "type", the key make_payload writes first.
TypeKey == <<"t", "y", "p", "e">>

\* make_payload(type, fields): {"type":"<type>","<k>":"<v>",...}, every
\* key and value through escape_json.
make_payload(type, fields) ==
    <<"{", Quote>> \o TypeKey \o <<Quote, ":", Quote>> \o escape_json(type) \o <<Quote>>
    \o FlattenSeq([i \in 1..Len(fields) |->
          <<",", Quote>> \o escape_json(fields[i][1]) \o <<Quote, ":", Quote>>
          \o escape_json(fields[i][2]) \o <<Quote>>])
    \o <<"}">>

\* std::isspace in the "C" locale.
Space == {" ", "\t", "\n", "\r", "\f", "<VT>"}

\* skip_ws: the first position at or after pos that is not white space.
RECURSIVE skip_ws(_, _)
skip_ws(in, pos) ==
    IF pos <= Len(in) /\ in[pos] \in Space THEN skip_ws(in, pos + 1) ELSE pos

\* The escapes parse_string accepts, and what they stand for.
Unescaped == [c \in {Backslash, Quote, "/", "b", "f", "n", "r", "t"} |->
                CASE c = "b" -> "<BS>" [] c = "f" -> "\f" [] c = "n" -> "\n"
                  [] c = "r" -> "\r"   [] c = "t" -> "\t" [] OTHER -> c]

\* parse_string's loop after the opening quote: [ok, value, pos], pos
\* just after the closing quote.  A bad escape, a backslash at the end or
\* no closing quote fails.
RECURSIVE string_body(_, _, _)
string_body(in, pos, acc) ==
    IF pos > Len(in) THEN [ok |-> FALSE, value |-> acc, pos |-> pos]
    ELSE IF in[pos] = Quote THEN [ok |-> TRUE, value |-> acc, pos |-> pos + 1]
    ELSE IF in[pos] # Backslash THEN string_body(in, pos + 1, Append(acc, in[pos]))
    ELSE IF pos + 1 > Len(in) \/ in[pos + 1] \notin DOMAIN Unescaped
         THEN [ok |-> FALSE, value |-> << >>, pos |-> pos]
    ELSE string_body(in, pos + 2, Append(acc, Unescaped[in[pos + 1]]))

\* parse_string: a string must start with '"' at pos.
parse_string(in, pos) ==
    IF pos > Len(in) \/ in[pos] # Quote THEN [ok |-> FALSE, value |-> << >>, pos |-> pos]
    ELSE string_body(in, pos + 1, << >>)

Fail(res) == [ok |-> FALSE, result |-> res]
Done(res) == [ok |-> TRUE, result |-> res]

\* The while loop of parse_json_object, one state per call; st is the
\* State enum, res the map built so far (result[key] = value, a later key
\* overwriting an earlier one).  After the loop, ok holds only in
\* ExpectCommaOrEnd at the end of the input.
RECURSIVE parse_loop(_, _, _, _, _)
parse_loop(in, p0, st, key, res) ==
    LET pos == skip_ws(in, p0)
    IN
    IF pos > Len(in) THEN IF st = "CommaOrEnd" THEN Done(res) ELSE Fail(res)
    ELSE CASE st = "ObjectStart" ->
                IF in[pos] # "{" THEN Fail(res)
                ELSE parse_loop(in, pos + 1, "KeyOrEnd", key, res)
           [] st = "KeyOrEnd" ->
                IF in[pos] = "}" THEN Done(res)
                ELSE LET k == parse_string(in, pos)
                     IN IF ~k.ok THEN Fail(res)
                        ELSE parse_loop(in, k.pos, "Colon", k.value, res)
           [] st = "Colon" ->
                IF in[pos] # ":" THEN Fail(res)
                ELSE parse_loop(in, pos + 1, "Value", key, res)
           [] st = "Value" ->
                LET v == parse_string(in, pos)
                IN IF ~v.ok THEN Fail(res)
                   ELSE parse_loop(in, v.pos, "CommaOrEnd", key, (key :> v.value) @@ res)
           [] st = "CommaOrEnd" ->
                CASE in[pos] = "," -> parse_loop(in, pos + 1, "KeyOrEnd", key, res)
                  [] in[pos] = "}" -> Done(res)
                  [] OTHER         -> Fail(res)

\* parse_json_object(payload, ok): [ok, result].
parse_json_object(in) == parse_loop(in, 1, "ObjectStart", << >>, << >>)

-----------------------------------------------------------------------------

\* The characters the check draws strings from: a letter and the three
\* that escape_json must escape or that parse_string treats specially.
Alphabet == {"a", Quote, Backslash, "\n"}
Words == BoundedSeq(Alphabet, 2)

\* Every frame make_payload builds from one field parses back, with
\* parse_json_object, to exactly its fields: escape_json and
\* parse_string's unescaping agree on quotes, backslashes and control
\* characters, and a field named "type" overwrites the type.
JsonCodecAgrees ==
    \A t, v \in Words, k \in Words \cup {TypeKey} :
        parse_json_object(make_payload(t, <<<<k, v>>>>))
            = Done((k :> v) @@ (TypeKey :> t))

\* A frame cut short is refused: parse_json_object reports ok only for a
\* complete object.
TruncatedFrameRefused ==
    \A t \in Words :
        LET f == make_payload(t, << >>) IN ~parse_json_object(SubSeq(f, 1, Len(f) - 1)).ok

=============================================================================
