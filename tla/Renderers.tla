------------------------------ MODULE Renderers ------------------------------
(***************************************************************************)
(* Rendering an event for one route: the tail of SinkCrossbar::process_    *)
(* and of dispatch_sync_, with PatternRenderer, AnsiConsoleRenderer and    *)
(* JsonRenderer (src/renderers), or no renderer. A user's own is left out. *)
(*                                                                         *)
(* A text is a sequence of symbols. A symbol is a character that the code  *)
(* treats specially ("{", "}", quotes, backslash, newline, controls), or a *)
(* run of characters in which it treats none so: a token's name, a number, *)
(* a date, the hexadecimal digits of an escape, a terminal escape, a       *)
(* word. "SOH" stands for the control characters without an escape of      *)
(* their own, "HIGH" for the bytes from 0x80, negative as a signed char.   *)
(***************************************************************************)
EXTENDS Integers, SequencesExt

CONSTANTS RendererChoices,  \* the renderers of the routes to consider
          EventsFor(_),     \* the events that a renderer is given
          Symbols,          \* the symbols that texts are made of
          Numerals          \* those that are JSON numbers

\* What std::format writes for the doubles that JSON cannot express.
NonFinite == {"nan", "-nan", "inf", "-inf"}

\* A text. Field values have the types of FieldValue, and the text json_value_append
\* makes of them: of a number, one symbol.
Text == Seq(Symbols)
Digits == {<<d>> : d \in Numerals}
Doubles == {<<d>> : d \in Numerals \cup NonFinite}
FieldValue == [type : {"null"}, text : {<<"null">>}] \cup [type : {"bool"}, text : {<<"true">>, <<"false">>}]
              \cup [type : {"int"}, text : Digits] \cup [type : {"double"}, text : Doubles]
              \cup [type : {"string"}, text : Text]

Event == [time : Text, severity : Text, priority : Nat, endpoint : Text, message : Text, file : Text,
          line : Digits, func : Text, tid : Digits, fields : Seq([key : Text, value : FieldValue])]

\* A renderer that can be constructed with one of the patterns, JsonRenderer with any
\* setting of its flags, or none.
PatternRenderers(patterns) == [kind : {"pattern", "ansi"}, pattern : patterns]
JsonRenderers == [kind : {"json"}, include_source : BOOLEAN, include_thread : BOOLEAN, include_fields : BOOLEAN]
Renderer == PatternRenderers(Text) \cup JsonRenderers \cup [kind : {"none"}]

VARIABLES renderer,  \* the route's renderer, fixed
          buffer,    \* the worker's reused buffer; afterwards, what the sink is given
          ev         \* lane_loop_'s local event: the one rendered last

vars == <<renderer, buffer, ev>>

NL == "\n"
CR == "\r"
TAB == "\t"
QUOTE == "\""
BACKSLASH == "\\"
LBRACE == "{"
RBRACE == "}"
COMMA == ","
COLON == ":"

\* The built-in severities and their priorities.
severity == [trace |-> 100, debug |-> 200, info |-> 300, warn |-> 400, error |-> 500, fatal |-> 600]

\* Event as it is constructed. time and line stand for the text they are formatted as.
DefaultEvent ==
  [time |-> <<"00:00">>, severity |-> <<"INFO">>, priority |-> severity.info, endpoint |-> <<>>,
   message |-> <<>>, file |-> <<>>, line |-> <<"0">>, func |-> <<>>, tid |-> <<"0">>, fields |-> <<>>]

\* Logger::make_event_, at some time and place, in some thread.
make_event(name, priority, endpoint, message) ==
  [DefaultEvent EXCEPT !.time = <<"12:00">>, !.severity = name, !.priority = priority,
                       !.endpoint = endpoint, !.file = <<"a.cpp">>, !.line = <<"7">>, !.func = <<"f">>,
                       !.tid = <<"1">>, !.message = message]

\* Event::set_fields, as log_fields_at calls it.
set_fields(e, fields) == [e EXCEPT !.fields = fields]

-----------------------------------------------------------------------------
(* PatternRenderer.                                                        *)

\* The tokens in the order in which render() replaces them.
Tokens == <<"time", "severity", "severity_priority", "endpoint", "message",
            "file", "line", "func", "tid">>

Token(k) == <<LBRACE, k, RBRACE>>

ValueOf(e, k) ==
  IF k = "severity_priority" THEN <<ToString(e.priority)>> ELSE e[k]

\* std::string::find: the first place at or after pos where key occurs, or 0.
find(s, key, pos) ==
  LET at == {i \in pos..(Len(s) - Len(key) + 1) : SubSeq(s, i, i + Len(key) - 1) = key}
  IN IF at = {} THEN 0 ELSE Min(at)

\* render()'s lambda: the search goes on after the inserted value. Each turn of the loop
\* that finds the key leaves less text to search, so that Len(s) turns are enough.
replace_all(s, key, val) ==
  LET turn[n \in 0..Len(s)] ==
        IF n = 0 THEN [out |-> s, pos |-> 1]
        ELSE LET last == turn[n - 1]
                 i == find(last.out, key, last.pos)
             IN IF i = 0 THEN last
                ELSE [out |-> ReplaceSubSeqAt(i, val, key, last.out), pos |-> i + Len(val)]
  IN turn[Len(s)].out

\* The tokens replaced one after the other.
ReplaceTokens(order, pattern, e) ==
  LET after[j \in 0..Len(order)] ==
        IF j = 0 THEN pattern
        ELSE replace_all(after[j - 1], Token(order[j]), ValueOf(e, order[j]))
  IN after[Len(order)]

EndLine(s) == IF s # <<>> /\ Last(s) # NL THEN Append(s, NL) ELSE s

\* Mutant: the tokens are replaced in another order.
PatternRenderBackwards(pattern, e) ==
  EndLine(ReplaceTokens(Reverse(Tokens), pattern, e))

\* PatternRenderer::render
PatternRender(pattern, e) ==
  EndLine(ReplaceTokens(Tokens, pattern, e))

-----------------------------------------------------------------------------
(* AnsiConsoleRenderer.                                                    *)

\* The tests of detail::ansi_for, in their order.
AnsiRules == << <<severity.fatal, "magenta">>, <<severity.error, "red">>, <<severity.warn, "yellow">>,
                <<severity.info, "green">>, <<severity.debug, "cyan">> >>

\* Mutant: a priority equal to a severity's does not count.
AnsiForAbove(p) ==
  LET hits == {i \in DOMAIN AnsiRules : p > AnsiRules[i][1]}
  IN IF hits = {} THEN "grey" ELSE AnsiRules[Min(hits)][2]

ansi_for(p) ==
  LET hits == {i \in DOMAIN AnsiRules : p >= AnsiRules[i][1]}
  IN IF hits = {} THEN "grey" ELSE AnsiRules[Min(hits)][2]

\* AnsiConsoleRenderer::render colours the first occurrence of the severity's name.
AnsiRender(pattern, e) ==
  LET out == PatternRender(pattern, e)
      pos == find(out, e.severity, 1)
  IN IF pos = 0 THEN out
     ELSE ReplaceSubSeqAt(pos, <<ansi_for(e.priority)>> \o e.severity \o <<"reset">>, e.severity, out)

-----------------------------------------------------------------------------
(* JsonRenderer.                                                           *)

\* The characters with a short escape (\b and \f are treated like these).
ShortEscape == [c \in {QUOTE, BACKSLASH, NL, CR, TAB} |->
  CASE c = QUOTE -> QUOTE [] c = BACKSLASH -> BACKSLASH [] c = NL -> "n" [] c = CR -> "r" [] c = TAB -> "t"]

\* Mutant: the comparison with 0x20 is made on a signed char.
EscapeSignedChar(c) ==
  IF c \in DOMAIN ShortEscape THEN <<BACKSLASH, ShortEscape[c]>>
  ELSE IF c \in {"SOH", "HIGH"} THEN <<BACKSLASH, "u", IF c = "SOH" THEN "0001" ELSE "ffffffc3">>
  ELSE <<c>>

\* The switch of json_escape_append.
EscapeChar(c) ==
  IF c \in DOMAIN ShortEscape THEN <<BACKSLASH, ShortEscape[c]>>
  ELSE IF c = "SOH" THEN <<BACKSLASH, "u", "0001">>
  ELSE <<c>>

json_escape(s) ==
  <<QUOTE>> \o FlattenSeq([i \in DOMAIN s |-> EscapeChar(s[i])]) \o <<QUOTE>>

\* json_value_append: null, true, a number's digits and the words of NonFinite are one symbol.
json_value(v) == IF v.type = "string" THEN json_escape(v.text) ELSE v.text

Member(name, value) == <<QUOTE, name, QUOTE, COLON>> \o value

JsonSource(e) ==
  <<COMMA>> \o Member("source", <<LBRACE>>) \o Member("file", json_escape(e.file))
  \o <<COMMA>> \o Member("line", e.line)
  \o <<COMMA>> \o Member("func", json_escape(e.func)) \o <<RBRACE>>

JsonFields(e) ==
  <<COMMA>> \o Member("fields", <<LBRACE>>)
  \o FlattenSeq([i \in DOMAIN e.fields |->
       (IF i > 1 THEN <<COMMA>> ELSE <<>>)
       \o json_escape(e.fields[i].key) \o <<COLON>> \o json_value(e.fields[i].value)])
  \o <<RBRACE>>

\* JsonRenderer::render; r holds the three include_ flags.
JsonRender(r, e) ==
  <<LBRACE>> \o Member("time", json_escape(e.time))
  \o <<COMMA>> \o Member("level", json_escape(e.severity))
  \o <<COMMA>> \o Member("endpoint", json_escape(e.endpoint))
  \o <<COMMA>> \o Member("message", json_escape(e.message))
  \o (IF r.include_thread THEN <<COMMA>> \o Member("tid", e.tid) ELSE <<>>)
  \o (IF r.include_source THEN JsonSource(e) ELSE <<>>)
  \o (IF r.include_fields /\ e.fields # <<>> THEN JsonFields(e) ELSE <<>>)
  \o <<RBRACE, NL>>

-----------------------------------------------------------------------------
(* Assumptions.                                                            *)

\* The symbols that a renderer writes on its own account.
OwnSymbols ==
  {LBRACE, RBRACE, QUOTE, BACKSLASH, NL, COMMA, COLON, "n", "r", "t", "u", "0001", "null", "true", "false",
   "time", "level", "endpoint", "message", "tid", "source", "file", "line", "func", "fields",
   "severity", "severity_priority", "grey", "cyan", "green", "yellow", "red", "magenta", "reset"}

\* A number is none of JSON's other symbols; formatting a priority gives a symbol.
ASSUME RenderAssumption ==
  /\ OwnSymbols \subseteq Symbols
  /\ Numerals \cup NonFinite \subseteq Symbols \ {QUOTE, LBRACE}
  /\ RendererChoices \subseteq Renderer
  /\ \A r \in RendererChoices : \A e \in EventsFor(r) : e \in Event /\ ToString(e.priority) \in Symbols

-----------------------------------------------------------------------------
(* One event.                                                              *)

\* IRenderer::render into the cleared buffer, or the message itself.
Render(e) ==
  CASE renderer.kind = "none"    -> EndLine(e.message)
    [] renderer.kind = "pattern" -> PatternRender(renderer.pattern, e)
    [] renderer.kind = "ansi"    -> AnsiRender(renderer.pattern, e)
    [] renderer.kind = "json"    -> JsonRender(renderer, e)

\* process_, for an event that passes the route's filters.
process(e) ==
  /\ buffer' = Render(e)
  /\ ev' = e
  /\ UNCHANGED renderer

Init ==
  /\ renderer \in RendererChoices
  /\ buffer = <<>>
  /\ ev = DefaultEvent

Next == \E e \in EventsFor(renderer) : process(e)

Spec == Init /\ [][Next]_vars

-----------------------------------------------------------------------------
(* Reference definitions.                                                  *)

\* One of the tokens of K begins at position i of s.
TokenAt(s, i, K) == i + 2 <= Len(s) /\ s[i] = LBRACE /\ s[i + 1] \in K /\ s[i + 2] = RBRACE

\* The tokens of K in s replaced by their values, everything else copied, in one pass.
ExpandSome(s, K, value) ==
  LET from[i \in 1..(Len(s) + 1)] ==
        IF i > Len(s) THEN <<>>
        ELSE IF TokenAt(s, i, K) THEN value[s[i + 1]] \o from[i + 3]
        ELSE <<s[i]>> \o from[i + 1]
  IN from[1]

\* What the tokens of a pattern mean.
Expand(s, e) == ExpandSome(s, ToSet(Tokens), [k \in ToSet(Tokens) |-> ValueOf(e, k)])

\* A JSON parser (RFC 8259) for texts of symbols, which also takes the words of NonFinite
\* for numbers. A result has the value and the position after it, or is Fail.
Atoms == Numerals \cup NonFinite \cup {"null", "true", "false"}
Fail == [next |-> 0, value |-> <<>>]

\* The characters of a string from position i up to the closing quote, decoded.
Strings(t) ==
  LET str[i \in 1..(Len(t) + 1)] ==
        LET Prepend(c, rest) == IF rest.next = 0 THEN Fail
                                ELSE [next |-> rest.next, value |-> <<c>> \o rest.value]
            Then(c, j) == Prepend(c, IF j > Len(t) THEN Fail ELSE str[j])
        IN IF i > Len(t) THEN Fail
           ELSE IF t[i] = QUOTE THEN [next |-> i + 1, value |-> <<>>]
           ELSE IF t[i] = BACKSLASH /\ i < Len(t) /\ \E x \in DOMAIN ShortEscape : ShortEscape[x] = t[i + 1]
             THEN Then(CHOOSE x \in DOMAIN ShortEscape : ShortEscape[x] = t[i + 1], i + 2)
           ELSE IF t[i] = BACKSLASH /\ i + 1 < Len(t) /\ t[i + 1] = "u" /\ t[i + 2] = "0001"
             THEN Then("SOH", i + 3)
           ELSE IF t[i] \in {BACKSLASH, NL, CR, TAB, "SOH"} THEN Fail
           ELSE Then(t[i], i + 1)
  IN str

\* The value and the members of an object from position i. A value is <<kind, content>>;
\* an object's content is the sequence of its members.
Parsed(t) ==
  LET str == Strings(t)
      Symbol(i) == IF i \in 1..Len(t) THEN t[i] ELSE NL
      at[p \in {"value", "members"} \X (1..(Len(t) + 1))] ==
        LET what == p[1]
            i == p[2]
            Later(w, j) == IF j \in (i + 1)..(Len(t) + 1) THEN at[<<w, j>>] ELSE Fail
            Of(kind, r) == IF r.next = 0 THEN Fail ELSE [next |-> r.next, value |-> <<kind, r.value>>]
            key == IF Symbol(i) = QUOTE THEN str[i + 1] ELSE Fail
            val == IF Symbol(key.next) = COLON THEN Later("value", key.next + 1) ELSE Fail
            member == <<key.value, val.value>>
            more == IF Symbol(val.next) = COMMA THEN Later("members", val.next + 1) ELSE Fail
        IN CASE what = "members" ->
                  IF Symbol(val.next) = RBRACE THEN [next |-> val.next + 1, value |-> <<member>>]
                  ELSE IF more.next = 0 THEN Fail
                  ELSE [next |-> more.next, value |-> <<member>> \o more.value]
             [] what = "value" ->
                  IF Symbol(i) = QUOTE THEN Of("string", key)
                  ELSE IF Symbol(i) = LBRACE THEN Of("object", Later("members", i + 1))
                  ELSE IF Symbol(i) \in Atoms
                  THEN [next |-> i + 1, value |-> <<"atom", <<Symbol(i)>> >>]
                  ELSE Fail
  IN at

\* The object that stands for event e, with the members the flags of r ask for.
ObjectFor(r, e) ==
  LET Str(name, s) == << <<name>>, <<"string", s>> >>
      Atom(name, s) == << <<name>>, <<"atom", s>> >>
      Object(name, ms) == << <<name>>, <<"object", ms>> >>
      Kind(v) == IF v.type = "string" THEN "string" ELSE "atom"
  IN << Str("time", e.time), Str("level", e.severity), Str("endpoint", e.endpoint), Str("message", e.message) >>
     \o (IF r.include_thread THEN <<Atom("tid", e.tid)>> ELSE <<>>)
     \o (IF r.include_source
         THEN <<Object("source", <<Str("file", e.file), Atom("line", e.line), Str("func", e.func)>>)>>
         ELSE <<>>)
     \o (IF r.include_fields /\ e.fields # <<>>
         THEN <<Object("fields", [i \in DOMAIN e.fields |->
                 <<e.fields[i].key, <<Kind(e.fields[i].value), e.fields[i].value.text>> >>])>>
         ELSE <<>>)

-----------------------------------------------------------------------------
(* Properties.                                                             *)

Rendered(kind) == ev # DefaultEvent /\ renderer.kind = kind

\* Does every "{" in s begin a token that is replaced no later than k?
Settled(s, k) ==
  \A i \in DOMAIN s : s[i] = LBRACE =>
    \E j \in DOMAIN Tokens : TokenAt(s, i, {Tokens[j]}) /\ \A m \in 1..(j - 1) : Tokens[m] # k

\* Can v neither be empty nor complete a token whose beginning precedes it?
Separates(v) == v # <<>> /\ v[1] \notin ToSet(Tokens) \cup {RBRACE}

\* Replacing the tokens one after the other in the text produced so far gives what
\* the pattern means, also when a message or an endpoint itself contains token
\* texts, as long as these are of tokens already replaced: they are copied and not
\* expanded. (A message with "{file}" in it does get expanded. And in a pattern with a "{"
\* outside its tokens a value may complete a token, even an empty one: "{{message}file}"
\* with an empty message. Hence the last condition.)
PatternExpands ==
  /\ Rendered("pattern")
  /\ \A k \in ToSet(Tokens) : Settled(ValueOf(ev, k), k)
  /\ Settled(renderer.pattern, Last(Tokens)) \/ \A k \in ToSet(Tokens) : Separates(ValueOf(ev, k))
  => buffer = EndLine(Expand(renderer.pattern, ev))

\* Colouring only inserts a colour and a reset around one occurrence of the
\* severity's name: what a terminal shows is what the pattern renderer wrote, and
\* the colour is that of the most severe built-in severity the event reaches, so
\* that a custom severity is coloured like the built-in one below it.
AnsiOnlyColours ==
  Rendered("ansi") =>
    LET plain == PatternRender(renderer.pattern, ev)
        colour == [trace |-> "grey", debug |-> "cyan", info |-> "green",
                   warn |-> "yellow", error |-> "red", fatal |-> "magenta"]
        reached == {s \in DOMAIN severity : severity[s] <= ev.priority}
        code == {colour[s] : s \in {s \in reached : \A q \in reached : severity[q] <= severity[s]}}
    IN \/ buffer = plain /\ find(plain, ev.severity, 1) = 0
       \/ \E i \in DOMAIN buffer :
            LET j == i + Len(ev.severity) + 1 IN
            /\ buffer[i] \in (IF reached = {} THEN {"grey"} ELSE code)
            /\ j \in DOMAIN buffer /\ buffer[j] = "reset"
            /\ SubSeq(buffer, i + 1, j - 1) = ev.severity
            /\ RemoveAt(RemoveAt(buffer, j), i) = plain

\* A rendered event is one line that parses as a JSON object with exactly the
\* members asked for, and decodes to exactly the event's texts: no message, field or
\* endpoint, whatever quotes, backslashes, controls or bytes it contains, can end its
\* string, add a member or break the line. A double that JSON cannot express is written
\* as a word that is not JSON, and spoils no more than its own value: the parser reads
\* it as that value, and everything around it as before.
JsonRoundTrip ==
  Rendered("json") =>
    Parsed(buffer)[<<"value", 1>>] = [next |-> Len(buffer), value |-> <<"object", ObjectFor(renderer, ev)>>]
=============================================================================
