----------------------------- MODULE MCRenderers -----------------------------
(***************************************************************************)
(* Instances of Renderers for TLC: every pattern of up to three pieces,    *)
(* messages with token texts in them, every JSON text of up to two         *)
(* symbols of each class, and priorities on both sides of the thresholds.  *)
(***************************************************************************)
EXTENDS Renderers

Pieces == {<<"{">>, <<"}">>, <<"x">>, <<"severity">>, Token("severity"), Token("message"), Token("line")}

\* A severity with an empty name leaves the token {line} behind in the last one.
Patterns == {FlattenSeq(p) : p \in BoundedSeq(Pieces, 3)} \cup {<<"{">> \o Token("severity") \o <<"line", "}">>}

MCRenderers ==
  PatternRenderers(Patterns) \cup JsonRenderers \cup [kind : {"none"}]

Messages == {<<>>, <<"x">>, <<"INFO", NL>>, Token("severity"), <<"x">> \o Token("message"), Token("line")}

Severities == {<< <<"INFO">>, 300>>, << <<"FATAL">>, 600>>, << <<"x">>, 199>>, << <<>>, 450>>, << <<"severity">>, 0>>}

JsonTexts == BoundedSeq({QUOTE, BACKSLASH, NL, "SOH", "HIGH", "n"}, 2)

FieldChoices ==
  {<<>>} \cup {<<f>> : f \in [key : {<<"k">>, <<QUOTE, "}">>},
                              value : {[type |-> "null", text |-> <<"null">>],
                                       [type |-> "double", text |-> <<"0.5">>],
                                       [type |-> "double", text |-> <<"nan">>]}]}
         \cup {<<[key |-> <<"k">>, value |-> v],
                 [key |-> <<"k">>, value |-> [type |-> "string", text |-> s]]>> :
                   v \in {[type |-> "bool", text |-> <<"true">>], [type |-> "double", text |-> <<"-inf">>]},
                   s \in {<<QUOTE>>, <<",", BACKSLASH>>}}

MCEventsFor(r) ==
  IF r.kind = "json"
  THEN {set_fields(make_event(<<"INFO">>, 300, <<"net">>, m), f) : m \in JsonTexts, f \in FieldChoices}
  ELSE {make_event(s[1], s[2], <<"net">>, m) : s \in Severities, m \in Messages}

MCSymbols == STRING

MCNumerals == {"0.5", "1", "7"}
=============================================================================
