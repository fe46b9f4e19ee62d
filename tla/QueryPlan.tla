----------------------------- MODULE QueryPlan -----------------------------
(***************************************************************************)
(* src/query/plan.rs, log.rs and trace.rs: how a selector becomes a list   *)
(* of matchers.  A query text is the sequence of its tokens: punctuation   *)
(* one character at a time, and every run of other characters (a name, a   *)
(* word) as one token.  White space that the code trims is left out.       *)
(***************************************************************************)
EXTENDS Naturals, FiniteSets, LabelRegistry

Quote == "\""
Escape == "\\"
Space == " "
Punctuation == {Quote, Escape, Space, "{", "}", "(", ")", "[", "]", ",", "!", "=", "~", "|", "&"}

(* str::find and split_once on token sequences: 0 when there is no match.  *)
FindText(text, pattern) ==
    LET at == {i \in 1 .. Len(text) :
                  /\ i + Len(pattern) - 1 <= Len(text)
                  /\ SubSeq(text, i, i + Len(pattern) - 1) = pattern}
    IN  IF at = {} THEN 0 ELSE CHOOSE i \in at : \A j \in at : i <= j

Before(text, i) == SubSeq(text, 1, i - 1)
After(text, i) == SubSeq(text, i + 1, Len(text))

(* unquote: all quotes at either end go, an escaped one too. *)
unquote(text) ==
    LET kept == {i \in DOMAIN text : text[i] # Quote}
    IN  IF kept = {} THEN <<>>
        ELSE SubSeq(text, CHOOSE i \in kept : \A j \in kept : i <= j,
                          CHOOSE i \in kept : \A j \in kept : j <= i)

-----------------------------------------------------------------------------
(* split_label_matchers: one left-to-right pass; None for a quote that is  *)
(* never closed.                                                           *)
Scanned(scan, ch) ==
    IF scan.escaped THEN [scan EXCEPT !.escaped = FALSE, !.part = Append(@, ch)]
    ELSE IF ch = "," /\ ~scan.in_quote
         THEN [scan EXCEPT !.parts = Append(@, scan.part), !.part = <<>>]
    ELSE [scan EXCEPT !.escaped = (ch = Escape /\ scan.in_quote),
                      !.in_quote = IF ch = Quote THEN ~@ ELSE @,
                      !.part = Append(@, ch)]


split_label_matchers(raw) ==
    LET scan == FoldLeft(Scanned,
                         [parts |-> <<>>, part |-> <<>>, in_quote |-> FALSE, escaped |-> FALSE], raw)
    IN  IF scan.in_quote THEN None ELSE Some(Append(scan.parts, scan.part))

Matcher(field, op, value) == [field |-> field, op |-> op, value |-> value]

(* The operators in the order in which parse_label_matchers looks for them *)
(* anywhere in the part, its quoted value included.                        *)
Operators == <<
    [op |-> "NotRegex", sign |-> <<"!", "~">>], [op |-> "Regex", sign |-> <<"=", "~">>],
    [op |-> "NotEq", sign |-> <<"!", "=">>], [op |-> "Eq", sign |-> <<"=">>] >>

PartMatcher(part) ==
    LET present == {k \in DOMAIN Operators : FindText(part, Operators[k].sign) # 0}
        first == Operators[CHOOSE k \in present : \A j \in present : k <= j]
        at == FindText(part, first.sign)
    IN  IF present = {} THEN None
        ELSE Some(Matcher(Before(part, at), first.op,
                          unquote(After(part, at + Len(first.sign) - 1))))

AllSome(options) == \A i \in DOMAIN options : IsSome(options[i])
Values(options) == [i \in DOMAIN options |-> Value(options[i])]

(* parse_label_matchers *)
parse_label_matchers(raw) ==
    LET split == split_label_matchers(raw)
        parts == SelectSeq(Value(split), LAMBDA part : part # <<>>)
        matchers == [i \in DOMAIN parts |-> PartMatcher(parts[i])]
    IN  IF split = None \/ ~AllSome(matchers) THEN None ELSE Some(Values(matchers))

(* parse_selector_matchers.  The branch for a selector that starts with a  *)
(* brace is never taken: the first branch already splits at that brace.    *)
parse_selector_matchers(raw) ==
    LET open == FindText(raw, <<"{">>)
        labels == parse_label_matchers(SubSeq(raw, open + 1, Len(raw) - 1))
    IN  IF open # 0
        THEN IF raw[Len(raw)] # "}" \/ open = Len(raw) \/ labels = None THEN None
             ELSE Some([name |-> Before(raw, open), matchers |-> Value(labels)])
        ELSE IF raw # <<>> /\ \A i \in DOMAIN raw : raw[i] \notin Punctuation
             THEN Some([name |-> raw, matchers |-> <<>>])
        ELSE None

(* normalize_matchers: names become canonical; an unsupported name, or two *)
(* different values required of one label, is an error.                    *)
Supported(field, scope) ==
    Len(field) = 1 /\ field[1] \in DOMAIN alias_pairs[scope]
CanonicalField(field, scope) == alias_pairs[scope][field[1]]

Conflicting(matchers) ==
    \E i, j \in DOMAIN matchers :
        /\ matchers[i].op = "Eq" /\ matchers[j].op = "Eq"
        /\ matchers[i].field = matchers[j].field
        /\ matchers[i].value # matchers[j].value

Canonicalized(matchers, scope) ==
    [i \in DOMAIN matchers |->
        [matchers[i] EXCEPT !.field = CanonicalField(@, scope)]]

normalize_matchers(matchers, scope) ==
    IF \E i \in DOMAIN matchers : ~Supported(matchers[i].field, scope) THEN None
    ELSE IF Conflicting(Canonicalized(matchers, scope)) THEN None
    ELSE Some(Canonicalized(matchers, scope))

-----------------------------------------------------------------------------
(* parse_log_pipeline: cut at the first text filter, wherever it stands;   *)
(* everything after it is that filter's term.                              *)
TextFilter(kind, term) == [kind |-> kind, term |-> term]

parse_log_pipeline(raw) ==
    LET contains == FindText(raw, <<"|", "=">>)
        regex == FindText(raw, <<"|", "~">>)
        by_regex == regex # 0 /\ (contains = 0 \/ regex < contains)
        cut == IF by_regex THEN regex ELSE contains
    IN  IF contains = 0 /\ regex = 0 THEN [selector |-> raw, filters |-> <<>>]
        ELSE [selector |-> Before(raw, cut),
              filters |-> << TextFilter(IF by_regex THEN "BodyRegex" ELSE "BodyContains",
                                        unquote(After(raw, cut + 1))) >>]

(* parse_loki_query; the name in front of the selector is dropped. *)
parse_loki_query(raw, direction) ==
    LET pipeline == parse_log_pipeline(raw)
        parsed == parse_selector_matchers(pipeline.selector)
        matchers == normalize_matchers(Value(parsed).matchers, "Logs")
    IN  IF parsed = None THEN None
        ELSE IF matchers = None THEN None
        ELSE Some([matchers |-> Value(matchers), text_filters |-> pipeline.filters,
                   forward |-> direction = "forward"])

-----------------------------------------------------------------------------
(* extract_tag_matcher: the first place where the tag is followed by an    *)
(* operator.  The value is a quoted string or runs to the next delimiter.  *)
SignsAt(raw, i) ==
    {k \in DOMAIN Operators :
        LET sign == Operators[k].sign
        IN  i + Len(sign) - 1 <= Len(raw) /\ SubSeq(raw, i, i + Len(sign) - 1) = sign}

SignAt(raw, i) ==
    LET here == SignsAt(raw, i)
    IN  IF here = {} THEN None
        ELSE Some(Operators[CHOOSE k \in here : \A j \in here : k <= j])

UpTo(text, stops) ==
    LET at == {i \in DOMAIN text : text[i] \in stops}
    IN  IF at = {} THEN None ELSE Some(Before(text, CHOOSE i \in at : \A j \in at : i <= j))

extract_tag_matcher(raw, tag) ==
    LET at == {i \in DOMAIN raw : raw[i] = tag /\ IsSome(SignAt(raw, i + 1))}
        first == CHOOSE i \in at : \A j \in at : i <= j
        operator == Value(SignAt(raw, first + 1))
        rest == After(raw, first + Len(operator.sign))
        quoted == rest # <<>> /\ rest[1] = Quote
        value == IF quoted THEN UpTo(Tail(rest), {Quote})
                 ELSE LET word == UnwrapOr(UpTo(rest, {Space, ",", "}", "&", "|"}), rest)
                      IN  IF word = <<>> THEN None ELSE Some(word)
    IN  IF at = {} THEN None
        ELSE IF value = None THEN None
        ELSE Some(Matcher(<<tag>>, operator.op, Value(value)))

(* extract_traceql_matchers: tags nobody knows are not even looked at.     *)
(* The matchers are a conjunction, so their order is left open.            *)
SpanTags == DOMAIN alias_pairs["Spans"]

extract_traceql_matchers(raw) ==
    LET found == {extract_tag_matcher(raw, tag) : tag \in SpanTags} \ {None}
    IN  SetToSeq({Value(m) : m \in found})

(* plan_tempo_search: a parameter for a tag, the query and the tags.  The  *)
(* parameters are a function from names to texts.                          *)
ParamText(params, name) == IF name \in DOMAIN params THEN params[name] ELSE <<>>

TagParams(params) ==
    SetToSeq({Matcher(<<tag>>, "Eq", params[tag]) :
                 tag \in {t \in SpanTags : ParamText(params, t) # <<>>}})

plan_tempo_search(params) ==
    LET q == IF "q" \in DOMAIN params THEN params["q"] ELSE ParamText(params, "query")
    IN  normalize_matchers(TagParams(params) \o extract_traceql_matchers(q)
                               \o extract_traceql_matchers(ParamText(params, "tags")), "Spans")
=============================================================================
