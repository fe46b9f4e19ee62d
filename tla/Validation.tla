----------------------------- MODULE Validation -----------------------------
(***************************************************************************)
(* src/validation.rs and src/compat/params.rs: authentication and the      *)
(* parameters of a request.  An API key is the sequence of its bytes.      *)
(* Times are integers on a scale of TicksPerSecond, so that sub-second     *)
(* remainders exist.                                                       *)
(***************************************************************************)
EXTENDS Integers, Options

(* constant_time_eq: lengths first, then every byte whatever the others. *)
ConstantTimeEq(a, b) ==
    /\ Len(a) = Len(b)
    /\ \A i \in DOMAIN a : a[i] = b[i]

(* Both headers are optional; of an Authorization header only the token    *)
(* after "Bearer " is kept, and there is none under another scheme.        *)
Supplied(headers) == OrElse(headers.bearer, headers.x_api_key)

(* validate_api_key *)
ValidateApiKey(headers, expected) ==
    IF expected = <<>> THEN "bad_api_key"
    ELSE IF Supplied(headers) = None THEN "missing_api_key"
    ELSE IF ConstantTimeEq(Value(Supplied(headers)), expected) THEN "ok"
    ELSE "bad_api_key"

-----------------------------------------------------------------------------
TicksPerSecond == 2

(* num_seconds truncates; the spans it is used on are positive. *)
NumSeconds(ticks) == ticks \div TicksPerSecond

(* validate_range *)
ValidateRange(from, to, max_secs) ==
    IF to <= from THEN "invalid_time_range"
    ELSE IF NumSeconds(to - from) > max_secs THEN "range_too_large"
    ELSE "ok"

(* parse_limit and parse_usize: what does not parse (None) is the default, *)
(* which is held to the maximum like any other value.  No result: a 400.   *)
ParseLimit(value, default, max) ==
    LET limit == UnwrapOr(value, default)
    IN  IF limit = 0 \/ limit > max THEN None ELSE Some(limit)

-----------------------------------------------------------------------------
(***************************************************************************)
(* optional_range.  A time parameter that is there and not empty is a      *)
(* record of whether it parses and to what.  An unparsable "end" or        *)
(* "start" is an error; an unparsable "to" or "from" counts as absent.     *)
(***************************************************************************)
Hour == 3600 * TicksPerSecond

Bad(param) == IsSome(param) /\ ~Value(param).parses
ParsedTime(param) == IF param = None \/ Bad(param) THEN None ELSE Some(Value(param).time)

FirstTime(primary, alias, default) ==
    UnwrapOr(OrElse(ParsedTime(primary), ParsedTime(alias)), default)

(* Mutant: the hour is counted back from now. *)
OptionalRange_HourFromNow(params, now, max_secs) ==
    LET to == FirstTime(params.end, params.to, now)
        from == FirstTime(params.start, params.from, now - Hour)
    IN  [from |-> from, to |-> to,
         status |-> IF Bad(params.end) \/ Bad(params.start) THEN "invalid_time_range"
                    ELSE ValidateRange(from, to, max_secs)]

OptionalRange(params, now, max_secs) ==
    LET to == FirstTime(params.end, params.to, now)
        from == FirstTime(params.start, params.from, to - Hour)
    IN  [from |-> from, to |-> to,
         status |-> IF Bad(params.end) \/ Bad(params.start) THEN "invalid_time_range"
                    ELSE ValidateRange(from, to, max_secs)]
=============================================================================
