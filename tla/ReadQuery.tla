----------------------------- MODULE ReadQuery -----------------------------
(***************************************************************************)
(* The declarative read path of the platform crate, from a TOML endpoint   *)
(* to the answer a caller holds: lint and parse at load (read/spec.rs,     *)
(* read/parse.rs), binding a request (read/bind.rs), lowering it for       *)
(* Postgres or ClickHouse (read/dialect.rs) and serving it through the     *)
(* read cache (read/exec.rs).                                              *)
(*                                                                         *)
(* SQL is a sequence of tokens [k, n]: k is the kind ("kw", "id", "lit",   *)
(* "op", "bind" for :name, "frag" for {{name}}, "cast" for ::type, "ph"    *)
(* for a placeholder, "(", ")", ",") and n the spelling.  What the byte    *)
(* scanners of the parser look for is found here by kind and nesting.      *)
(* The cache is the key-to-body map ReadCache describes in detail; here    *)
(* entries come and go, and what matters is which answer a key names.      *)
(***************************************************************************)
EXTENDS Integers, Sequences, FiniteSets, SequencesExt

CONSTANTS
    EndpointSpecs,  \* the [[read.endpoint]] entries a deployment may configure
    Callers,        \* [sub, role]; sub "" is a caller without a subject
    Paths,          \* the path parameters of a request, name -> text
    NameOrder,      \* the names of parameters, in the order they sort
    RawQueries,     \* query strings: sequences of <<name, encoded text>>
    Encoded,        \* encoded text -> text, where the two differ
    Upper,          \* text -> its upper-case form, where the two differ
    Lower,          \* text -> its lower-case form, where the two differ
    KeyText,        \* texts that are identifiers
    Number,         \* texts that parse as a number -> the number
    Moment,         \* texts that parse as a date -> its canonical spelling
    Chars,          \* text -> its characters, where it has more than one
    Unqualified,    \* qualified column -> its last segment
    KeyCols,        \* columns of the ClickHouse tables' sorting keys
    ReadRole,       \* settings.admin_read_role, "" when it is not set
    CacheCapacity   \* bound: entries the cache holds

NoText == "<none>"

(* ParamSpec: a parameter of an endpoint; select maps an enum's choices to   *)
(* fragments, present and absent the fragments of an optional filter.        *)
IsParamSpec(p) ==
    /\ p.kind \in {"path", "query"} /\ p.required \in BOOLEAN
    /\ p.transform \in {"none", "upper", "lower"}
    /\ p.min \in Int /\ p.max \in Int /\ p.maxLen \in Nat
    /\ {"name", "ty", "default", "select", "present", "absent"} \subseteq DOMAIN p

(* A statement is a sequence of tokens. *)
Tokens == Seq([k : STRING, n : STRING])

(* EndpointSpec; each of its parameters has a name of its own. *)
IsEndpointSpec(e) ==
    /\ e.sql \in Tokens /\ Len(e.sql) > 0 /\ e.params \in Seq(Range(e.params))
    /\ \A i \in DOMAIN e.params : IsParamSpec(e.params[i])
    /\ \A i \in DOMAIN e.params : e.params[i].name \in Range(NameOrder)
    /\ \A i, j \in DOMAIN e.params : e.params[i].name = e.params[j].name => i = j
    /\ e.shape \in {"rows", "one", "envelope"}
    /\ {e.cache, e.chFinal, e.crossTenant, e.selfTenant} \subseteq BOOLEAN

(* What ends a text in a cache key: the next pair, or the control character *)
(* with admin_read=.  Parameters are named by identifiers.                  *)
Separators == {"&", "admin_read="}

ASSUME ReadQueryAssumption ==
    /\ NameOrder \in Seq(STRING) /\ Range(NameOrder) \cap Separators = {}
    /\ \A i, j \in DOMAIN NameOrder : NameOrder[i] = NameOrder[j] => i = j
    /\ CacheCapacity \in Nat \ {0}
    /\ \A e \in EndpointSpecs : IsEndpointSpec(e)
    /\ \A c \in Callers : c.sub /= NoText
    /\ \A s \in DOMAIN Chars : Chars[s] \in Seq(STRING) /\ Len(Chars[s]) /= 1
    /\ \A s, t \in DOMAIN Chars : Chars[s] = Chars[t] => s = t

VARIABLES
    kind,   \* the backend the registry resolves the endpoint's table to
    spec,   \* the endpoint as loaded: its entry, whether it is served, its IR
    cache,  \* the read cache: canonical key -> body
    out     \* the request being answered, and the answer its caller ends up with

queryVars == <<kind, spec, cache, out>>

-----------------------------------------------------------------------------
(* Tokens and the lexical helpers of read/parse.rs.                        *)

Tok(k, n) == [k |-> k, n |-> n]
Kw(n) == Tok("kw", n)
PH == Tok("ph", "")

(* Nesting after the i-th token. *)
Depth(s, i) ==
    Cardinality({j \in 1..i : s[j].k = "("}) - Cardinality({j \in 1..i : s[j].k = ")"})

TopLevel(s) == {i \in DOMAIN s : Depth(s, i) = 0}

Where(s, P(_)) == {i \in DOMAIN s : P(s[i])}

(* find_top: the leftmost of these positions outside parentheses, or 0. *)
FindTop(s, at) ==
    LET hits == at \cap TopLevel(s) IN IF hits = {} THEN 0 ELSE Min(hits)

MatchingParen(s, open) ==
    LET hits == {i \in open..Len(s) : Depth(s, i) < Depth(s, open)}
    IN  IF hits = {} THEN 0 ELSE Min(hits)

Cut(s, at) ==
    [k \in 1..(Len(at) + 1) |->
        SubSeq(s, IF k = 1 THEN 1 ELSE at[k - 1] + 1,
                  IF k > Len(at) THEN Len(s) ELSE at[k] - 1)]

(* Positions from left to right. *)
Ascending(S) ==
    [k \in 1..Cardinality(S) |-> CHOOSE i \in S : Cardinality({j \in S : j < i}) = k - 1]

Cuts(s, P(_)) == Ascending({i \in TopLevel(s) : P(s[i])})

Balanced(s) == Depth(s, Len(s)) = 0 /\ \A i \in DOMAIN s : Depth(s, i) >= 0

IsComma(t) == t.k = ","
SplitTopCommas(s) == Cut(s, Cuts(s, IsComma))

IsAnd(t) == t = Kw("and")
IsOr(t) == t = Kw("or")
SplitTopAnd(s) == Cut(s, Cuts(s, IsAnd))

-----------------------------------------------------------------------------
(* parse_select: the bounded SELECT grammar.  Anything outside it leaves   *)
(* the endpoint without an IR (Fallback).                                  *)

ClauseWords == {"select", "from", "join", "where", "group by", "order by", "limit"}

Markers(s) == {i \in TopLevel(s) : s[i].k = "kw" /\ s[i].n \in ClauseWords}

BodyAt(s, i) ==
    LET later == {j \in Markers(s) : j > i}
    IN  SubSeq(s, i + 1, (IF later = {} THEN Len(s) + 1 ELSE Min(later)) - 1)

MarkersOf(s, word) == {i \in Markers(s) : s[i].n = word}
HasClause(s, word) == MarkersOf(s, word) /= {}

(* split_clauses: of two clauses with the same keyword the later one stays. *)
Clause(s, word) == IF HasClause(s, word) THEN BodyAt(s, Max(MarkersOf(s, word))) ELSE <<>>

Joins(s) ==
    LET at == Ascending(MarkersOf(s, "join")) IN [k \in DOMAIN at |-> BodyAt(s, at[k])]

(* parse_table_ref: a name and an optional alias, nothing nested. *)
IsTableRef(s) == Len(s) \in {1, 2} /\ \A i \in DOMAIN s : s[i].k = "id"

IsOn(t) == t = Kw("on")
ParsesJoin(s) == LET on == FindTop(s, Where(s, IsOn)) IN on > 0 /\ IsTableRef(SubSeq(s, 1, on - 1))

NoExpr == [e |-> "none"]

IsCast(t) == t.k = "cast"

HeightOf(parts) == Max({0} \cup {x.height : x \in parts}) + 1

(* parse_expr: what is neither a cast nor a call is kept as it is written.  *)
(* A cast ends the expression: what follows it becomes part of the type.    *)
(* tree is the parse of what is inside; height is that of the result.       *)
ParseLevel(tree, s) ==
    LET cast == FindTop(s, Where(s, IsCast))
        inner == tree[SubSeq(s, 1, cast - 1)]
        args == IF Len(s) = 3 THEN <<>>
                ELSE LET parts == SplitTopCommas(SubSeq(s, 3, Len(s) - 1))
                     IN  [k \in DOMAIN parts |-> tree[parts[k]]]
    IN  CASE s = <<>> -> NoExpr
          [] s /= <<>> /\ cast > 0 ->
                IF inner = NoExpr THEN NoExpr
                ELSE [e |-> "cast", inner |-> inner, height |-> HeightOf({inner}),
                      ty |-> IF cast = Len(s) THEN s[cast].n ELSE "unknown"]
          [] s /= <<>> /\ cast = 0 /\ Len(s) > 2 /\ s[1].k = "id" /\ s[2].k = "("
                /\ MatchingParen(s, 2) = Len(s) ->
                IF NoExpr \in Range(args) THEN NoExpr
                ELSE [e |-> "fn", name |-> s[1], args |-> args, height |-> HeightOf(Range(args))]
          [] OTHER -> [e |-> "leaf", text |-> s, height |-> 0]

ParseTree[s \in Tokens] == ParseLevel(ParseTree, s)
ParseExpr(s) == ParseLevel(ParseTree, s)

NoPredicate == [p |-> "none"]

IsOp(t) == t.k = "op"

(* The ` in (` of a list, 0 when the predicate has none. *)
FindIn(s) ==
    LET hits == {i \in TopLevel(s) : s[i] = Kw("in") /\ i < Len(s) /\ s[i + 1].k = "("}
    IN  IF hits = {} THEN 0 ELSE Min(hits)

(* parse_predicate: `expr [NOT] IN (items)` or `expr op expr`; nothing      *)
(* looks at what stands after the closing parenthesis of the list.          *)
ParsePredicate(s) ==
    LET in == FindIn(s)
        op == FindTop(s, Where(s, IsOp))
        close == MatchingParen(s, in + 1)
        negated == in > 2 /\ s[in - 1] = Kw("not")
        lhsIn == ParseExpr(SubSeq(s, 1, in - (IF negated THEN 2 ELSE 1)))
        list == SplitTopCommas(SubSeq(s, in + 2, close - 1))
        items == [k \in DOMAIN list |-> ParseExpr(list[k])]
        lhs == ParseExpr(SubSeq(s, 1, op - 1))
        rhs == ParseExpr(SubSeq(s, op + 1, Len(s)))
    IN  CASE in > 0 ->
                IF lhsIn = NoExpr \/ close = 0 \/ NoExpr \in Range(items) THEN NoPredicate
                ELSE [p |-> "in", lhs |-> lhsIn, items |-> items, negated |-> negated]
          [] in = 0 /\ op > 0 ->
                IF NoExpr \in {lhs, rhs} THEN NoPredicate
                ELSE [p |-> "cmp", lhs |-> lhs, op |-> s[op], rhs |-> rhs]
          [] OTHER -> NoPredicate

(* parse_where: conjuncts only; a top-level OR is outside the grammar. *)
ParseWhere(s) == LET c == SplitTopAnd(s) IN [k \in DOMAIN c |-> ParsePredicate(c[k])]
ParsesWhere(s) == FindTop(s, Where(s, IsOr)) = 0 /\ NoPredicate \notin Range(ParseWhere(s))

(* parse_order_by: each item's expression and direction. *)
OrderItem(s) ==
    IF s /= <<>> /\ Last(s) \in {Kw("desc"), Kw("asc")}
    THEN [expr |-> Front(s), dir |-> Last(s)]
    ELSE [expr |-> s, dir |-> Kw("asc")]
ParseOrderBy(s) == LET c == SplitTopCommas(s) IN [k \in DOMAIN c |-> OrderItem(c[k])]

(* parse_limit: one bind or one integer. *)
ParsesLimit(s) == Len(s) = 1 /\ s[1].k \in {"bind", "lit"}

NoIr == [fallback |-> TRUE]

(* Expr: columns, binds, literals and raw text are leaves.  Of Predicate the *)
(* parser makes Compare and InList only.                                     *)
IsPredicate(p) ==
    /\ p.p \in {"cmp", "in"} /\ p.lhs.e \in {"leaf", "fn", "cast"}
    /\ p.p = "cmp" => p.rhs.e \in {"leaf", "fn", "cast"}
    /\ p.p = "in" => \A i \in DOMAIN p.items : p.items[i].e \in {"leaf", "fn", "cast"}

(* QueryIr. *)
IsQueryIr(ir) ==
    \/ ir = NoIr
    \/ /\ ~ir.fallback
       /\ Len(ir.select) > 0 /\ Len(ir.from) \in 1..2 /\ Len(ir.limit) <= 1
       /\ \A p \in Range(ir.where) : IsPredicate(p)
       /\ \A o \in Range(ir.orderBy) : o.expr /= <<>> /\ o.dir \in {Kw("asc"), Kw("desc")}
       /\ {"joins", "groupBy"} \subseteq DOMAIN ir

(* "bail" stands for the constructs parse_select refuses by name (UNION,    *)
(* WITH, OVER, FILTER, CASE, DISTINCT, HAVING ...).                         *)
ParseSelect(s) ==
    LET order == ParseOrderBy(Clause(s, "order by"))
        fits == /\ Kw("bail") \notin Range(s)
                /\ s[1] = Kw("select")
                /\ IsTableRef(Clause(s, "from"))
                /\ \A j \in Range(Joins(s)) : ParsesJoin(j)
                /\ \A w \in {"select", "group by", "order by"} : Balanced(Clause(s, w))
                /\ HasClause(s, "where") => ParsesWhere(Clause(s, "where"))
                /\ HasClause(s, "order by") => \A o \in Range(order) : o.expr /= <<>>
                /\ HasClause(s, "limit") => ParsesLimit(Clause(s, "limit"))
    IN  IF ~fits THEN NoIr
        ELSE [fallback |-> FALSE,
              select |-> SplitTopCommas(Clause(s, "select")),
              from |-> Clause(s, "from"),
              joins |-> Joins(s),
              where |-> IF HasClause(s, "where") THEN ParseWhere(Clause(s, "where")) ELSE <<>>,
              groupBy |-> IF HasClause(s, "group by")
                          THEN SplitTopCommas(Clause(s, "group by")) ELSE <<>>,
              orderBy |-> IF HasClause(s, "order by") THEN order ELSE <<>>,
              limit |-> Clause(s, "limit")]

-----------------------------------------------------------------------------
(* spec.rs: the startup lints, and loading an endpoint.                    *)

FragmentNames(sql) == {sql[i].n : i \in {j \in DOMAIN sql : sql[j].k = "frag"}}
BindNames(sql) == {sql[i].n : i \in {j \in DOMAIN sql : sql[j].k = "bind"}}

IsEnum(p) == p.ty = "enum" \/ DOMAIN p.select /= {}
IsPresence(p) == DOMAIN p.present \cup DOMAIN p.absent /= {}
EffectivelyRequired(p) == p.required \/ p.kind = "path"

Produced(p) ==
    UNION {DOMAIN p.select[c] : c \in DOMAIN p.select} \cup DOMAIN p.present \cup DOMAIN p.absent

(* Names a search for the text ":tenant" finds. *)
TenantLike == {"tenant", "tenant_kind"}

Lint(e) ==
    /\ Kw("count distinct") \notin Range(e.sql)
    /\ e.selfTenant => /\ BindNames(e.sql) \cap TenantLike /= {}
                       /\ \E p \in Range(e.params) : p.name = "tenant"
    /\ FragmentNames(e.sql) \subseteq UNION {Produced(p) : p \in Range(e.params)}

(* parse: an endpoint that fails a lint is dropped, the others get their IR. *)
Load(e) ==
    [entry |-> e, served |-> Lint(e), ir |-> IF Lint(e) THEN ParseSelect(e.sql) ELSE NoIr]

-----------------------------------------------------------------------------
(* bind.rs: resolving a request.                                           *)

Value(t, v) == [t |-> t, v |-> v]
Err(status) == Value("err", status)

At(f, x, default) == IF x \in DOMAIN f THEN f[x] ELSE default
ToUpper(s) == At(Upper, s, s)

ApplyTransform(s, t) ==
    CASE t = "upper" -> ToUpper(s) [] t = "lower" -> At(Lower, s, s) [] OTHER -> s

CharsOf(s) == At(Chars, s, <<s>>)

RangeCheck(p, n) == n >= p.min /\ n <= p.max

(* coerce: a value of the declared type, or the status the request ends with. *)
Coerce(p, raw) ==
    CASE p.ty \in {"key", "symbol"} ->
            LET s == ApplyTransform(ToUpper(raw), p.transform)
            IN  IF s \in KeyText THEN Value("Text", s) ELSE Err("400")
      [] p.ty = "str" ->
            LET s == ApplyTransform(raw, p.transform)
            IN  IF Len(CharsOf(s)) > p.maxLen THEN Err("400") ELSE Value("Text", s)
      [] p.ty \in {"int", "float"} ->
            IF raw \notin DOMAIN Number THEN Err("400")
            ELSE IF ~RangeCheck(p, Number[raw]) THEN Err("422")
            ELSE Value(p.ty, ToString(Number[raw]))
      [] p.ty \in {"date", "timestamp"} ->
            IF raw \notin DOMAIN Moment THEN Err("400") ELSE Value(p.ty, Moment[raw])
      [] p.ty = "bool" -> Value("bool", IF raw \in {"1", "true", "yes"} THEN "true" ELSE "false")
      [] OTHER -> Err("400")

(* What the request says for a parameter; only a query parameter has a default. *)
RawOf(p, path, query) ==
    IF p.kind = "path" THEN At(path, p.name, NoText)
    ELSE At(query, p.name, p.default)

(* The choice an enum parameter names, and the value :name gets: the fragment *)
(* named like the parameter when the choice maps one.                         *)
Choice(p, raw) == ApplyTransform(raw, p.transform)
EnumValue(p, raw) ==
    LET c == Choice(p, raw)
    IN  IF c \notin DOMAIN p.select THEN Err("400")
        ELSE Value("Text", IF p.name \in DOMAIN p.select[c]
                           THEN p.select[c][p.name][1].n ELSE c)

Absent == Value("absent", "")

Resolved(p, raw) ==
    IF raw = NoText THEN IF EffectivelyRequired(p) THEN Err("400") ELSE Absent
    ELSE IF IsEnum(p) THEN EnumValue(p, raw)
    ELSE Coerce(p, raw)

(* The fragments the parameters choose; a later parameter overrides. *)
FragmentsOf(p, raw) ==
    IF IsEnum(p) THEN IF raw = NoText THEN <<>> ELSE p.select[Choice(p, raw)]
    ELSE IF raw = NoText THEN p.absent ELSE p.present

FragmentText(params, raws, name) ==
    LET makers == {i \in DOMAIN params : name \in DOMAIN FragmentsOf(params[i], raws[i])}
    IN  IF makers = {} THEN <<>> ELSE FragmentsOf(params[Max(makers)], raws[Max(makers)])[name]

SubstituteFragments(sql, params, raws) ==
    FlattenSeq([i \in DOMAIN sql |->
        IF sql[i].k = "frag" THEN FragmentText(params, raws, sql[i].n) ELSE <<sql[i]>>])

(* The text each given parameter has in the cache key. *)
Texts(params, raws, vals) ==
    [n \in DOMAIN vals |->
        LET i == CHOOSE j \in DOMAIN params : params[j].name = n
        IN  IF IsEnum(params[i]) THEN Choice(params[i], raws[i]) ELSE vals[n].v]

Joined(parts, sep) ==
    FlattenSeq([k \in DOMAIN parts |-> (IF k = 1 THEN <<>> ELSE <<sep>>) \o parts[k]])

(* The canonical text `name=value&...` of the parameters, in name order: the *)
(* characters of one string.                                                 *)
Pair(texts, n) ==
    IF n \in DOMAIN texts THEN <<"&", n, "=">> \o CharsOf(texts[n]) ELSE <<>>
Canon(texts) ==
    LET pairs == FlattenSeq([i \in DOMAIN NameOrder |-> Pair(texts, NameOrder[i])])
    IN  SubSeq(pairs, 2, Len(pairs))

-----------------------------------------------------------------------------
(* dialect.rs: lowering to executable SQL and the values in placeholder     *)
(* order.                                                                   *)

Lowered(status, sql, values) == [status |-> status, sql |-> sql, values |-> values]
Failed(status) == Lowered(status, <<>>, <<>>)

IsBind(t) == t.k = "bind"

(* Each :name becomes a placeholder and what comes after it; a bind with no   *)
(* resolved value ends the request.                                          *)
LowerWith(sql, vals, after) ==
    LET binds == SelectSeq(sql, IsBind)
    IN  IF \E t \in Range(binds) : t.n \notin DOMAIN vals THEN Failed("500")
        ELSE Lowered("ok",
                FlattenSeq([i \in DOMAIN sql |->
                    IF IsBind(sql[i]) THEN <<PH>> \o after[sql[i].n] ELSE <<sql[i]>>]),
                [k \in DOMAIN binds |-> vals[binds[k].n]])

(* Postgres widens a numeric bind so that one Rust width fits any column. *)
Widen(v) ==
    CASE v.t = "int" -> <<Tok("cast", "int8")>>
      [] v.t = "float" -> <<Tok("cast", "float8")>>
      [] OTHER -> <<>>
LowerBinds(sql, vals) == LowerWith(sql, vals, [n \in DOMAIN vals |-> Widen(vals[n])])

LowerTextBinds(sql, vals) == LowerWith(sql, vals, [n \in DOMAIN vals |-> <<>>])

(* pg_placeholders_to_ch: the widening cast goes, the rest of the text stays. *)
PgPlaceholdersToCh(sql) ==
    FlattenSeq([i \in DOMAIN sql |->
        IF i > 1 /\ sql[i - 1] = PH /\ sql[i] \in {Tok("cast", "int8"), Tok("cast", "float8")}
        THEN <<>> ELSE <<sql[i]>>])

(* IrType::ch; "none" is a type ClickHouse has no name for. *)
ChType(ty) ==
    CASE ty \in {"int8", "bigint"} -> "Int64"
      [] ty \in {"float8", "double precision"} -> "Float64"
      [] ty \in {"text", "varchar"} -> "String"
      [] ty \in {"bool", "boolean"} -> "Bool"
      [] OTHER -> "none"

(* An expression and everything inside it. *)
Parts(x) == CASE x.e = "cast" -> {x.inner} [] x.e = "fn" -> Range(x.args) [] OTHER -> {}
Within(x) ==
    LET level[n \in 0..x.height] ==
            IF n = 0 THEN {x} ELSE UNION {Parts(y) : y \in level[n - 1]}
    IN  UNION Range(level)

CastTypes(x) == {ChType(y.ty) : y \in {z \in Within(x) : z.e = "cast"}}

(* validate_clickhouse: a warning at load, an error when the request lowers. *)
ValidateClickhouse(ir) ==
    \A p \in Range(ir.where) :
        "none" \notin CastTypes(p.lhs) \cup
            (IF p.p = "cmp" THEN CastTypes(p.rhs) ELSE UNION {CastTypes(i) : i \in Range(p.items)})

RenderExpr(x) ==
    LET render[y \in Within(x)] ==
            CASE y.e = "cast" -> render[y.inner] \o <<Tok("cast", ChType(y.ty))>>
              [] y.e = "fn" -> <<y.name, Tok("(", "")>>
                               \o Joined([k \in DOMAIN y.args |-> render[y.args[k]]], Tok(",", ""))
                               \o <<Tok(")", "")>>
              [] OTHER -> y.text
    IN  render[x]

CmpOp(op) == IF op.n = "<>" THEN Tok("op", "!=") ELSE op

RenderPredicate(p) ==
    IF p.p = "cmp" THEN RenderExpr(p.lhs) \o <<CmpOp(p.op)>> \o RenderExpr(p.rhs)
    ELSE RenderExpr(p.lhs) \o (IF p.negated THEN <<Kw("not")>> ELSE <<>>)
         \o <<Kw("in"), Tok("(", "")>>
         \o Joined([k \in DOMAIN p.items |-> RenderExpr(p.items[k])], Tok(",", ""))
         \o <<Tok(")", "")>>

RenderConjuncts(ps) == Joined([k \in DOMAIN ps |-> RenderPredicate(ps[k])], Kw("and"))

(* touches_leading_key: a comparison on the column the result is ordered by. *)
TouchesLeadingKey(p, orderBy) ==
    /\ orderBy /= <<>>
    /\ p.p = "cmp" /\ p.lhs.e = "leaf" /\ Len(p.lhs.text) = 1 /\ p.lhs.text[1].k = "id"
    /\ \/ p.lhs.text = orderBy[1].expr
       \/ <<Tok("id", At(Unqualified, p.lhs.text[1].n, p.lhs.text[1].n))>> = orderBy[1].expr

Headed(word, body) == IF body = <<>> THEN <<>> ELSE <<Kw(word)>> \o body

(* GROUP BY and ORDER BY text is emitted as it stands, its binds too. *)
Verbatim(s) == [i \in DOMAIN s |-> IF IsBind(s[i]) THEN Tok("marker", s[i].n) ELSE s[i]]

(* lower_ir: the statement rebuilt from the IR, conjuncts on the leading    *)
(* ORDER BY column hoisted into PREWHERE, values in the order of the text.  *)
LowerIr(ir, final, vals) ==
    LET hoisted(p) == TouchesLeadingKey(p, ir.orderBy)
        kept(p) == ~hoisted(p)
        order(o) == Verbatim(o.expr) \o <<o.dir>>
        text == <<Kw("select")>> \o Joined(ir.select, Tok(",", ""))
                \o <<Kw("from")>> \o ir.from \o (IF final THEN <<Kw("final")>> ELSE <<>>)
                \o FlattenSeq([k \in DOMAIN ir.joins |-> <<Kw("join")>> \o ir.joins[k]])
                \o Headed("prewhere", RenderConjuncts(SelectSeq(ir.where, hoisted)))
                \o Headed("where", RenderConjuncts(SelectSeq(ir.where, kept)))
                \o Headed("group by", Verbatim(Joined(ir.groupBy, Tok(",", ""))))
                \o Headed("order by", Joined([k \in DOMAIN ir.orderBy |-> order(ir.orderBy[k])],
                                             Tok(",", "")))
                \o Headed("limit", ir.limit)
    IN  IF ~ValidateClickhouse(ir) THEN Failed("500") ELSE LowerTextBinds(text, vals)

-----------------------------------------------------------------------------
(* bind::resolve and exec.rs: from a request to the statement it runs.     *)

Unresolved(status) == [status |-> status, sql |-> <<>>, values |-> <<>>,
                       map |-> <<>>, texts |-> <<>>, canon |-> <<>>]

Resolve(e, path, query) ==
    LET ps == e.params
        raws == [i \in DOMAIN ps |-> RawOf(ps[i], path, query)]
        res == [i \in DOMAIN ps |-> Resolved(ps[i], raws[i])]
        bad == {i \in DOMAIN ps : res[i].t = "err"}
        given == {i \in DOMAIN ps : res[i] /= Absent}
        vals == [n \in {ps[i].name : i \in given} |->
                    res[CHOOSE i \in given : ps[i].name = n]]
        texts == Texts(ps, raws, vals)
        low == LowerBinds(SubstituteFragments(e.sql, ps, raws), vals)
    IN  IF bad /= {} THEN Unresolved(res[Min(bad)].v)
        ELSE IF low.status /= "ok" THEN Unresolved(low.status)
        ELSE [status |-> "ok", sql |-> low.sql, values |-> low.values,
              map |-> vals, texts |-> texts, canon |-> Canon(texts)]

(* pct_decode, and parse_query: of two pairs with one name the later wins. *)
PctDecode(s) == At(Encoded, s, s)
ParseQuery(raw) ==
    [n \in {raw[i][1] : i \in DOMAIN raw} |->
        PctDecode(raw[Max({i \in DOMAIN raw : raw[i][1] = n})][2])]

(* admin_read_elevation: the role an admin's read of an oversight endpoint  *)
(* runs under, "" for everybody else.                                       *)
AdminReadElevation(e, c) ==
    IF e.crossTenant /\ c.role \in {"admin", "super_admin", "local"} THEN ReadRole ELSE ""

(* Mutant of ScopedQuery: the caller's subject only fills in a missing tenant. *)
ScopedQueryMut(e, c, query) ==
    IF e.selfTenant /\ AdminReadElevation(e, c) = "" /\ "tenant" \notin DOMAIN query
    THEN [n \in DOMAIN query \cup {"tenant"} |-> IF n = "tenant" THEN c.sub ELSE query[n]]
    ELSE query

(* Self-tenant scoping: the tenant of the query is the caller's subject. *)
ScopedQuery(e, c, query) ==
    IF e.selfTenant /\ AdminReadElevation(e, c) = ""
    THEN [n \in DOMAIN query \cup {"tenant"} |-> IF n = "tenant" THEN c.sub ELSE query[n]]
    ELSE query

Scopable(e, c) == e.selfTenant => AdminReadElevation(e, c) /= "" \/ c.sub /= ""

IdEcho(path) == At(path, "key", At(path, "symbol", NoText))

(* What ClickHouse parses: no template markup, and only casts to its types. *)
ChAccepts(sql) ==
    \A t \in Range(sql) : /\ t.k \notin {"frag", "marker", "bind"}
                          /\ t.k = "cast" => t.n \in {"Int64", "Float64", "String", "Bool",
                                                      "text", "varchar", "bigint", "boolean"}

Executed(status, sql, values, role) ==
    [status |-> status, sql |-> sql, values |-> values, role |-> role]

(* Mutant of Produce: the values keep the order of the Postgres statement. *)
ProduceMut(k, sp, b, role) ==
    LET low == LowerIr(sp.ir, sp.entry.chFinal, b.map)
    IN  CASE k = "clickhouse" /\ ~sp.ir.fallback ->
                IF low.status /= "ok" THEN Executed(low.status, <<>>, <<>>, "")
                ELSE Executed(IF ChAccepts(low.sql) THEN "ok" ELSE "500", low.sql, b.values, "")
          [] OTHER -> Executed("ok", b.sql, b.values, role)

(* produce: the IR lowers for ClickHouse; Postgres gets the statement        *)
(* resolve made, and so does a ClickHouse table whose endpoint has no IR     *)
(* (its backend translates the placeholders).  ClickHouse ignores the role.  *)
Produce(k, sp, b, role) ==
    LET low == LowerIr(sp.ir, sp.entry.chFinal, b.map)
        text == PgPlaceholdersToCh(b.sql)
    IN  CASE k = "clickhouse" /\ ~sp.ir.fallback ->
                IF low.status /= "ok" THEN Executed(low.status, <<>>, <<>>, "")
                ELSE Executed(IF ChAccepts(low.sql) THEN "ok" ELSE "500", low.sql, low.values, "")
          [] k = "clickhouse" /\ sp.ir.fallback ->
                Executed(IF ChAccepts(text) THEN "ok" ELSE "500", text, b.values, "")
          [] OTHER -> Executed("ok", b.sql, b.values, role)

(* Mutant of CacheKey: the elevation is not part of the key. *)
CacheKeyMut(b, role) == b.canon

(* The endpoint's id and generation are the same for every key here. *)
CacheKey(b, role) == IF role = "" THEN b.canon ELSE b.canon \o <<"admin_read=", role>>

(* shape: the body is what the statement returns, with the identifier of    *)
(* the path echoed as it was spelled; one row is asked for or it is a 404.  *)
(* texts are those of the request it was made for (for the properties).     *)
Body(q, b, path) == [q |-> q, texts |-> b.texts, echo |-> IdEcho(path)]
NotFound(e, rows) == e.shape = "one" /\ rows = 0

-----------------------------------------------------------------------------
(* Requests.                                                               *)

NoBody == [q |-> Executed("none", <<>>, <<>>, ""), texts |-> <<>>, echo |-> NoText]

Answer(via, c, path, raw, status, body) ==
    [via |-> via, caller |-> c, path |-> path, raw |-> raw, status |-> status, body |-> body]

NoAnswer == Answer("none", [sub |-> "", role |-> ""], <<>>, <<>>, "none", NoBody)

(* A deployment: one endpoint of the configuration, and where its table is. *)
QueryInit ==
    /\ kind \in {"postgres", "clickhouse"}
    /\ \E e \in EndpointSpecs : spec = Load(e)
    /\ cache = <<>>
    /\ out = NoAnswer

(* respond: a client that presents the ETag of this body keeps its copy.    *)
RespondStatus(inm) == IF inm THEN "304" ELSE "200"

(* get_or_compute's store: beyond the capacity an older entry goes. *)
Store(key, body) ==
    \E kept \in SUBSET DOMAIN cache :
        /\ Cardinality(kept) < CacheCapacity
        /\ Cardinality(DOMAIN cache) < CacheCapacity => kept = DOMAIN cache
        /\ cache' = [k \in kept \cup {key} |-> IF k = key THEN body ELSE cache[k]]

(* run_spec.  A request ends before it runs when there is no such route, the *)
(* caller cannot be scoped or a parameter does not resolve.  Otherwise it is *)
(* served from the cache, or the statement runs and its answer is stored; an *)
(* error is returned and stored nowhere.                                     *)
RunSpec(c, path, raw) ==
    LET e == spec.entry
        role == AdminReadElevation(e, c)
        b == Resolve(e, path, ScopedQuery(e, c, ParseQuery(raw)))
        key == CacheKey(b, role)
        hit == e.cache /\ key \in DOMAIN cache
        q == Produce(kind, spec, b, role)
        status == CASE ~spec.served -> "404"
                    [] spec.served /\ ~Scopable(e, c) -> "403"
                    [] OTHER -> b.status
        reply(st, body) == out' = Answer("http", c, path, raw, st, body)
    IN  /\ out = NoAnswer
        /\ \/ /\ status /= "ok"
              /\ reply(status, NoBody)
              /\ UNCHANGED cache
           \/ /\ status = "ok" /\ hit
              /\ \E inm \in BOOLEAN : reply(RespondStatus(inm), cache[key])
              /\ UNCHANGED cache
           \/ /\ status = "ok" /\ ~hit /\ q.status /= "ok"
              /\ reply(q.status, NoBody)
              /\ UNCHANGED cache
           \/ \E rows \in 0..1 :
              /\ status = "ok" /\ ~hit /\ q.status = "ok"
              /\ IF NotFound(e, rows) THEN reply("404", NoBody) /\ UNCHANGED cache
                 ELSE /\ \E inm \in BOOLEAN : reply(RespondStatus(inm), Body(q, b, path))
                      /\ IF e.cache THEN Store(key, Body(q, b, path)) ELSE UNCHANGED cache
        /\ UNCHANGED <<kind, spec>>

(* execute_to_value: an endpoint as an MCP tool, with no caller and no cache. *)
ExecuteToValue(path, raw, rows) ==
    LET e == spec.entry
        c == NoAnswer.caller
        b == Resolve(e, path, ParseQuery(raw))
        q == Produce(kind, spec, b, "")
        status == CASE e.selfTenant -> "403"
                    [] ~e.selfTenant /\ b.status /= "ok" -> b.status
                    [] ~e.selfTenant /\ b.status = "ok" /\ q.status /= "ok" -> q.status
                    [] OTHER -> IF NotFound(e, rows) THEN "404" ELSE "200"
    IN  /\ out = NoAnswer /\ spec.served
        /\ out' = Answer("mcp", c, path, raw, status,
                         IF status = "200" THEN Body(q, b, path) ELSE NoBody)
        /\ UNCHANGED <<kind, spec, cache>>

(* The answer is on the wire; the next request may come. *)
DeliverAnswer ==
    /\ out /= NoAnswer
    /\ out' = NoAnswer
    /\ UNCHANGED <<kind, spec, cache>>

(* An entry expires, is evicted or invalidated (ReadCache). *)
Forget(key) ==
    /\ cache' = [k \in DOMAIN cache \ {key} |-> cache[k]]
    /\ UNCHANGED <<kind, spec, out>>

QueryNext ==
    \/ \E path \in Paths, raw \in RawQueries :
        \/ \E c \in Callers : RunSpec(c, path, raw)
        \/ \E rows \in 0..1 : ExecuteToValue(path, raw, rows)
    \/ DeliverAnswer
    \/ \E key \in DOMAIN cache : Forget(key)

QuerySpec == QueryInit /\ [][QueryNext]_queryVars

-----------------------------------------------------------------------------
(* Properties.                                                             *)

Statuses == {"none", "200", "304", "400", "403", "404", "422", "500"}

(* An IR has the shape the lowering relies on, the cache stays within its    *)
(* capacity and holds only bodies of statements that ran, and an answer has  *)
(* one of the statuses the handlers return.                                  *)
QueryTypeOK ==
    /\ kind \in {"postgres", "clickhouse"} /\ spec.served \in BOOLEAN
    /\ IsQueryIr(spec.ir)
    /\ Cardinality(DOMAIN cache) <= CacheCapacity
    /\ \A k \in DOMAIN cache : cache[k].q.status = "ok"
    /\ out.status \in Statuses

Answered == out.status \in {"200", "304"}

(* What the caller's own request resolves to. *)
OwnQuery ==
    IF out.via = "mcp" THEN ParseQuery(out.raw)
    ELSE ScopedQuery(spec.entry, out.caller, ParseQuery(out.raw))
OwnRole == IF out.via = "mcp" THEN "" ELSE AdminReadElevation(spec.entry, out.caller)
OwnBound == Resolve(spec.entry, out.path, OwnQuery)

(* What a statement with its values in place asks for.  Spellings both       *)
(* dialects read alike are one; a filter is the set of its conjuncts.        *)
Meaning(q) ==
    LET nth(i) == Cardinality({j \in 1..i : q.sql[j] = PH})
        read(i) == CASE q.sql[i] = PH -> Tok(q.values[nth(i)].t, q.values[nth(i)].v)
                     [] q.sql[i].k = "cast" /\ ChType(q.sql[i].n) /= "none" ->
                            Tok("cast", ChType(q.sql[i].n))
                     [] q.sql[i] = Kw("prewhere") -> Kw("where")
                     [] q.sql[i].k = "op" -> CmpOp(q.sql[i])
                     [] OTHER -> q.sql[i]
        s == [i \in DOMAIN q.sql |-> read(i)]
        notFinal(t) == t /= Kw("final")
    IN  [select |-> SplitTopCommas(Clause(s, "select")),
         from |-> SelectSeq(Clause(s, "from"), notFinal),
         joins |-> [k \in DOMAIN Joins(s) |-> SelectSeq(Joins(s)[k], notFinal)],
         filter |-> UNION {Range(SplitTopAnd(BodyAt(s, i))) : i \in MarkersOf(s, "where")},
         groupBy |-> SplitTopCommas(Clause(s, "group by")),
         orderBy |-> ParseOrderBy(Clause(s, "order by")),
         limit |-> Clause(s, "limit")]

(* Columns ClickHouse filters on before FINAL merges the versions of a row;  *)
(* that is the same as filtering afterwards for the sorting key only.        *)
EarlyColumns(q) ==
    IF Kw("final") \notin Range(q.sql) THEN {}
    ELSE {q.sql[i].n : i \in {j \in 2..Len(q.sql) : q.sql[j - 1] = Kw("prewhere")}}

(* The statement Postgres would run for the caller's request, its widening   *)
(* casts aside.                                                              *)
PostgresMeaning ==
    Meaning(Executed("ok", PgPlaceholdersToCh(OwnBound.sql), OwnBound.values, ""))

(* ir.rs: a construct outside the grammar falls back, "never a silent        *)
(* mis-execution": whatever ClickHouse runs asks for what Postgres would be  *)
(* asked by the same request.                                                *)
NeverMisExecuted ==
    Answered /\ kind = "clickhouse" /\ out.body.q = Produce(kind, spec, OwnBound, OwnRole)
    => Meaning(out.body.q) = PostgresMeaning

(* An IN list with something after its closing parenthesis. *)
DropsTail(sql) ==
    \E c \in Range(SplitTopAnd(Clause(sql, "where"))) :
        FindIn(c) > 0 /\ MatchingParen(c, FindIn(c) + 1) /= Len(c)

(* FINAL on an endpoint whose leading ORDER BY column is not in the key. *)
HoistsBeforeFinal(e) ==
    e.chFinal /\ LET o == ParseOrderBy(Clause(e.sql, "order by"))
                 IN  o[1].expr /= <<>> /\ o[1].expr[1].n \notin KeyCols

(* Two requests whose texts hold a separator of the cache key may share one. *)
Separable(texts) == \A n \in DOMAIN texts : Range(CharsOf(texts[n])) \cap Separators = {}

(* NeverMisExecuted where the endpoint neither glues text to an IN list nor  *)
(* filters before FINAL: the rebuilt statement keeps every conjunct, and     *)
(* every value stands at its placeholder whatever the hoist reorders.        *)
OneMeaning ==
    Answered /\ kind = "clickhouse" /\ Separable(OwnBound.texts) /\ Separable(out.body.texts)
        /\ ~DropsTail(spec.entry.sql) /\ ~HoistsBeforeFinal(spec.entry)
    => Meaning(out.body.q) = PostgresMeaning /\ EarlyColumns(out.body.q) \subseteq KeyCols

(* A caller ends up with the answer to its own request, run under its own    *)
(* role: no cached body of another caller, parameter or elevation reaches    *)
(* it, whether it is sent the body or told that its copy is current.         *)
ServedOwn ==
    Answered /\ Separable(OwnBound.texts) /\ Separable(out.body.texts)
    => out.body.q = Produce(kind, spec, OwnBound, OwnRole)

(* exec.rs:146 says of an elevated read that it "is NEVER served to a        *)
(* self-scoped (non-admin) caller": whoever is not elevated gets no body of  *)
(* a statement that ran under the oversight role, whatever its texts hold.   *)
ElevationStays == Answered /\ OwnRole = "" => out.body.q.role = ""

TenantFilter == <<Tok("id", "tenant"), Tok("op", "="), Tok("bind", "tenant")>>

(* Somebody who is not elevated reads a self-tenant endpoint through the     *)
(* filter on its own subject only, whatever tenant the request names, in     *)
(* either dialect and from the cache too; the tenant parameter is a plain    *)
(* query parameter.                                                          *)
SelfTenantScoped ==
    /\ Answered /\ spec.entry.selfTenant /\ OwnRole = ""
    /\ TenantFilter \in Range(SplitTopAnd(Clause(spec.entry.sql, "where")))
    => LET tenants == {c \in Meaning(out.body.q).filter :
                            c /= <<>> /\ c[1] = Tok("id", "tenant")}
       IN  tenants = {<<Tok("id", "tenant"), Tok("op", "="), Tok("Text", out.caller.sub)>>}

(* The cache is within its capacity and gives each caller its own answer.  *)
QueryInv == QueryTypeOK /\ ServedOwn
=============================================================================
