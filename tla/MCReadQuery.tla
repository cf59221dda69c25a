---------------------------- MODULE MCReadQuery ----------------------------
(* Small endpoints: a statement is put together from one choice per clause. *)
EXTENDS ReadQuery

Id(n) == Tok("id", n)
Bind(n) == Tok("bind", n)
Frag(n) == Tok("frag", n)
Op(n) == Tok("op", n)
Lp == Tok("(", "")
Rp == Tok(")", "")
Comma == Tok(",", "")

Param(name, k, ty, default) ==
    [name |-> name, kind |-> k, ty |-> ty, required |-> FALSE, default |-> default,
     min |-> 1, max |-> 9, maxLen |-> 5, transform |-> "none",
     select |-> <<>>, present |-> <<>>, absent |-> <<>>]

AParam == Param("a", "query", "symbol", "x")
BParam == [Param("b", "query", "int", NoText) EXCEPT
              !.present = [andb |-> <<Kw("and"), Id("n"), Op(">="), Bind("b")>>],
              !.absent = [andb |-> <<>>]]
CParam == Param("c", "query", "str", NoText)
OrdParam == [Param("ord", "query", "enum", "up") EXCEPT
                !.transform = "lower",
                !.select = [up |-> [ord |-> <<Id("ts")>>],
                            down |-> [ord |-> <<Id("ts"), Kw("desc")>>]]]
LimParam == Param("lim", "query", "int", "5")
TenantParam == Param("tenant", "query", "str", NoText)

Conjuncts ==
    {<<Id("tenant"), Op("="), Bind("tenant")>>,
     <<Id("d.ts"), Op("<>"), Bind("a")>>,
     <<Id("n"), Op(">"), Bind("lim"), Tok("cast", "bigint")>>,
     <<Id("k"), Kw("not"), Kw("in"), Lp, Bind("a"), Comma, Bind("lim"), Rp>>,
     <<Id("f"), Lp, Bind("lim"), Tok("cast", "int8"), Rp, Op("="), Id("ts")>>}

Filters ==
    {<<>>,
     <<Id("k"), Op("="), Bind("a"), Frag("andb")>>,
     <<Id("k"), Kw("in"), Lp, Bind("a"), Rp, Frag("andb")>>,
     <<Id("k"), Op("="), Bind("a"), Kw("or"), Id("n"), Op("="), Bind("lim")>>}
    \cup Conjuncts
    \cup {p[1] \o <<Kw("and")>> \o p[2] : p \in {q \in Conjuncts \X Conjuncts : q[1] /= q[2]}}

Statement(sel, join, filter, order, lim) ==
    <<Kw("select")>> \o sel \o <<Kw("from"), Id("t"), Id("d")>> \o join
    \o (IF filter = <<>> THEN <<>> ELSE <<Kw("where")>> \o filter)
    \o (IF order = <<>> THEN <<>> ELSE <<Kw("order by")>> \o order)
    \o (IF lim = <<>> THEN <<>> ELSE <<Kw("limit")>> \o lim)

Entry(sql) ==
    [sql |-> sql, params |-> <<AParam, BParam, CParam, LimParam, OrdParam, TenantParam>>,
     selfTenant |-> Bind("tenant") \in Range(sql), crossTenant |-> FALSE, chFinal |-> FALSE,
     cache |-> FALSE, shape |-> "rows"]

(* Every shape of statement, not cached. *)
Heads ==
    {<<<<Id("k")>>, <<>>>>,
     <<<<Id("k"), Comma, Bind("lim")>>, <<>>>>,
     <<<<Id("k")>>, <<Kw("join"), Id("u"), Kw("on"), Id("k"), Op("="), Bind("a")>>>>}

Shapes ==
    {Entry(Statement(head[1], head[2], filter, order, <<Bind("lim")>>)) :
        head \in Heads, filter \in Filters,
        order \in {<<>>, <<Id("ts"), Kw("desc"), Comma, Id("k")>>}}

Plain(filter) == Entry(Statement(<<Id("k")>>, <<>>, filter, <<Id("ts")>>, <<>>))

(* The rest of the grammar, one at a time. *)
Oddities ==
    LET base == Plain(<<Id("ts"), Op(">="), Bind("a")>>)
    IN  {[base EXCEPT !.chFinal = TRUE],
         [base EXCEPT !.chFinal = TRUE, !.sql = Statement(<<Id("k")>>, <<>>,
             <<Id("k"), Op(">="), Bind("a")>>, <<Id("k")>>, <<>>)],
         [base EXCEPT !.sql = base.sql \o <<Comma, Frag("ord")>>],
         [base EXCEPT !.sql = base.sql \o <<Kw("group by"), Id("k"), Kw("limit"), Tok("lit", "1")>>],
         [base EXCEPT !.sql = base.sql \o <<Kw("bail")>>, !.shape = "one"],
         [base EXCEPT !.sql = base.sql \o <<Frag("nobody")>>],
         [base EXCEPT !.sql = base.sql \o <<Kw("count distinct")>>],
         [base EXCEPT !.selfTenant = TRUE],
         [base EXCEPT !.sql = base.sql \o <<Kw("limit"), Bind("z")>>],
         Plain(<<Id("n"), Op("="), Bind("lim"), Tok("cast", "uuid")>>),
         Plain(<<Id("n"), Op("="), Bind("c")>>),
         [base EXCEPT !.params = <<[AParam EXCEPT !.ty = "date"]>>],
         [base EXCEPT !.params = <<[AParam EXCEPT !.ty = "bool"]>>],
         [Plain(<<Id("k"), Op("="), Bind("symbol")>>) EXCEPT
             !.params = <<Param("symbol", "path", "symbol", NoText)>>]}

(* Cached endpoints, among them one an admin reads across tenants. *)
Cached ==
    LET own == Plain(<<Id("tenant"), Op("="), Bind("tenant")>>)
        two == Plain(<<Id("k"), Op("="), Bind("a"), Frag("andb")>>)
        text == [two EXCEPT !.params = <<[AParam EXCEPT !.ty = "str"], BParam>>,
                            !.shape = "envelope"]
    IN  {[own EXCEPT !.cache = TRUE],
         [own EXCEPT !.cache = TRUE, !.crossTenant = TRUE],
         [two EXCEPT !.cache = TRUE, !.crossTenant = TRUE],
         [text EXCEPT !.cache = TRUE]}

MCEndpoints == Shapes \cup Oddities \cup Cached

MCCallers == {[sub |-> "u1", role |-> "user"], [sub |-> "u2", role |-> "admin"],
              [sub |-> "", role |-> ""]}

MCPaths == {<<>>, [symbol |-> "x"]}

MCRawQueries ==
    {<<>>,
     <<<<"tenant", "u1">>, <<"tenant", "u2">>>>,
     <<<<"a", "y">>, <<"b", "07">>, <<"c", "w">>>>,
     <<<<"b", "12">>>>,
     <<<<"a", "!">>, <<"ord", "DOWN">>>>,
     <<<<"ord", "DOWN">>, <<"lim", "many">>>>,
     <<<<"ord", "DOWN">>, <<"c", "w">>>>,
     <<<<"a", "y%26b%3D7">>>>}

MCNameOrder == <<"a", "b", "c", "lim", "ord", "symbol", "tenant">>

MCEncoded == [x \in {"y%26b%3D7"} |-> "y&b=7"]
MCUpper == [x |-> "X", y |-> "Y"]
MCLower == [x \in {"DOWN"} |-> "down"]
MCKeyText == {"X", "Y"}
MCNumber == [x \in {"07", "12", "5"} |-> CASE x = "07" -> 7 [] x = "12" -> 12 [] OTHER -> 5]
MCMoment == [y |-> "day"]
MCChars == [x \in {"y&b=7"} |-> <<"y", "&", "b", "=", "7">>]
MCUnqualified == [x \in {"d.ts"} |-> "ts"]
=============================================================================
