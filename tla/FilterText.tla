----------------------------- MODULE FilterText -----------------------------
(***************************************************************************)
(* The formatter: a compiled filter back to a text (windivert_helper.c,    *)
(* WinDivertHelperFormatFilter).  The tests of the object are the nodes of *)
(* a graph; nodes with a single reference are merged into their referrers  *)
(* until the first node is the whole expression.                           *)
(*                                                                         *)
(* A node is its expression, its two targets and the number of references; *)
(* a node with no reference is the NULL entry of the C array.              *)
(***************************************************************************)
EXTENDS Filter

Verdicts == {ACCEPT, REJECT}

TRUE_EXPR == [kind |-> "true"]
FALSE_EXPR == [kind |-> "false"]

DecompileTest(insn, count) ==
    [e |-> Test(insn.field, insn.test, insn.arg), succ |-> insn.success,
     fail |-> insn.failure, count |-> count]

\* Mutant: the jumps of failed tests are not counted.
DecompileHalf(obj) ==
    LET Refs(i) == Cardinality({j \in DOMAIN obj : obj[j].success = i}) + Bit(i = 1)
    IN  [i \in DOMAIN obj |-> DecompileTest(obj[i], Refs(i))]

\* Each test with the number of jumps to it; the first is also the entry.
Decompile(obj) ==
    LET Refs(i) == Cardinality({j \in DOMAIN obj : obj[j].success = i})
                   + Cardinality({j \in DOMAIN obj : obj[j].failure = i}) + Bit(i = 1)
    IN  [i \in DOMAIN obj |-> DecompileTest(obj[i], Refs(i))]

DerefExpr(nodes, l) == IF l \in Verdicts THEN nodes ELSE [nodes EXCEPT ![l].count = @ - 1]

\* Merges what it can into x, the expression that replaces node i.
RECURSIVE CoalesceAndOr(_, _, _)
CoalesceAndOr(nodes, i, x) ==
    LET Single(l) == l \notin Verdicts /\ nodes[l].count = 1
        Deref(ls) == FoldLeft(DerefExpr, nodes, ls)
        Into(e, n) == [e |-> e, succ |-> n.succ, fail |-> n.fail, count |-> x.count]
        S == nodes[x.succ]
        F == nodes[x.fail]
    IN  CASE x.count = 0 -> nodes
          [] x.count # 0 /\ Single(x.succ) /\ S.fail = x.fail ->
                 CoalesceAndOr(Deref(<<x.succ, x.fail>>), i, Into(BinOp("and", x.e, S.e), S))
          [] x.count # 0 /\ Single(x.succ) /\ S.fail # x.fail /\ S.succ = x.fail ->
                 CoalesceAndOr(Deref(<<x.succ, x.fail>>), i,
                               Into(IfThenElse(x.e, S.e, TRUE_EXPR), S))
          [] OTHER ->
                 CASE Single(x.fail) /\ F.succ = x.succ ->
                          CoalesceAndOr(Deref(<<x.fail, x.succ>>), i, Into(BinOp("or", x.e, F.e), F))
                   [] Single(x.fail) /\ F.succ # x.succ /\ F.fail = x.succ ->
                          CoalesceAndOr(Deref(<<x.succ, x.fail>>), i,
                                        Into(IfThenElse(x.e, FALSE_EXPR, F.e), F))
                   [] OTHER ->
                          IF Single(x.succ) /\ Single(x.fail) /\ S.succ = F.succ /\ S.fail = F.fail
                          THEN CoalesceAndOr(Deref(<<x.succ, x.fail, S.succ, F.fail>>), i,
                                             Into(IfThenElse(x.e, S.e, F.e), S))
                          ELSE [nodes EXCEPT ![i] = x]

\* What is left becomes a tree of (?:); ERROR for a node that is gone.
RECURSIVE CoalesceExpr(_, _)
CoalesceExpr(nodes, l) ==
    LET n == nodes[l]
        s == CoalesceExpr(nodes, n.succ)
        f == CoalesceExpr(nodes, n.fail)
    IN  CASE l = ACCEPT -> TRUE_EXPR
          [] l = REJECT -> FALSE_EXPR
          [] l \notin Verdicts /\ n.count = 0 -> ERROR
          [] l \notin Verdicts /\ n.count # 0 /\ n.succ = n.fail -> s
          [] OTHER -> IF s = TRUE_EXPR /\ f = FALSE_EXPR THEN n.e
                      ELSE IfThenElse(n.e, s, f)

Tok(k) == [kind |-> k, val |-> 0]
Num(v) == [kind |-> "number", val |-> v]
Number(v) == IF v < 0 THEN <<Tok("-"), Num(-v)>> ELSE <<Num(v)>>

\* A field that is 0 or 1 is written alone or with "not".
FormatTestExpr(t) ==
    LET negated == (t.test = "=") = (t.arg = 0)
    IN  IF t.field \in BoolFields \cup {"zero", "loopback", "impostor"}
           /\ t.arg \in -1 .. 1 /\ t.test \in {"=", "!="}
        THEN (IF negated THEN <<Tok("not")>> ELSE <<>>) \o <<Tok(t.field)>>
        ELSE <<Tok(t.field), Tok(t.test)>> \o Number(t.arg)

Paren(toks, yes) == IF yes THEN <<Tok("(")>> \o toks \o <<Tok(")")>> ELSE toks

RECURSIVE FormatExpr(_, _, _)
FormatExpr(e, top_level, and) ==
    CASE e.kind = "and" ->
             Paren(FormatExpr(e.a, FALSE, TRUE) \o <<Tok("and")>> \o FormatExpr(e.b, FALSE, TRUE),
                   ~top_level /\ ~and)
      [] e.kind = "or" ->
             Paren(FormatExpr(e.a, FALSE, FALSE) \o <<Tok("or")>> \o FormatExpr(e.b, FALSE, FALSE),
                   ~top_level /\ and)
      [] e.kind = "?" ->
             Paren(FormatExpr(e.c, TRUE, FALSE) \o <<Tok("?")>> \o FormatExpr(e.a, TRUE, FALSE)
                   \o <<Tok(":")>> \o FormatExpr(e.b, TRUE, FALSE), TRUE)
      [] e.kind \in {"true", "false"} -> <<Tok(e.kind)>>
      [] e.kind = "test" -> FormatTestExpr(e)

\* The text of an object; empty when a node is missing.
FormatFilter(obj) ==
    LET n == Len(obj)
        merged[k \in 0 .. n] ==         \* the last k nodes merged
            IF k = 0 THEN Decompile(obj)
            ELSE CoalesceAndOr(merged[k - 1], n - k + 1, merged[k - 1][n - k + 1])
        e == CoalesceExpr(merged[n], 1)
    IN  IF e = ERROR THEN <<>> ELSE FormatExpr(e, TRUE, FALSE)
=============================================================================
