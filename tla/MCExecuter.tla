----------------------------- MODULE MCExecuter -----------------------------
(* A small inventory, three roles and every playbook of at most two plays. *)
EXTENDS Executer, FiniteSets

MCVar == {"x", "y", "l", "res", "item"}
MCAtom == ResultText \cup {ListText, RawText, "inv", "play", "file", "dflt", "rv", "p", "q",
                           "more", "deep", "gone"}

List(s) == [list |-> TRUE, of |-> s]
Var1(x, v) == [Empty EXCEPT ![x] = v]
Var2(x, v, y, w) == [Empty EXCEPT ![x] = v, ![y] = w]

NoGuard == [op |-> "none", var |-> "x", atom |-> "inv"]
Is(x, a) == [op |-> "is", var |-> x, atom |-> a]
Defined(x) == [op |-> "defined", var |-> x, atom |-> "inv"]
NoLoop == [op |-> "none", items |-> <<>>, var |-> "x"]
Over(s) == [op |-> "list", items |-> s, var |-> "x"]
OverVar(x) == [op |-> "var", items |-> <<>>, var |-> x]
T(x) == [ref |-> TRUE, of |-> x]

A(when, loop, content, register) ==
  [when |-> when, loop |-> loop, include |-> FALSE, content |-> content, register |-> register]
I(when, loop, content, register) ==
  [when |-> when, loop |-> loop, include |-> TRUE, content |-> content, register |-> register]

MCRole == {"base", "web", "app"}
MCRoleDefaults == [r \in MCRole |-> IF r = "base" THEN Var2("x", Text("dflt"), "y", Text("dflt"))
                                    ELSE IF r = "app" THEN Var1("y", Text("dflt")) ELSE Empty]
MCRoleVars == [r \in MCRole |-> IF r = "app" THEN Var1("x", Text("rv"))
                                ELSE IF r = "web" THEN Var1("l", List(<<"p", "q">>)) ELSE Empty]
MCRoleTasks == [r \in MCRole |->
  CASE r = "base" -> <<A(NoGuard, NoLoop, T("x"), "res"),
                       A(Is("res", "changed"), NoLoop, T("y"), "y")>>
    [] r = "web"  -> <<A(NoGuard, OverVar("l"), T("item"), "res"),
                       I(Is("res", "changed"), NoLoop, Literal("more"), NoVar)>>
    [] r = "app"  -> <<A(Defined("res"), NoLoop, T("y"), NoVar),
                       I(NoGuard, Over(<<Literal("more"), Literal("more")>>), T("item"), "res")>>]

MCVarsFiles == [f \in {"vars.yaml"} |-> Var1("y", Text("file"))]
MCTaskFiles == [f \in {"more", "deep"} |->
  IF f = "more" THEN <<A(Is("x", "inv"), NoLoop, T("x"), "x")>>
  ELSE <<A(NoGuard, OverVar("l"), Literal("p"), NoVar), I(NoGuard, NoLoop, Literal("deep"), NoVar)>>]

P(hosts, map, files, roles, tasks) ==
  [hosts |-> hosts, vars |-> map, files |-> files, roles |-> roles, tasks |-> tasks]

PlainTasks == <<A(Is("y", "file"), NoLoop, T("y"), "res"),
                A(NoGuard, Over(<<Literal("p"), T("x")>>), T("item"), "l"),
                I(Is("l", "changed"), NoLoop, Literal("more"), "res")>>

MCPlays ==
  {P("all", Empty, <<"vars.yaml">>, <<>>, PlainTasks),
   P("db", Empty, <<>>, <<"base">>, <<>>),
   P("node", Var1("x", Text("play")), <<"vars.yaml">>, <<"base", "web">>, <<A(NoGuard, NoLoop, T("x"), "y")>>),
   P("all", Empty, <<>>, <<"app", "base">>, <<A(NoGuard, OverVar("x"), T("item"), NoVar)>>),
   P("all", Var1("l", List(<<"p">>)), <<>>, <<"web">>, <<I(NoGuard, NoLoop, Literal("deep"), NoVar)>>),
   P("all", Empty, <<>>, <<"base", "app", "base">>, <<>>),
   P("all", Empty, <<"none.yaml">>, <<>>, <<>>),
   P("node", Empty, <<>>, <<"app", "ghost">>, <<>>),
   P("all", Empty, <<>>, <<>>, <<A(Defined("res"), NoLoop, T("res"), NoVar)>>),
   P("all", Empty, <<>>, <<>>, <<I(Is("res", "ok"), NoLoop, Literal("more"), NoVar)>>),
   P("node", Var1("l", List(<<>>)), <<>>, <<>>, <<I(NoGuard, NoLoop, Literal("gone"), NoVar)>>)}

AllPlaybooks == {<<p, q>> : p, q \in MCPlays} \cup {<<p>> : p \in MCPlays}
OncePlaybooks == {pb \in AllPlaybooks : NoRoleTwice(pb)}

MCGroups == {"all", "web"}
MCInventoryVars == Var1("x", Text("inv"))
=============================================================================
