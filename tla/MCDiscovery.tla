---------------------------- MODULE MCDiscovery ----------------------------
(* One role that has everything, and another entry beside it.              *)
EXTENDS Discovery

Vars(x, y) == [v \in Var |-> IF v = "x" THEN x ELSE y]
N(content) == [kind |-> "none", content |-> content, files |-> {}]
F(content) == [kind |-> "file", content |-> content, files |-> {}]
D(content, files) == [kind |-> "dir", content |-> content, files |-> files]
P(yml, yaml, main) == [kind |-> "dir", yml |-> yml, yaml |-> yaml, main |-> main]
NoPlaceOf(none) == [P(none, none, none) EXCEPT !.kind = "none"]
FileOf(none) == [P(none, none, none) EXCEPT !.kind = "file"]

At(path, content) == [path |-> path, content |-> content]
M(files) == D(Empty, files)

\* A file and one in a directory after it, then in one before it: the test of vars_test.go:81
\* and its converse.
v0 == N(Empty)
MainNodes == {v0, F(Vars(1, 2)), F(Bad), M({}),
              M({At(<<1>>, Vars(1, 2)), At(<<2, 1>>, Vars(2, Undef))}),
              M({At(<<1, 1>>, Vars(1, 2)), At(<<2>>, Vars(2, Undef))}),
              M({At(<<1, 1, 2>>, Vars(2, Undef)), At(<<1, 2>>, Vars(Undef, 1)), At(<<2>>, Vars(1, Undef))}),
              M({At(<<1>>, Vars(1, 1)), At(<<2>>, Bad)})}
VarsPlaces == {NoPlaceOf(v0), FileOf(v0)} \cup
              {P(yml, yaml, main) : yml \in {v0, F(Vars(2, 2)), F(Bad), M({})},
                                    yaml \in {v0, F(Vars(Undef, 2)), M({})}, main \in MainNodes}

t0 == N(<<>>)
TasksNodes == {t0, F(<<{"copy"}, {"become", "file", "copy"}>>), F(<<{"become"}>>), F(Bad), D(<<>>, {})}
TasksPlaces == {NoPlaceOf(t0), FileOf(t0)} \cup
               {P(yml, t0, main) : yml \in {t0, F(<<{"file"}>>)}, main \in TasksNodes}
               \cup {P(t0, yaml, t0) : yaml \in TasksNodes}

E(defaults, variables, tasks, other) ==
  [dir |-> TRUE, defaults |-> defaults, vars |-> variables, tasks |-> tasks, other |-> other]
Nowhere == E(NoPlaceOf(v0), NoPlaceOf(v0), NoPlaceOf(t0), FALSE)

MCTrees ==
  LET Webs == {E(d, NoPlaceOf(v0), t, o) : d \in VarsPlaces, t \in TasksPlaces, o \in BOOLEAN}
              \cup {E(NoPlaceOf(v0), d, t, FALSE) : d \in VarsPlaces, t \in TasksPlaces}
      Others == {[Nowhere EXCEPT !.dir = FALSE, !.other = TRUE], Nowhere,
                 E(P(F(Vars(1, 1)), v0, v0), P(v0, F(Vars(2, 2)), v0), NoPlaceOf(t0), FALSE)}
  IN  {[r \in RoleName |-> IF r = "web" THEN w ELSE o] : w \in Webs, o \in Others}
=============================================================================
