------------------------------- MODULE MCFile -------------------------------
(* A directory with a file and a link in it, and a file outside.           *)
EXTENDS File

MCPath == {"d", "d/f", "d/l", "o"}
MCAbove == [p \in MCPath |-> IF p \in {"d/f", "d/l"} THEN {"d"} ELSE {}]

Given(kind, bits, clauses) == [kind |-> kind, bits |-> bits, clauses |-> clauses]
None == Given("none", {}, <<>>)
Private == Given("octal", {"u"} \X {"r", "w"}, <<>>)
Empty == Given("octal", {}, <<>>)
WithSticky == Given("octal", ({"u"} \X {"r", "w"}) \cup {Sticky}, <<>>)
\* u+x,o=r
Symbolic == Given("symbolic", {}, <<[who |-> {"u"}, op |-> "+", rights |-> {"x"}],
                                    [who |-> {"o"}, op |-> "=", rights |-> {"r"}]>>)

T(path, state, mode, owner) ==
  [path |-> path, state |-> state, src |-> NoPath, recurse |-> FALSE, follow |-> TRUE,
   mode |-> mode, owner |-> owner]

MCTasks == {
  T("d", "absent", None, NoOwner),
  T("d", "directory", None, NoOwner),
  [T("d", "directory", Symbolic, "app") EXCEPT !.recurse = TRUE],
  T("d/f", "touch", Symbolic, NoOwner),
  T("d/f", "file", Empty, "app"),
  T("d/f", "directory", None, NoOwner),
  [T("d/l", "link", None, NoOwner) EXCEPT !.src = "o"],
  [T("d/l", "link", Private, "app") EXCEPT !.src = "d/f"],
  [T("d/l", "link", None, "app") EXCEPT !.src = "o", !.follow = FALSE],
  T("d/l", "directory", Private, NoOwner),
  T("d/l", "touch", None, "app"),
  T("o", "touch", None, NoOwner),
  T("o", "touch", WithSticky, "app"),
  T("o", "absent", None, NoOwner),
  [T("o", "hard", None, NoOwner) EXCEPT !.src = "d"]}
=============================================================================
