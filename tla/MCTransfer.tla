----------------------------- MODULE MCTransfer -----------------------------
(* A file or a directory d, and what may come to be in d.                  *)
EXTENDS Transfer

MCPath == {<<"d">>, <<"d", "s">>, <<"d", "f">>, <<"d", "g">>, <<"d", "s", "f">>, <<"d", "s", "g">>, <<"d", "s", "g", "f">>,
           <<"d", "g", "f">>}

T(kind, to, src, data) ==
  [kind |-> kind, dest |-> to, slash |-> FALSE, src |-> src, data |-> data, files |-> {},
   mode |-> Default, owner |-> Default, creates |-> <<>>, removes |-> <<>>]

MCTasks == {
  T("content", <<"d">>, <<>>, "x"),
  T("content", <<"d", "f">>, <<>>, "y"),
  T("file", <<"d">>, <<"f">>, "x"),
  T("file", <<"d">>, <<"s", "f">>, "y"),
  [T("file", <<"d">>, <<"f">>, "y") EXCEPT !.slash = TRUE],
  [T("dir", <<"d">>, <<"s">>, "x") EXCEPT !.files = {<<"f">>, <<"g", "f">>}],
  T("template", <<"d", "f">>, <<"f">>, "x"),
  [T("template", <<"d", "f">>, <<"f">>, "y") EXCEPT !.mode = "m", !.owner = "o"],
  [T("template", <<"d">>, <<"f">>, "y") EXCEPT !.owner = "o"],
  [T("get_url", <<"d">>, <<"f">>, "x") EXCEPT !.mode = "m"],
  T("get_url", <<"d", "s">>, <<"f">>, "y"),
  T("command", <<"d", "f">>, <<>>, "x"),
  [T("command", <<"d", "f">>, <<>>, "y") EXCEPT !.creates = <<"d", "f">>, !.removes = <<"d", "g">>],
  [T("command", <<"d", "s">>, <<>>, "y") EXCEPT !.removes = <<"d", "g">>]}
=============================================================================
