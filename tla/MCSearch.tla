------------------------------ MODULE MCSearch ------------------------------
(***************************************************************************)
(* A small instance of Search: two metadata values that share a title, so  *)
(* that ties occur, and differ in year, tags and words; and query strings  *)
(* with each view, order and filter, some of which ParseQuery refuses.     *)
(***************************************************************************)
EXTENDS Search

MCMeta ==
  {[title |-> 1, year |-> 1900, tags |-> {1},    words |-> {8}],
   [title |-> 1, year |-> 1950, tags |-> {1, 2}, words |-> {9}]}

\* The query string that sets nothing.
Bare == [view |-> "", sort |-> "", status |-> "", tag |-> << >>,
         keyword |-> << >>, year |-> << >>, limit |-> << >>]

MCRequest ==
  {[Bare EXCEPT !.sort = "oldest"],
   [Bare EXCEPT !.view = "working"],
   [Bare EXCEPT !.status = "approved", !.sort = "title", !.tag = <<1>>,
                !.limit = <<2>>],
   [Bare EXCEPT !.view = "working", !.status = "pending_review",
                !.keyword = <<1>>, !.year = <<1950>>],
   [Bare EXCEPT !.status = "draft"],
   [Bare EXCEPT !.limit = <<0>>]}
=============================================================================
