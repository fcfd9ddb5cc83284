------------------------------- MODULE MCQuery -------------------------------
(* TLC instances of Query. *)
EXTENDS Query

MCDocs == 1..3
\* The text goes with the rank, so that a mixture of two versions shows.
MCVersions == {[rank |-> 1, text |-> "first"], [rank |-> 2, text |-> "second"]}

MCQueries ==
  [wanted : {{1, 2}, {2}}, order : {"none", "desc"}, skip : {0, 1, 4},
   limit : {0, 1, 2}, load : {TRUE}]
  \cup [wanted : {{1, 2}}, order : {"asc"}, skip : {0, 1}, limit : {0, 2}, load : {FALSE}]
=============================================================================
