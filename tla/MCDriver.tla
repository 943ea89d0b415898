------------------------------ MODULE MCDriver ------------------------------
(***************************************************************************)
(* Command lines of up to three arguments and files of up to three items.  *)
(***************************************************************************)
EXTENDS Driver

Group(letters) == [kind |-> "group", letters |-> letters]
Long(name, attached) == [kind |-> "long", name |-> name, attached |-> attached]

MCArguments ==
  {[kind |-> "word"], [kind |-> "end"],
   Group(<<"o">>), Group(<<"g">>), Group(<<"g", "o">>), Group(<<"o", "g">>),
   Group(<<"z">>), Long("output", FALSE), Long("output", TRUE)}
=============================================================================
