------------------------------- MODULE MCWiki --------------------------------
(***************************************************************************)
(* Two sessions of one project, by two people.                             *)
(***************************************************************************)
EXTENDS Wiki

MCDigest == {[project |-> "scribe", actor |-> "ann", rank |-> 1],
             [project |-> "scribe", actor |-> "bob", rank |-> 2]}
MCOneDigest == {[project |-> "scribe", actor |-> "ann", rank |-> 1]}

=============================================================================
