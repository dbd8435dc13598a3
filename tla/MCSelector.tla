----------------------------- MODULE MCSelector -----------------------------
(***************************************************************************)
(* Small instances of Selector: two aliases, one of which is also written  *)
(* with a capital, on a selector with configurations and on one that was   *)
(* given its drivers.                                                      *)
(***************************************************************************)
EXTENDS Selector

CONSTANTS d1, d2, d3

MCName == {"master", "slave", "Slave"}
MCLower(name) == IF name = "Slave" THEN "slave" ELSE name
MCRetryLists == {<<"slave", "master">>}
MCSelectors ==
    {[configured |-> {"master", "Slave"}, given |-> [n \in MCName |-> None]],
     [configured |-> {},
      given |-> [n \in MCName |-> CASE n = "master" -> d1 [] n = "Slave" -> d2 [] OTHER -> None]]}
=============================================================================
