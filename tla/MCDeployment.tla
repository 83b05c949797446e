---------------------------- MODULE MCDeployment ----------------------------
(***************************************************************************)
(* Two processes that start at once over an empty database, an old one and *)
(* an up-to-date one, and two that serve a browser with two tabs and a     *)
(* client of the API.                                                      *)
(***************************************************************************)
EXTENDS Deployment

Start(revision0, phase0, boots0, api, web) ==
  [revision |-> revision0, phase |-> phase0, boots |-> boots0,
   requests |-> [api |-> api, web |-> web]]
MCDeployments ==
  {Start(n, "down", 3, 0, 0) : n \in {0, 5, 7}}
  \cup {Start(Head, "serving", 1, 4, 0), Start(Head, "serving", 0, 1, 3)}
=============================================================================
