---------------------------- MODULE MCResources ----------------------------
(* Two requests over a workspace with two data sources, for an owner       *)
(* without any row, one who has archived the starter pipeline, and one who *)
(* has connected Notion and selected a source.                             *)
EXTENDS Resources, TLC

MCNames == ("a" :> "places") @@ ("b" :> "locations")
MCBodies == {<<"a">>, <<"b">>, <<"b", "a">>, <<"a", "a">>}

MCGraphs == {[name |-> "template", target |-> "places", active |-> TRUE],
             [name |-> "plain", target |-> "a", active |-> FALSE]}

Bundled == [t \in Bootstrap |-> Placeholder]
NewOwner == [instance |-> "none", credential |-> "none", state |-> "open", known |-> {},
             targets |-> <<>>, starter |-> "none"]
Provisioned == [NewOwner EXCEPT !.instance = "pending", !.targets = Bundled,
                                !.starter = "archived"]
Selected == [instance |-> "connected", credential |-> "live", state |-> "used",
             known |-> Sources, starter |-> "active",
             targets |-> ("a" :> "a") @@ ("places" :> "a") @@ ("locations" :> Placeholder)]
MCStarts == {NewOwner, Provisioned, Selected}
Symmetry == Permutations(Requests)
=============================================================================
