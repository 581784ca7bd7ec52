------------------------------ MODULE MCRouter ------------------------------
(* Routes with names, parameters, wildcards and empty segments, for one    *)
(* method, for two, for any, and for upgrades.                             *)
EXTENDS HttpRouter
SomeRoutes ==
  {Registration("GET", <<"a", "b">>, FALSE), Registration("GET", <<"a", ":">>, FALSE),
   Registration("GET", <<":", "b">>, FALSE), Registration("GET", <<"a", "*">>, FALSE),
   Registration("GET", <<"*">>, FALSE), Registration("GET", <<"*">>, TRUE),
   Registration("GET", <<"a", "b">>, TRUE), Registration("GET", <<":", "b", "c">>, FALSE),
   Registration("POST", <<"a", "b">>, FALSE), Registration("POST", <<":", "">>, FALSE),
   Registration(ANY, <<"a", "b">>, FALSE), Registration(ANY, <<":">>, FALSE),
   [methods |-> <<"GET", "POST">>, pattern |-> <<"a", "b">>, priority |-> MEDIUM]}
SomeUrls == {<<"a", "b">>, <<"a", "c">>, <<"a">>, <<"">>, <<"a", "">>, <<"c", "b">>, <<"a", "b", "c", "d">>}
=============================================================================
