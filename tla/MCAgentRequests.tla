-------------------------- MODULE MCAgentRequests --------------------------
(* A small instance of AgentRequests for TLC. *)
EXTENDS AgentRequests, SequencesExt

CONSTANTS d1, d2

RootOn(d, pool) == [id |-> d, root |-> TRUE, pool |-> pool]
SomeProfiles == {{RootOn(d1, TRUE)}, {RootOn(d1, TRUE), RootOn(d2, TRUE)}}

Plain == {"", ".", "..", "1.0", "2.0", "instances", "images", "operations", "profiles", "x",
          "agent", "v1", "lifecycle", "capabilities", "state", "network", "apply"}
Escaped == {"%2e", "%2E%2e", "x%2fy", "%2f", "%69mages", "%252e%252e", "x%23f", "instances%2fx"}
Loose == {"a b", "x#f", "#f", "..#f", "%2E%2e#f", "x%2fy#f", "instances%2fx#f", "x#f%2fy"}
Unescape == [s \in Escaped \union Loose |->
    CASE s = "%2e" -> <<".">>
      [] s = "%2E%2e" -> <<"..">>
      [] s = "x%2fy" -> <<"x", "y">>
      [] s = "%2f" -> <<"", "">>
      [] s = "%69mages" -> <<"images">>
      [] s = "%252e%252e" -> <<"%2e%2e">>
      [] s = "x%23f" -> <<"x#f">>
      [] s = "instances%2fx" -> <<"instances", "x">>
      [] s = "%2E%2e#f" -> <<"..#f">>
      [] s = "x%2fy#f" -> <<"x", "y#f">>
      [] s = "instances%2fx#f" -> <<"instances", "x#f">>
      [] s = "x#f%2fy" -> <<"x#f", "y">>
      [] OTHER -> <<s>>]
WithHash == Loose \ {"a b"}
BeforeHash == [s \in WithHash |->
    CASE s \in {"x#f", "x#f%2fy"} -> "x"
      [] s = "#f" -> ""
      [] s = "..#f" -> ".."
      [] s = "%2E%2e#f" -> "%2E%2e"
      [] s = "x%2fy#f" -> "x%2fy"
      [] s = "instances%2fx#f" -> "instances%2fx"]

(* Paths of Incus with every segment in the third place, and near misses.  *)
IncusPaths ==
    {<<"1.0">>, <<"2.0">>, <<"1.0", "">>}
        \union {<<"1.0", s>> : s \in {"instances", "images", "operations", "profiles", "%69mages",
                                 "instances%2fx", "instances%2fx#f", "#f"}}
        \union {<<"1.0", c, s>> : c \in {"instances", "profiles", "%69mages"}, s \in Plain \union Escaped \union Loose}
        \union {<<"1.0", "instances", "x", s>> : s \in {"", "state"}}

AgentPaths ==
    {<<"agent", "v1">>}
        \union {<<"agent", "v1", s>> : s \in {"", "state", "lifecycle", "network", "x"}}
        \union {<<"agent", "v1", "network", s>> : s \in {"state", "apply", "x"}}
        \union {<<"agent", "v1", "lifecycle", s>> : s \in {"", "capabilities", "x"}}

SomeInputs ==
    [id : {"", "id"}, method : {"GET", "POST", "HEAD"}, path : {<<>>} \union IncusPaths \union AgentPaths,
     query : {"none"}]
    \union
    [id : {"id"}, method : {"GET"}, path : {<<"1.0">>, <<"1.0", "images">>, <<"1.0", "images", "x">>, <<"agent", "v1", "state">>},
     query : {"empty", "recursion=1", "recursion=1&recursion=1"}]
    \union
    [id : {"id"}, method : {"GET"}, path : {<<"1.0", "instances", "x#f">>}, query : {"empty", "recursion=1"}]
=============================================================================
