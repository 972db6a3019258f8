---------------------------- MODULE MCPermitList ----------------------------
(* Words and lists for the TLC run of PermitList.                           *)
EXTENDS PermitList, TLC

MCNumbers == {"10"}

MCWords ==
  {"10", "do", "x"} \cup UNION {Range(verb) : verb \in Lifts \cup
     UNION {Builtin[v].deny \cup Builtin[v].allow : v \in {"aos_cx", "generic"}}}

MCParts ==
  [w \in MCWords |-> {w} \cup (IF w = "start-shell" THEN {"shell"} ELSE {})]

MCLists == {{<<"show">>}, {<<"show">>, <<"write", "erase">>}, {<<"copy">>, <<"reload">>}}
=============================================================================
