----------------------------- MODULE MCStagePush -----------------------------
(* Words, lists and drafts for the TLC runs of StagePush.                   *)
EXTENDS StagePush

CONSTANT MCComment

Show == OneStage(<<"show", "x">>)
Vlan == OneStage(<<"vlan", "10">>)
Copy == OneStage(<<"do", "copy", "x">>)

MCNumbers == {"10"}

MCWords == {"10", "do", "x", "show", "vlan", "copy", "configure",
            "terminal", "name", "vlan10", "end"}

MCParts == [w \in MCWords |-> {w} \cup (IF w = "vlan10" THEN {"vlan", "10"} ELSE {})]

MCLists == {{<<"show">>, <<"copy">>}}

Draft(lines, secret, holes) == [lines |-> lines, secret |-> secret, holes |-> holes]

MCPlain == Draft(<<MCComment, Show, Vlan, Copy>>, FALSE, FALSE)
MCHoles == Draft(<<MCComment>>, FALSE, TRUE)

MCBodies == {MCHoles, Draft(<<Show>>, TRUE, FALSE)}

MCFilled == [b \in MCBodies |-> IF b = MCHoles THEN MCPlain ELSE b]
=============================================================================
