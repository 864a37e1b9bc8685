---------------------------- MODULE MCNodeConfig ----------------------------
(* Values for the checks of NodeConfig: a legacy body, its modern form, and  *)
(* one the panel rewrites into the modern form; port 9 is only an operator's.*)
EXTENDS NodeConfig

MCBodies    == {"legacy", "modern", "loose"}
MCPanelForm == [b \in MCBodies |-> IF b = "loose" THEN "modern" ELSE b]
MCModern    == [b \in MCBodies |-> IF b = "legacy" THEN "modern" ELSE b]
Form(p, b)  == [port |-> p, body |-> b, cert |-> FALSE]
MCForms     == {Form(1, "legacy"), Form(2, "loose")}
MCLoose     == {Form(2, "loose")}
MCDrifts    == {Form(9, "legacy")}
=============================================================================
