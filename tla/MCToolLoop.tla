------------------------------ MODULE MCToolLoop ------------------------------
(* ToolLoop for TLC: one read and two write tools, whose arguments come in normal *)
(* form, as a model also writes them (defaults left out), and invalid.            *)
EXTENDS ToolLoop, TLC

CONSTANTS norm, raw, bad

MCArgs == {norm}
MCRawArgs == {raw, bad}
MCReread == norm :> raw
MCNormalize == norm :> norm @@ raw :> norm @@ bad :> Invalid
==============================================================================
