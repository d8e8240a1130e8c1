---------------------------- MODULE MCGeneration ----------------------------
(* One class under test and one other test file; h is an assert of the     *)
(* developer, a one the model adds.                                        *)
EXTENDS Generation
CONSTANTS target, other, h, a
MCClasses == {target}
MCPaths == {target, other}
MCAsserts == {h, a}
MCAgentTexts == {{a}, {h, a}}
MCHumanTexts == {Absent, {h}}
MCAuthChoices == {{}, {h}}
NoAuth == {{}}
=============================================================================
