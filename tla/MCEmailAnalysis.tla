---------------------------- MODULE MCEmailAnalysis ----------------------------
(* A small instance of EmailAnalysis: two requests, for one message or for a      *)
(* plain text and the raw e-mail that upgrades it.                                *)
EXTENDS EmailAnalysis

CONSTANTS text, eml, link

MCScans == {text, eml}
MCStageOf == [s \in MCScans |-> IF s = text THEN 0 ELSE 1]
MCParentOf == [s \in MCScans |-> IF s = eml THEN {text} ELSE {}]
MCLinksOf == [s \in MCScans |-> IF s = text THEN {link} ELSE {}]
===============================================================================
