---------------------------- MODULE MCConfigEditors ----------------------------
(***************************************************************************)
(* An instance of ConfigEditors for TLC: "cut" is a text that does not end *)
(* in a newline, "whole" the same text with one.                           *)
(***************************************************************************)
EXTENDS ConfigEditors

AddNewline(t) == IF t = "cut" THEN "whole" ELSE t
=============================================================================
