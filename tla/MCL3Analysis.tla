---------------------------- MODULE MCL3Analysis ----------------------------
(* Two files of two lines, of which the first can be read.                 *)
EXTENDS L3Analysis

MCRanges == {{1}}
=============================================================================
