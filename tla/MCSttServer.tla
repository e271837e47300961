---------------------------- MODULE MCSttServer ----------------------------
(***************************************************************************)
(* TLC instance of SttServer: two captioning clients and one upload; two   *)
(* words that just fill a line, the second ending a sentence, and a word   *)
(* wider than a line.                                                      *)
(***************************************************************************)
EXTENDS SttServer

MCWord == {"hola", "fin", "ancho"}
MCWidth == [w \in MCWord |-> CASE w = "hola" -> 28 [] w = "fin" -> 26 [] w = "ancho" -> 56]
MCSentenceEnd == {"fin"}
=============================================================================
