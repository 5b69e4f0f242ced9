---------------------------- MODULE MCAgentLink ----------------------------
(***************************************************************************)
(* Two files for TLC: one shrinks from two chunks to one when it changes,  *)
(* the other from one chunk to an empty file.                              *)
(***************************************************************************)
EXTENDS AgentLink

MCSizes == << <<2, 1>>, <<1, 0>> >>
============================================================================
