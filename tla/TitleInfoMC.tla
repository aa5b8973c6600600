------------------------------- MODULE TitleInfoMC -------------------------------
(***************************************************************************)
(* The menus of the TitleInfo runs: of two games, one has a save.          *)
(***************************************************************************)
EXTENDS TitleInfo

GamesAndSaves == [games |-> {"a", "b"}, saves |-> {"a"}]
=============================================================================
