---------------------------- MODULE YatiInstallMC ----------------------------
(* Versions of an update, each with a cnmt and a program of its own and a  *)
(* content they share.                                                     *)
EXTENDS YatiInstall
MetaOf == [v \in Version |-> <<"meta", v>>]
ContentsOf == [v \in Version |->
                 {<<"meta", v>>, <<"program", v>>, <<"data", 0>>}]
=============================================================================
