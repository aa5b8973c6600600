----------------------------- MODULE InstallStreamMC -----------------------------
(***************************************************************************)
(* The sessions of the InstallStream runs.                                 *)
(***************************************************************************)
EXTENDS InstallStream

(* Files that are larger than the buffer, with a block the installer does  *)
(* not want, and nothing goes wrong.                                       *)
Calm == [folder : {"ftp", "mtp"}, files : {3}, size : {5}, want : {4},
         events : {{}}]

(* One such file, whose install fails or is cancelled.                     *)
Failing == [folder : {"ftp", "mtp"}, files : {1}, size : {5}, want : {5},
            events : {{"fail"}, {"cancel"}}]

(* One file that fits into the buffer, and everything goes wrong.          *)
Rough == [folder : {"ftp", "mtp"}, files : {1}, size : {3}, want : {3},
          events : {{"fail", "abort", "cancel", "leave"}}]

AllSessions == Calm \cup Failing \cup Rough

(* Two uploads, and the install of the first may fail. *)
Queue == [folder : {"ftp"}, files : {2}, size : {3}, want : {3},
          events : {{"fail"}}]
=============================================================================
