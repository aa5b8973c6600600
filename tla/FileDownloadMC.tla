--------------------------- MODULE FileDownloadMC ---------------------------
(* Versions of a file that grows. *)
EXTENDS FileDownload
Growing == <<1, 2, 2>>
Shrinking == <<2, 1>>
=============================================================================
