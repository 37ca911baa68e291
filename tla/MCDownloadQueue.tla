--------------------------- MODULE MCDownloadQueue ---------------------------
(* Instances of DownloadQueue for TLC: a first row whose recording has a sidecar file that
   the sensor writes late, and a second row whose capture confirms no file.              *)
EXTENDS DownloadQueue, TLC

CONSTANTS wav, hdr

WaveAndHeader == <<wav, hdr>>
FirstRow == (wav :> 1) @@ (hdr :> 1)
Header == {hdr}
=============================================================================
