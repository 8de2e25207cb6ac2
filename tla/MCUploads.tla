------------------------------ MODULE MCUploads ------------------------------
(* Two requests over two images, one of them at the size limit of the single *)
(* upload, which takes only what is below it.                           *)
EXTENDS Uploads

CONSTANTS r1, r2, small, big

MCSize == [f \in Files |-> IF f = big THEN 3 ELSE 1]
=============================================================================
