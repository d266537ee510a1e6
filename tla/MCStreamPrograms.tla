-------------------------- MODULE MCStreamPrograms --------------------------
(* Two servers, two clients and a buffer of five bytes, of which a small   *)
(* int counts three, for model checking StreamPrograms.                    *)
EXTENDS StreamPrograms

MCBuffer == <<1, 2, 3, 4, 5>>
=============================================================================
