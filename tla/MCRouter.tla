------------------------------ MODULE MCRouter ------------------------------
(* Instances of Router for TLC.  With the thresholds of the configurations a *)
(* page is blank, or its text is for the vision tier (1), for OCR but no     *)
(* further (2), or good (3).                                                 *)
EXTENDS Router

AllTiers == {{}, {"ocr"}, {"ocr", "vision"}, {"ocr", "vision", "probe"}}
OnlyOCR  == {{"ocr"}}
AllReads == {-1, 1, 2, 3}
=============================================================================
