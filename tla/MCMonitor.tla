----------------------------- MODULE MCMonitor ------------------------------
(* A screen of three rows and four columns.  After `sti' the boot thread     *)
(* writes a line and a line with a status text; the tasks write like       *)
(* umode() and umode2() of main.c.                                         *)
EXTENDS Monitor

MCStatus    == << "[", "]" >>
MCBootTexts == { << "a", "nl" >>, << "a", "status", "[", "]" >> }
MCTaskTexts == { << "b", "a", "nl" >> }
=============================================================================
