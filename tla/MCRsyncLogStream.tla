-------------------------- MODULE MCRsyncLogStream --------------------------
(* A small log for TLC: three lines, the final log request gets one of     *)
(* them, two name failed files.                                            *)
EXTENDS RsyncLogStream

MCFailedLines == {1, 3}
MCExitCodes   == {0, 23}
=============================================================================
