---------------------------- MODULE MCCabinetRun ----------------------------
(* Small instances of the live cabinet.                                    *)
EXTENDS CabinetRun
=============================================================================
