-------------------------------- MODULE MCCtl --------------------------------
(***************************************************************************)
(* Ctl on a small instance.                                                *)
(***************************************************************************)
EXTENDS Ctl

\* The config file can be written: what a client sees does not depend on it, since the user
\* may bring about any table by hand.
WrittenSpec == CtlInit /\ [][CtlNext /\ disk' = table']_ctlVars
=============================================================================
