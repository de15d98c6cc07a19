--------------------------- MODULE MCCoapHandler ---------------------------
(***************************************************************************)
(* Instance of CoapHandler.                                                *)
(***************************************************************************)
EXTENDS CoapHandler
=============================================================================
