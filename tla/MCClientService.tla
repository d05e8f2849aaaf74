--------------------------- MODULE MCClientService --------------------------
(* Small instances of ClientService.                                       *)
EXTENDS ClientService
=============================================================================
