--------------------------- MODULE MCNotifications ---------------------------
(* Two devices, an event that always notifies and one that depends on mode.  *)
EXTENDS Notifications

CONSTANTS lead, inbound
MCKind == lead :> "lead" @@ inbound :> "inbound"
=============================================================================
