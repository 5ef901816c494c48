---------------------------- MODULE MCHelpdesk ----------------------------
(* The TLC instance of Helpdesk: a resident, an administrator and a vendor *)
(* who has only what is assigned; a category with both deadlines.  Either  *)
(* two requests at once work on the ticket of one event, or one request at *)
(* a time on the first of two tickets while the second runs late.          *)
EXTENDS Helpdesk, TLC

CONSTANTS resident, admin, vendor, t1, w1, e1

MCRole ==
  (resident :> "RESIDENT_OWNER") @@ (admin :> "COMMUNITY_ADMIN") @@ (vendor :> "VENDOR_USER")

MCCategories == {[respond |-> "ahead", due |-> "ahead"]}

MCBounds ==
  {[posts |-> {e1}, handled |-> Tickets, workers |-> Workers],
   [posts |-> {NoEvent}, handled |-> {t1}, workers |-> {w1}]}
=============================================================================
