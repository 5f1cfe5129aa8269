----------------------------- MODULE XSMTToLinalg -----------------------------
(***************************************************************************)
(* The lowering of XSMT operations: a kernel with views and products       *)
(* (XSMTTiles), or one with barriers (XSMTBarriers).  A kernel has both;   *)
(* neither lowering looks at what the other changes.                       *)
(***************************************************************************)
EXTENDS XSMTTiles, XSMTBarriers

vars == <<tileVars, barrierVars>>

NoTiles ==
  /\ program = <<>> /\ kernel = <<>> /\ vals = <<>> /\ code = <<>>
  /\ stage = "none" /\ stopped = {} /\ mem = Numbered /\ ref = Numbered
  /\ got = <<>> /\ spec = <<>> /\ patterns = {}

NoBarriers ==
  /\ ops = <<>> /\ releases = <<>> /\ pass = 0 /\ todo = {}
  /\ pc = 0 /\ env = <<>> /\ trips = 0 /\ live = <<>> /\ failures = {}

Init ==
  \/ TilesInit /\ NoBarriers
  \/ NoTiles /\ BarriersInit

Next ==
  \/ stage # "none" /\ TilesNext /\ UNCHANGED barrierVars
  \/ pass > 0 /\ BarriersNext /\ UNCHANGED tileVars

Spec == Init /\ [][Next]_vars
=============================================================================
