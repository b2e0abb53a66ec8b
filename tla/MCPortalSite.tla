---------------------------- MODULE MCPortalSite ----------------------------
(***************************************************************************)
(* PortalSite on a small instance: one origin as documented, and one with  *)
(* every character the encoding treats in a way of its own.                *)
(***************************************************************************)
EXTENDS PortalSite

MCOrigins ==
    {<<"h", "/", "h", "/", "/">>,
     <<"\\", "quote", "<", "/", "LS", "\\", "u003c", "PS", "quote", "\\">>}
=============================================================================
