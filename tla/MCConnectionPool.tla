-------------------------- MODULE MCConnectionPool --------------------------
(* Two glasses models and two successive objects of the OpenTrack stream,  *)
(* which is the only device that can be supplemental.                      *)
EXTENDS ConnectionPool

CONSTANTS g1, g2, o1, o2, mg1, mg2, mo, xreal, rokid, opentrack

MCModelOf == (g1 :> mg1) @@ (g2 :> mg2) @@ (o1 :> mo) @@ (o2 :> mo)

\* Glasses of two drivers.
MCDriverOf == (g1 :> xreal) @@ (g2 :> rokid) @@ (o1 :> opentrack) @@ (o2 :> opentrack)

\* Two models of one driver.
MCSameDriverOf == (g1 :> xreal) @@ (g2 :> xreal) @@ (o1 :> opentrack) @@ (o2 :> opentrack)
=============================================================================
