----------------------------- MODULE MCStreamFlow -----------------------------
(* Two streams, frames of one and two units and one above the ceiling; the    *)
(* window holds one large frame or two small ones, the cap less than both      *)
(* windows.                                                                    *)
EXTENDS StreamFlow
=============================================================================
