--------------------------- MODULE MCAxiRequester ---------------------------
(* Three tags and two registers, and FIFOs of two elements, which three    *)
(* reads fill.  The tag of a write is not looked at: all have the same.    *)
EXTENDS AxiRequester

CONSTANTS t1, t2, t3, a1, a2

MCPosted == [op : {"C_MEM_WR_REQ"}, tag : {t1}, addr : Addrs]

=============================================================================
