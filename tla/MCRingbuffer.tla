---------------------------- MODULE MCRingbuffer ----------------------------
(* Six messages for four places: the buffer can be overwritten, turned by    *)
(* removals of the newest value, and overwritten again.                      *)
EXTENDS Ringbuffer

CONSTANTS v1, v2, v3, v4, v5, v6
=============================================================================
